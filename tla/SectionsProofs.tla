--------------------------- MODULE SectionsProofs ---------------------------
(***************************************************************************)
(* What the sections of a scrape that walk the server's names keep         *)
(* invariant, for any databases, keys, options, access control lists and   *)
(* steps of other clients: which database is selected where, and what that *)
(* says about the series that are labelled with one.                       *)
(***************************************************************************)
EXTENDS Sections, TLAPS, FiniteSetTheorems, SequenceTheorems, WellFoundedInduction

\* Whatever its elements are, s is a sequence.
IsSeq(s) == s \in Seq(ToSet(s))

Keyed == {"checkKeys", "countKeys", "streams"}
Scanning == {"scan", "scanned"}
Describing == {"stream", "groups", "consumers"}

\* Which steps belong to which section.
Places ==
    /\ section \in SectionNames
    /\ section \in {"checkKeys", "countKeys"} => step \in {"next"} \cup Scanning
    /\ section = "streams" => step \in {"next", "select"} \cup Scanning \cup Describing
    /\ section = "sentinel" => step \in {"next", "ckquorum", "sentinels", "slaves"}
    /\ section = "search" => step \in {"next", "index"}
    /\ section \in {"slowlog", "keyGroups", "script", "end"} => step = "next"

\* The options and the server, as the scenario gives them and other clients change them.
ServerType ==
    /\ {opts.checkKeys, opts.countKeys, opts.checkStreams} \subseteq Seq(Patterns)
    /\ {opts.singleKeys, opts.singleStreams} \subseteq Seq(Entries)
    /\ store \in [Dbs -> [Keys -> Contents]]
    /\ IsFiniteSet(DOMAIN masters) /\ IsFiniteSet(DOMAIN indexes)
    /\ selected \in Dbs /\ alive \in BOOLEAN
    /\ changes \in 0 .. MaxChanges
    /\ pending \in {"no", "yes"} \cup SectionNames

\* The loops: what is left to visit is there as long as one of its elements is at hand.
LoopType ==
    /\ (section \in Keyed /\ step \in {"next"} \cup Scanning) => todo \in Seq(Patterns)
    /\ section = "streams" => todo \in Seq(Entries)
    /\ step \in Scanning \cup Describing => todo # <<>>
    /\ found \in Seq(Keys) /\ expanded \in Seq(Entries)
    /\ batches \in Nat /\ repeats \in Nat
    /\ iter \in Cursors /\ iter < 2 ^ (CursorBits - 1)
    /\ IsSeq(out)

\* What the server owes to an iteration of SCAN is there, in the database selected.
Owing == owed \subseteq Keys /\ ((step = "scan" /\ batches > 0) => owed \subseteq Present(selected))

TypeInv == Places /\ ServerType /\ LoopType /\ Owing

\* An entry is at hand only in its own database.
InDb == step \in Scanning \cup Describing => selected = entry.db

\* The databases that the key options name, and the one the connection began with.
NamedDbs == {0} \cup DbsOf(opts.singleKeys \o opts.checkKeys \o opts.countKeys \o
                           opts.singleStreams \o opts.checkStreams)

ReachableDbs == NamedDbs \cup (IF opts.keyGroups THEN 0 .. DbCount - 1 ELSE {})

\* What the sections have yet to visit, and what they have found, is in databases that the
\* options name.
Sourced == section \in Keyed => \A e \in ToSet(todo) \cup ToSet(expanded) : e.db \in NamedDbs

\* All groups are gathered, in every database, if the connection holds.
AllGroups == opts.keyGroups /\ DbCount > 0 /\ acl = Open

\* Only databases that an option names, or key groups, are selected; the last of those stays.
Visited ==
    /\ selected \in ReachableDbs
    /\ (AllGroups /\ alive /\ section \in {"sentinel", "search", "script"}) =>
          selected = DbCount - 1

IInv == TypeInv /\ InDb /\ Sourced /\ Visited /\ Labelled /\ ScriptDb

-----------------------------------------------------------------------------
(***************************************************************************)
(* Sequences, sets and powers of two.                                      *)
(***************************************************************************)
\* A sequence of elements of S is a sequence.
LEMMA SeqIsSeq ==
    ASSUME NEW S, NEW s \in Seq(S)
    PROVE  IsSeq(s) /\ ToSet(s) \subseteq S
<1>1. \A i \in 1 .. Len(s) : s[i] \in ToSet(s)
  BY DEF ToSet
<1>2. QED
  BY <1>1 DEF IsSeq, ToSet

\* Append adds one element.
LEMMA AppendFacts ==
    ASSUME NEW s, IsSeq(s), NEW x
    PROVE  /\ IsSeq(Append(s, x))
           /\ DOMAIN s = 1 .. Len(s) /\ DOMAIN Append(s, x) = 1 .. Len(s) + 1
           /\ Len(s) \in Nat
           /\ Append(s, x)[Len(s) + 1] = x
           /\ \A i \in DOMAIN s : Append(s, x)[i] = s[i]
           /\ ToSet(Append(s, x)) = ToSet(s) \cup {x}
<1> DEFINE S == ToSet(s) \cup {x}
<1>1. s \in Seq(S)
  BY SeqMonotonic DEF IsSeq
<1>2. x \in S
  OBVIOUS
<1> HIDE DEF S
<1>3. /\ Append(s, x) \in Seq(S) /\ Len(Append(s, x)) = Len(s) + 1 /\ Len(s) \in Nat
      /\ Append(s, x)[Len(s) + 1] = x
      /\ \A i \in 1 .. Len(s) : Append(s, x)[i] = s[i]
  BY <1>1, <1>2
<1>4. DOMAIN s = 1 .. Len(s) /\ DOMAIN Append(s, x) = 1 .. Len(s) + 1
  BY <1>1, <1>3, LenProperties
<1>5. ToSet(Append(s, x)) = ToSet(s) \cup {x}
  BY <1>3, <1>4 DEF ToSet
<1>6. QED
  BY <1>3, <1>4, <1>5, SeqIsSeq

\* Concatenation joins the elements.
LEMMA ConcatFacts ==
    ASSUME NEW S, NEW s \in Seq(S), NEW t \in Seq(S)
    PROVE  s \o t \in Seq(S) /\ ToSet(s \o t) = ToSet(s) \cup ToSet(t)
<1>1. /\ s \o t \in Seq(S) /\ Len(s \o t) = Len(s) + Len(t)
      /\ \A i \in 1 .. Len(s) + Len(t) :
            (s \o t)[i] = IF i <= Len(s) THEN s[i] ELSE t[i - Len(s)]
  BY ConcatProperties
<1>2. Len(s) \in Nat /\ Len(t) \in Nat /\ DOMAIN s = 1 .. Len(s) /\ DOMAIN t = 1 .. Len(t)
      /\ DOMAIN (s \o t) = 1 .. Len(s) + Len(t)
  BY <1>1, LenProperties
<1>3. ASSUME NEW x \in ToSet(s) \cup ToSet(t) PROVE x \in ToSet(s \o t)
  <2>1. CASE x \in ToSet(s)
    <3>1. PICK i \in 1 .. Len(s) : x = s[i]
      BY <1>2, <2>1 DEF ToSet
    <3>2. i \in DOMAIN (s \o t) /\ (s \o t)[i] = x
      BY <1>1, <1>2, <3>1
    <3>3. QED
      BY <3>2 DEF ToSet
  <2>2. CASE x \in ToSet(t)
    <3>1. PICK i \in 1 .. Len(t) : x = t[i]
      BY <1>2, <2>2 DEF ToSet
    <3>2. Len(s) + i \in DOMAIN (s \o t) /\ (s \o t)[Len(s) + i] = x
      BY <1>1, <1>2, <3>1
    <3>3. QED
      BY <3>2 DEF ToSet
  <2>3. QED
    BY <2>1, <2>2
<1>4. ToSet(s \o t) \subseteq ToSet(s) \cup ToSet(t)
  <2>1. \A i \in 1 .. Len(s) + Len(t) : i > Len(s) => i - Len(s) \in 1 .. Len(t)
    BY <1>2
  <2>2. QED
    BY <1>1, <1>2, <2>1 DEF ToSet
<1>5. QED
  BY <1>1, <1>3, <1>4

\* The first element and the others.
LEMMA HeadTailFacts ==
    ASSUME NEW S, NEW s \in Seq(S), s # <<>>
    PROVE  /\ Head(s) \in S /\ Tail(s) \in Seq(S) /\ Head(s) \in ToSet(s)
           /\ ToSet(s) = {Head(s)} \cup ToSet(Tail(s))
<1>1. /\ Head(s) \in S /\ Tail(s) \in Seq(S) /\ Head(s) = s[1] /\ Len(s) \in Nat /\ Len(s) > 0
      /\ Len(Tail(s)) = Len(s) - 1
      /\ \A i \in 1 .. Len(Tail(s)) : Tail(s)[i] = s[i + 1]
  BY HeadTailProperties, EmptySeq, LenProperties
<1>2. DOMAIN s = 1 .. Len(s) /\ DOMAIN Tail(s) = 1 .. Len(s) - 1
  BY <1>1, LenProperties
<1>3. Head(s) \in ToSet(s)
  BY <1>1, <1>2 DEF ToSet
<1>4. ASSUME NEW x \in ToSet(Tail(s)) PROVE x \in ToSet(s)
  <2>1. PICK i \in 1 .. Len(s) - 1 : x = Tail(s)[i]
    BY <1>2 DEF ToSet
  <2>2. i + 1 \in DOMAIN s /\ s[i + 1] = x
    BY <1>1, <1>2, <2>1
  <2>3. QED
    BY <2>2 DEF ToSet
<1>5. ASSUME NEW x \in ToSet(s), x # Head(s) PROVE x \in ToSet(Tail(s))
  <2>1. PICK i \in 1 .. Len(s) : x = s[i]
    BY <1>2 DEF ToSet
  <2>2. i - 1 \in 1 .. Len(s) - 1 /\ i = (i - 1) + 1
    BY <1>1, <1>5, <2>1
  <2>3. i - 1 \in DOMAIN Tail(s) /\ Tail(s)[i - 1] = x
    BY <1>1, <1>2, <2>1, <2>2
  <2>4. QED
    BY <2>3 DEF ToSet
<1>6. QED
  BY <1>1, <1>3, <1>4, <1>5

\* SetToSeq lists each element of a finite set once.
LEMMA SetToSeqFacts ==
    ASSUME NEW S, IsFiniteSet(S)
    PROVE  /\ SetToSeq(S) \in Seq(S) /\ Len(SetToSeq(S)) = Cardinality(S)
           /\ Cardinality(S) \in Nat
           /\ ToSet(SetToSeq(S)) = S
<1> DEFINE n == Cardinality(S)
           f == SetToSeq(S)
<1>1. n \in Nat /\ ExistsBijection(1 .. n, S)
  BY FS_CardinalityType
<1>2. PICK g : g \in Bijection(1 .. n, S)
  BY <1>1 DEF ExistsBijection
<1>3. g \in [1 .. n -> S] /\ IsInjective(g)
  BY <1>2 DEF Bijection, Injection
<1>4. f \in [1 .. n -> S] /\ IsInjective(f)
  BY <1>3 DEF SetToSeq
<1>5. f \in Injection(1 .. n, S)
  BY <1>4 DEF Injection
<1>6. IsFiniteSet(1 .. n) /\ Cardinality(1 .. n) = n
  BY <1>1, FS_Interval
<1>7. f \in Surjection(1 .. n, S)
  BY <1>5, <1>6, FS_Injection
<1>8. \A x \in S : \E i \in 1 .. n : f[i] = x
  BY <1>7 DEF Surjection
<1>9. f \in Seq(S) /\ Len(f) = n
  <2> HIDE DEF f, n
  <2>1. f \in Seq(S)
    BY <1>1, <1>4
  <2>2. QED
    BY <1>1, <1>4, <2>1, LenProperties
<1>10. ToSet(f) = S
  <2> HIDE DEF f, n
  <2>1. QED
    BY <1>4, <1>8 DEF ToSet
<1>11. QED
  BY <1>1, <1>9, <1>10

\* Some numbers below n have a greatest one.
LEMMA Greatest ==
    ASSUME NEW n \in Nat, NEW T \in SUBSET (0 .. n - 1), T # {}
    PROVE  \E d \in T : \A x \in T : x <= d
<1> DEFINE U == {n - x : x \in T}
           R == OpToRel(<, Nat)
<1>1. U \subseteq Nat /\ U # {}
  OBVIOUS
<1>2. PICK u \in U : \A y \in U : ~(<<y, u>> \in R)
  <2> HIDE DEF U
  <2>1. QED
    BY <1>1, NatLessThanWellFounded, WFMin, Zenon
<1>3. \A y \in U : u <= y
  <2> SUFFICES ASSUME NEW y \in U, y < u PROVE FALSE
    BY <1>1
  <2>1. <<y, u>> \in R
    BY <1>1, SMT DEF OpToRel
  <2>2. QED
    BY <1>2, <2>1
<1>4. PICK d \in T : u = n - d
  OBVIOUS
<1>5. ASSUME NEW x \in T PROVE x <= d
  <2>1. n - x \in U
    OBVIOUS
  <2>2. n - d <= n - x
    BY <1>3, <1>4, <2>1
  <2>3. x \in 0 .. n - 1 /\ d \in 0 .. n - 1
    OBVIOUS
  <2>4. QED
    BY <2>2, <2>3
<1>6. QED
  BY <1>5

\* A power of two is positive: it counts the subsets of a set.
LEMMA PowerOfTwo ==
    ASSUME NEW n \in Nat
    PROVE  2 ^ n \in Nat \ {0}
<1> DEFINE S == 1 .. n
<1>1. IsFiniteSet(S) /\ Cardinality(S) = n
  BY FS_Interval
<1>2. IsFiniteSet(SUBSET S) /\ Cardinality(SUBSET S) = 2 ^ n
  BY <1>1, FS_SUBSET
<1>3. SUBSET S # {}
  OBVIOUS
<1>4. QED
  BY <1>2, <1>3, FS_EmptySet, FS_CardinalityType

\* A cursor that is read as an integer fits into one.
LEMMA CursorFacts ==
    /\ 0 \in Cursors /\ 0 < 2 ^ (CursorBits - 1)
    /\ \A c \in Cursors : ParseCursor(c) \in Cursors /\ ParseCursor(c) < 2 ^ (CursorBits - 1)
<1>1. 2 ^ CursorBits \in Nat \ {0}
  BY PowerOfTwo, BoundsAssumption
<1>2. CursorBits - 1 \in Nat
  BY BoundsAssumption
<1>3. 2 ^ (CursorBits - 1) \in Nat \ {0}
  BY <1>2, PowerOfTwo
<1> DEFINE m == 2 ^ CursorBits
           n == 2 ^ (CursorBits - 1)
<1> HIDE DEF m, n
<1>4. QED
  BY <1>1, <1>3 DEF Cursors, ParseCursor, m, n

-----------------------------------------------------------------------------
(***************************************************************************)
(* Types.                                                                  *)
(***************************************************************************)
\* The options and the access control list do not change, and a connection that is lost
\* stays lost.
LEMMA Frame ==
    ASSUME [Next]_vars
    PROVE  opts' = opts /\ acl' = acl /\ (alive = FALSE => alive' = FALSE)
<1> USE DEF serverVars
<1>1. CASE KeyScanNext
  BY <1>1 DEF KeyScanNext, PlainEntry, ExpandEntry, CountEntry, ScanBatch, ScanError, ScannedKeys,
              CountKeys, Gather, CountDone
<1>2. CASE StreamsNext
  BY <1>2 DEF StreamsNext, StreamsListed, SelectStreamDb, XInfoStream, XInfoGroups, XInfoConsumers,
              RegisterStream, StreamsDone
<1>3. CASE DirectoryNext
  BY <1>3 DEF DirectoryNext, NotSentinel, SentinelMasters, CkQuorum, SentinelSentinels,
              SentinelSlaves, SentinelConfig, SearchList, SearchInfo, SearchDone
<1>4. CASE SlowLog \/ KeyGroups \/ LuaScript
  BY <1>4 DEF SlowLog, KeyGroups, LuaScript
<1>5. CASE Environment \/ Terminated \/ UNCHANGED vars
  BY <1>5 DEF Environment, OtherClient, Lose, Terminated, vars
<1>6. QED
  BY <1>1, <1>2, <1>3, <1>4, <1>5 DEF Next, Exporter

\* SELECT leaves one of the server's databases selected, the one asked for if it can be.
LEMMA SelectsFacts ==
    ASSUME selected \in Dbs, NEW d, Selects(d)
    PROVE  /\ selected' \in Dbs /\ selected' \in {selected, d}
           /\ ~SelectFails(d) => selected' = d /\ alive
BY DEF Selects, SelectRefused, SelectFails

\* An error unread is read once.
LEMMA PendingFacts ==
    ASSUME pending \in {"no", "yes"} \cup SectionNames, section \in SectionNames,
           ReadPending(section)
    PROVE  pending' \in {"no", "yes"} \cup SectionNames
BY DEF ReadPending

\* The database that key groups leave selected.
LEMMA GroupFacts ==
    ASSUME selected \in Dbs, KeyGroups
    PROVE  /\ selected' \in Dbs
           /\ selected' = selected \/ (opts.keyGroups /\ selected' \in 0 .. DbCount - 1)
           /\ AllGroups /\ alive => selected' = DbCount - 1
<1> DEFINE ok == {d \in GroupDbs : ~SelectRefused(d)}
           last == CHOOSE d \in ok : \A x \in ok : x <= d
<1>1. selected' = IF opts.keyGroups /\ ok # {} THEN last ELSE selected
  BY DEF KeyGroups
<1>2. ok \subseteq 0 .. DbCount - 1 /\ ok \subseteq Dbs
  BY DEF GroupDbs, SelectRefused
<1>3. ok # {} => last \in ok /\ \A x \in ok : x <= last
  <2> HIDE DEF ok
  <2>1. ok # {} => \E d \in ok : \A x \in ok : x <= d
    BY <1>2, Greatest, DbCountAssumption
  <2>2. QED
    BY <2>1
<1>4. ASSUME AllGroups, alive PROVE last = DbCount - 1 /\ ok # {} /\ opts.keyGroups
  <2>1. ok = 0 .. DbCount - 1 /\ opts.keyGroups /\ DbCount > 0
    BY <1>4, DbCountAssumption DEF AllGroups, GroupDbs, SelectRefused, Open
  <2>2. DbCount - 1 \in ok
    BY <2>1, DbCountAssumption
  <2>3. last \in 0 .. DbCount - 1 /\ DbCount - 1 <= last
    BY <1>3, <2>1, <2>2
  <2>4. QED
    BY <2>1, <2>2, <2>3, DbCountAssumption
<1> HIDE DEF last, ok
<1>5. QED
  BY <1>1, <1>2, <1>3, <1>4

\* Other clients and the network keep the types.
LEMMA EnvironmentType ==
    ASSUME TypeInv, Environment
    PROVE  TypeInv'
<1>1. /\ UNCHANGED <<section, step, todo, found, iter, batches, expanded, repeats, wide, out, opts,
                     selected, pending>>
      /\ OtherClient \/ Lose
  BY DEF Environment, OtherClient, Lose, scanVars
<1>2. Places'
  BY <1>1 DEF TypeInv, Places
<1>3. LoopType'
  BY <1>1, Zenon DEF TypeInv, LoopType
<1>4. ServerType' /\ Owing'
  <2>1. CASE Lose
    BY <1>1, <2>1 DEF Lose, TypeInv, ServerType, Owing, Present
  <2>2. CASE OtherClient /\ WriteKey
    <3>1. PICK d \in Dbs, k \in Keys, v \in Values :
            /\ store' = [store EXCEPT ![d][k] = v]
            /\ owed' = IF d = selected /\ v = "none" THEN owed \ {k} ELSE owed
      BY <2>2 DEF WriteKey
    <3>2. store \in [Dbs -> [Keys -> Contents]] /\ v \in Contents
      BY ValuesAssumption DEF TypeInv, ServerType
    <3>3. store' \in [Dbs -> [Keys -> Contents]]
      BY <3>1, <3>2
    <3>4. changes' \in 0 .. MaxChanges
      BY <2>2, BoundsAssumption DEF OtherClient, TypeInv, ServerType
    <3>5. masters' = masters /\ indexes' = indexes /\ alive' = alive
      BY <2>2 DEF WriteKey, OtherClient
    <3>6. ServerType'
      BY <1>1, <3>3, <3>4, <3>5 DEF TypeInv, ServerType
    <3>7. owed' \subseteq owed
      BY <3>1
    <3>8. ASSUME NEW x \in owed', owed \subseteq Present(selected) PROVE x \in Present(selected)'
      <4>1. x \in Keys /\ store[selected][x] # "none" /\ selected \in Dbs
        BY <3>7, <3>8 DEF Present, TypeInv, ServerType
      <4>2. CASE d = selected /\ x = k
        <5>1. v # "none"
          BY <3>1, <3>8, <4>2
        <5>2. store'[selected][x] = v
          BY <3>1, <3>2, <4>1, <4>2
        <5>3. QED
          BY <1>1, <4>1, <5>1, <5>2 DEF Present
      <4>3. CASE ~(d = selected /\ x = k)
        <5>1. store'[selected][x] = store[selected][x]
          BY <3>1, <3>2, <4>1, <4>3
        <5>2. QED
          BY <1>1, <4>1, <5>1 DEF Present
      <4>4. QED
        BY <4>2, <4>3
    <3>9. Owing'
      BY <1>1, <3>7, <3>8 DEF TypeInv, Owing
    <3>10. QED
      BY <3>6, <3>9
  <2>3. CASE OtherClient /\ RemoveName
    <3>1. UNCHANGED <<store, owed, alive>> /\ changes' \in 0 .. MaxChanges
      BY <2>3, BoundsAssumption DEF OtherClient, RemoveName, TypeInv, ServerType
    <3>2. IsFiniteSet(DOMAIN masters) /\ IsFiniteSet(DOMAIN indexes)
      BY DEF TypeInv, ServerType
    <3>3. DOMAIN masters' \subseteq DOMAIN masters /\ DOMAIN indexes' \subseteq DOMAIN indexes
      BY <2>3 DEF RemoveName, Restrict
    <3>4. IsFiniteSet(DOMAIN masters') /\ IsFiniteSet(DOMAIN indexes')
      BY <3>2, <3>3, FS_Subset
    <3>5. QED
      BY <1>1, <3>1, <3>4 DEF TypeInv, ServerType, Owing, Present
  <2>4. QED
    BY <1>1, <2>1, <2>2, <2>3 DEF OtherClient
<1>5. QED
  BY <1>2, <1>3, <1>4 DEF TypeInv

\* A scrape changes nothing in the server but the database selected on its connection.
LEMMA ExporterServer ==
    ASSUME TypeInv, Exporter
    PROVE  UNCHANGED <<opts, store, masters, indexes, acl, changes, touched, alive>> /\ ServerType'
<1> USE DEF serverVars
<1>1. /\ selected \in Dbs /\ section \in SectionNames
      /\ pending \in {"no", "yes"} \cup SectionNames
  BY DEF TypeInv, ServerType, Places
<1>2. UNCHANGED <<opts, store, masters, indexes, acl, changes, touched, alive>>
  <2>1. CASE KeyScanNext
    BY <2>1 DEF KeyScanNext, PlainEntry, ExpandEntry, CountEntry, ScanBatch, ScanError, ScannedKeys,
                CountKeys, Gather, CountDone
  <2>2. CASE StreamsNext
    BY <2>2 DEF StreamsNext, StreamsListed, SelectStreamDb, XInfoStream, XInfoGroups, XInfoConsumers,
                RegisterStream, StreamsDone
  <2>3. CASE DirectoryNext
    BY <2>3 DEF DirectoryNext, NotSentinel, SentinelMasters, CkQuorum, SentinelSentinels,
                SentinelSlaves, SentinelConfig, SearchList, SearchInfo, SearchDone
  <2>4. CASE SlowLog \/ KeyGroups \/ LuaScript
    BY <2>4 DEF SlowLog, KeyGroups, LuaScript
  <2>5. QED
    BY <2>1, <2>2, <2>3, <2>4 DEF Exporter
<1>3. selected' \in Dbs /\ pending' \in {"no", "yes"} \cup SectionNames
  <2>1. CASE PlainEntry \/ ScannedKeys \/ CountKeys \/ CountDone \/ ScanBatch
    BY <1>1, <2>1 DEF PlainEntry, ScannedKeys, CountKeys, CountDone, ScanBatch
  <2>2. CASE ScanError
    BY <1>1, <2>2, PendingFacts DEF ScanError
  <2>3. CASE ExpandEntry \/ CountEntry
    BY <1>1, <2>3, PendingFacts, SelectsFacts DEF ExpandEntry, CountEntry
  <2>4. CASE Gather
    <3>1. \A d \in Nat \cup Dbs : ~SelectRefused(d) => d \in Dbs
      BY DEF SelectRefused
    <3>2. selected' \in Dbs
      <4>1. CASE allKeys = <<>>
        BY <1>1, <2>4, <4>1 DEF Gather
      <4>2. CASE allKeys # <<>>
        <5> DEFINE ok == {d \in DbsOf(allKeys) : ~SelectRefused(d)}
        <5>1. selected' \in IF ok = {} THEN {selected} ELSE ok
          BY <2>4, <4>2 DEF Gather
        <5>2. ok \subseteq Dbs
          BY DEF SelectRefused
        <5>3. QED
          BY <1>1, <5>1, <5>2
      <4>3. QED
        BY <4>1, <4>2
    <3>3. pending' \in {"no", "yes", pending}
      BY <2>4 DEF Gather
    <3>4. QED
      BY <1>1, <3>2, <3>3
  <2>5. CASE StreamsListed \/ RegisterStream \/ StreamsDone
    BY <1>1, <2>5 DEF StreamsListed, RegisterStream, StreamsDone
  <2>6. CASE SelectStreamDb
    BY <1>1, <2>6, PendingFacts, SelectsFacts DEF SelectStreamDb
  <2>7. CASE XInfoStream \/ XInfoGroups \/ XInfoConsumers
    BY <1>1, <2>7, PendingFacts DEF XInfoStream, XInfoGroups, XInfoConsumers
  <2>8. CASE SlowLog \/ LuaScript
    BY <1>1, <2>8, PendingFacts DEF SlowLog, LuaScript
  <2>9. CASE KeyGroups
    BY <1>1, <2>9, GroupFacts DEF KeyGroups
  <2>10. CASE NotSentinel \/ SearchDone
    BY <1>1, <2>10 DEF NotSentinel, SearchDone
  <2>11. CASE SentinelMasters \/ CkQuorum \/ SentinelSentinels \/ SentinelSlaves
    BY <1>1, <2>11, PendingFacts DEF SentinelMasters, CkQuorum, SentinelSentinels, SentinelSlaves
  <2>12. CASE SentinelConfig \/ SearchList \/ SearchInfo
    BY <1>1, <2>12, PendingFacts DEF SentinelConfig, SearchList, SearchInfo
  <2>13. QED
    BY <2>1, <2>2, <2>3, <2>4, <2>5, <2>6, <2>7, <2>8, <2>9, <2>10, <2>11, <2>12
       DEF Exporter, KeyScanNext, StreamsNext, DirectoryNext
<1>4. QED
  BY <1>2, <1>3 DEF TypeInv, ServerType

\* The sections follow each other, each in its own steps.
LEMMA PlacesStep ==
    ASSUME Places, Exporter
    PROVE  Places'
<1> USE DEF Places, SectionNames, Scanning, Describing, scanVars
<1>1. CASE KeyScanNext
  BY <1>1 DEF KeyScanNext, PlainEntry, ExpandEntry, CountEntry, ScanBatch, ScanError, ScannedKeys,
              CountKeys, Gather, CountDone, Expanding, BeginScan
<1>2. CASE StreamsNext
  BY <1>2 DEF StreamsNext, StreamsListed, SelectStreamDb, XInfoStream, XInfoGroups, XInfoConsumers,
              RegisterStream, StreamsDone, NextStream
<1>3. CASE DirectoryNext
  BY <1>3 DEF DirectoryNext, NotSentinel, SentinelMasters, CkQuorum, SentinelSentinels,
              SentinelSlaves, SentinelConfig, SearchList, SearchInfo, SearchDone
<1>4. CASE SlowLog \/ KeyGroups \/ LuaScript
  BY <1>4 DEF SlowLog, KeyGroups, LuaScript
<1>5. QED
  BY <1>1, <1>2, <1>3, <1>4 DEF Exporter

\* The series that carry no database.
Unlabelled == {"slowlog_length", "slowlog_last_id", "ckquorum_status", "ok_sentinels", "ok_slaves",
               "sentinel_config", "search_index"}

CountRecord == [name |-> "keys_count", db |-> entry.db, key |-> entry.pat, at |-> selected,
                value |-> Len(found), repeats |-> repeats]
StreamRecord == [name |-> "stream", db |-> entry.db, key |-> key, at |-> selected,
                 value |-> info.n, groups |-> Registered(info.groups)]
KeysRecord == [name |-> "allKeys", keys |-> allKeys]
ScriptRecord == [name |-> "script_values", at |-> selected]

\* What is registered stays registered, and each labelled series is registered by one step.
LEMMA OutStep ==
    ASSUME IsSeq(out), [Next]_vars
    PROVE  /\ IsSeq(out') /\ ToSet(out) \subseteq ToSet(out')
           /\ \A r \in ToSet(out') :
                 \/ r \in ToSet(out)
                 \/ r.name \in Unlabelled
                 \/ CountKeys /\ r = CountRecord
                 \/ RegisterStream /\ r = StreamRecord
                 \/ Gather /\ r = KeysRecord
                 \/ LuaScript /\ ~Fails("EVAL") /\ r = ScriptRecord
<1> USE DEF Unlabelled
<1>1. CASE out' = out
  BY <1>1
<1>2. CASE CountKeys
  <2>1. out' = Append(out, CountRecord)
    BY <1>2 DEF CountKeys, CountRecord
  <2>2. QED
    BY <1>2, <2>1, AppendFacts
<1>3. CASE RegisterStream
  <2>1. out' = Append(out, StreamRecord)
    BY <1>3 DEF RegisterStream, StreamRecord
  <2>2. QED
    BY <1>3, <2>1, AppendFacts
<1>4. CASE Gather
  <2>1. out' = Append(out, KeysRecord)
    BY <1>4 DEF Gather, KeysRecord
  <2>2. QED
    BY <1>4, <2>1, AppendFacts
<1>5. CASE LuaScript
  <2>1. out' = out \/ (~Fails("EVAL") /\ out' = Append(out, ScriptRecord))
    BY <1>5 DEF LuaScript, ScriptRecord
  <2>2. CASE ~Fails("EVAL") /\ out' = Append(out, ScriptRecord)
    BY <1>5, <2>2, AppendFacts
  <2>3. QED
    BY <1>1, <2>1, <2>2
<1>6. CASE SlowLog
  <2> DEFINE a == IF Fails("SLOWLOG") THEN <<>> ELSE <<[name |-> "slowlog_length"]>>
             b == IF Refused("SLOWLOG") THEN <<>> ELSE <<[name |-> "slowlog_last_id"]>>
             N == {[name |-> "slowlog_length"], [name |-> "slowlog_last_id"]}
             S == ToSet(out) \cup N
  <2>1. out' = (out \o a) \o b
    BY <1>6 DEF SlowLog
  <2>2. out \in Seq(S) /\ a \in Seq(N) /\ b \in Seq(N)
    <3>1. out \in Seq(S)
      BY SeqMonotonic DEF IsSeq
    <3>2. <<>> \in Seq(N) /\ \A x \in N : <<x>> \in Seq(N)
      OBVIOUS
    <3>3. QED
      BY <3>1, <3>2
  <2>3. a \in Seq(S) /\ b \in Seq(S)
    BY <2>2, SeqMonotonic
  <2>4. ToSet(a) \subseteq N /\ ToSet(b) \subseteq N
    BY <2>2, SeqIsSeq
  <2>5. \A r \in N : r.name \in Unlabelled
    OBVIOUS
  <2> HIDE DEF a, b, S, N
  <2> DEFINE t == out \o a
  <2>6. t \in Seq(S) /\ ToSet(t) = ToSet(out) \cup ToSet(a)
    BY <2>2, <2>3, ConcatFacts
  <2> HIDE DEF t
  <2>7. t \o b \in Seq(S) /\ ToSet(t \o b) = ToSet(out) \cup ToSet(a) \cup ToSet(b)
    BY <2>3, <2>6, ConcatFacts
  <2>8. out' = t \o b
    BY <2>1 DEF t
  <2>9. QED
    BY <2>4, <2>5, <2>7, <2>8, SeqIsSeq
<1>7. CASE CkQuorum \/ SentinelSentinels \/ SentinelSlaves
  <2>1. \E n \in Unlabelled : \E m, v : out' = Append(out, [name |-> n, key |-> m, value |-> v])
    BY <1>7 DEF CkQuorum, SentinelSentinels, SentinelSlaves
  <2>2. PICK n \in Unlabelled :
           \E m, v : out' = Append(out, [name |-> n, key |-> m, value |-> v])
    BY <2>1
  <2>3. PICK m, v : out' = Append(out, [name |-> n, key |-> m, value |-> v])
    BY <2>2
  <2> DEFINE x == [name |-> n, key |-> m, value |-> v]
  <2>4. x.name \in Unlabelled
    OBVIOUS
  <2> HIDE DEF x
  <2>5. QED
    BY <2>3, <2>4, AppendFacts DEF x
<1>8. CASE SentinelConfig
  <2>1. out' = out \/ \E m, v : out' = Append(out, [name |-> "sentinel_config",
                                                    keyValues |-> m, values |-> v])
    BY <1>8, Zenon DEF SentinelConfig
  <2>2. CASE out' # out
    <3>1. PICK m, v : out' = Append(out, [name |-> "sentinel_config", keyValues |-> m, values |-> v])
      BY <2>1, <2>2
    <3> DEFINE x == [name |-> "sentinel_config", keyValues |-> m, values |-> v]
    <3>2. x.name \in Unlabelled
      OBVIOUS
    <3> HIDE DEF x
    <3>3. QED
      BY <3>1, <3>2, AppendFacts DEF x
  <2>3. QED
    BY <1>1, <2>2
<1>9. CASE SearchInfo
  <2> DEFINE x == [name |-> "search_index", key |-> Head(todo)]
  <2>1. out' = out \/ out' = Append(out, x)
    BY <1>9 DEF SearchInfo
  <2>2. x.name \in Unlabelled
    OBVIOUS
  <2> HIDE DEF x
  <2>3. CASE out' = Append(out, x)
    BY <2>2, <2>3, AppendFacts
  <2>4. QED
    BY <1>1, <2>1, <2>3
<1>10. CASE PlainEntry \/ ExpandEntry \/ CountEntry \/ ScanBatch \/ ScanError \/ ScannedKeys \/ CountDone
  BY <1>1, <1>10 DEF PlainEntry, ExpandEntry, CountEntry, ScanBatch, ScanError, ScannedKeys, CountDone
<1>11. CASE StreamsListed \/ SelectStreamDb \/ XInfoStream \/ XInfoGroups \/ XInfoConsumers \/ StreamsDone
  BY <1>1, <1>11 DEF StreamsListed, SelectStreamDb, XInfoStream, XInfoGroups, XInfoConsumers,
                     StreamsDone
<1>12. CASE KeyGroups \/ NotSentinel \/ SentinelMasters \/ SearchList \/ SearchDone
  BY <1>1, <1>12 DEF KeyGroups, NotSentinel, SentinelMasters, SearchList, SearchDone
<1>13. CASE Environment \/ Terminated \/ UNCHANGED vars
  BY <1>1, <1>13 DEF Environment, Terminated, vars
<1>14. QED
  BY <1>2, <1>3, <1>4, <1>5, <1>6, <1>7, <1>8, <1>9, <1>10, <1>11, <1>12, <1>13
     DEF Next, Exporter, KeyScanNext, StreamsNext, DirectoryNext

\* The loops of the three sections that go through the options.
LoopsOf == /\ (section \in Keyed /\ step \in {"next"} \cup Scanning) => todo \in Seq(Patterns)
           /\ section = "streams" => todo \in Seq(Entries)
           /\ step \in Scanning \cup Describing => todo # <<>>

\* The loops keep their types, whatever is found or fails.
LEMMA LoopStep ==
    ASSUME TypeInv, Exporter
    PROVE  LoopType'
<1>1. /\ Places /\ found \in Seq(Keys) /\ expanded \in Seq(Entries)
      /\ batches \in Nat /\ repeats \in Nat
      /\ iter \in Cursors /\ iter < 2 ^ (CursorBits - 1)
      /\ LoopsOf
  BY DEF TypeInv, LoopType, LoopsOf
<1>2. IsSeq(out')
  BY OutStep DEF TypeInv, LoopType, Next
<1>3. {opts.checkKeys, opts.countKeys, opts.checkStreams} \subseteq Seq(Patterns)
      /\ {opts.singleKeys, opts.singleStreams} \subseteq Seq(Entries)
  BY DEF TypeInv, ServerType
<1>4. Patterns \subseteq Entries /\ Seq(Patterns) \subseteq Seq(Entries)
  <2>1. Patterns \subseteq Entries
    BY DEF Patterns, Entries
  <2>2. QED
    BY <2>1, SeqMonotonic
<1>5. <<>> \in Seq(Keys) /\ <<>> \in Seq(Entries) /\ <<>> \in Seq(Patterns)
  OBVIOUS
<1>6. ASSUME todo # <<>>, section \in Keyed, step \in {"next"} \cup Scanning
      PROVE  /\ entry \in Patterns /\ Tail(todo) \in Seq(Patterns)
             /\ todo \in Seq(Entries) /\ Tail(todo) \in Seq(Entries)
  BY <1>1, <1>4, <1>6, HeadTailFacts DEF LoopsOf, entry
<1>7. ASSUME UNCHANGED scanVars, LoopsOf' PROVE LoopType'
  BY <1>1, <1>2, <1>7 DEF LoopType, LoopsOf, scanVars
<1> HIDE DEF Patterns, Entries
<1> USE DEF LoopsOf, Keyed, Scanning, Describing, Expanding
<1>8. CASE PlainEntry
  <2>1. /\ todo # <<>> /\ todo' = Tail(todo) /\ expanded' = Append(expanded, entry)
        /\ section \in {"checkKeys", "streams"} /\ step = "next"
        /\ UNCHANGED <<section, step, found, iter, batches, repeats>>
    BY <1>8 DEF PlainEntry
  <2>2. entry \in Entries /\ Tail(todo) \in Seq(Patterns) /\ Tail(todo) \in Seq(Entries)
    BY <1>4, <1>6, <2>1
  <2>3. expanded' \in Seq(Entries)
    BY <1>1, <2>1, <2>2
  <2>4. QED
    BY <1>1, <1>2, <2>1, <2>2, <2>3 DEF LoopType
<1>9. CASE ExpandEntry
  <2>1. /\ todo # <<>> /\ section \in {"checkKeys", "streams"} /\ step = "next" /\ section' = section
        /\ \/ todo' = <<>> /\ expanded' = <<>> /\ UNCHANGED <<step, found, iter, batches, repeats>>
           \/ BeginScan /\ UNCHANGED <<todo, expanded>>
    BY <1>9 DEF ExpandEntry
  <2>2. todo \in Seq(Patterns) /\ todo \in Seq(Entries)
    BY <1>1, <1>4, <2>1
  <2>3. CASE todo' = <<>> /\ expanded' = <<>> /\ UNCHANGED <<step, found, iter, batches, repeats>>
    BY <1>1, <1>2, <1>5, <2>1, <2>3 DEF LoopType
  <2>4. CASE BeginScan /\ UNCHANGED <<todo, expanded>>
    <3>1. iter' \in Cursors /\ iter' < 2 ^ (CursorBits - 1)
      BY <2>4, CursorFacts DEF BeginScan
    <3>2. QED
      BY <1>1, <1>2, <1>5, <2>1, <2>2, <2>4, <3>1 DEF LoopType, BeginScan
  <2>5. QED
    BY <2>1, <2>3, <2>4
<1>10. CASE CountEntry
  <2>1. /\ todo # <<>> /\ section = "countKeys" /\ step = "next" /\ section' = section
        /\ expanded' = expanded
        /\ \/ todo' = Tail(todo) /\ UNCHANGED <<step, found, iter, batches, repeats>>
           \/ BeginScan /\ UNCHANGED todo
    BY <1>10 DEF CountEntry
  <2>2. todo \in Seq(Patterns) /\ Tail(todo) \in Seq(Patterns)
    BY <1>1, <1>6, <2>1
  <2>3. CASE todo' = Tail(todo) /\ UNCHANGED <<step, found, iter, batches, repeats>>
    BY <1>1, <1>2, <2>1, <2>2, <2>3 DEF LoopType
  <2>4. CASE BeginScan /\ UNCHANGED todo
    <3>1. iter' \in Cursors /\ iter' < 2 ^ (CursorBits - 1)
      BY <2>4, CursorFacts DEF BeginScan
    <3>2. QED
      BY <1>1, <1>2, <1>5, <2>1, <2>2, <2>4, <3>1 DEF LoopType, BeginScan
  <2>5. QED
    BY <2>1, <2>3, <2>4
<1>11. CASE ScanBatch
  <2>1. PICK c \in Cursors, batch \in SUBSET Match[entry.pat] :
          /\ batch \subseteq Match[entry.pat] \cap Present(selected)
          /\ found' = found \o SetToSeq(batch)
          /\ repeats' = repeats + Cardinality(batch \cap ToSet(found))
          /\ iter' = ParseCursor(c)
          /\ step' \in {"scanned", "scan"}
    BY <1>11 DEF ScanBatch, ScanReturns
  <2>2. step = "scan" /\ batches' = batches + 1 /\ UNCHANGED <<section, todo, expanded>>
    BY <1>11 DEF ScanBatch
  <2>3. batch \subseteq Keys /\ IsFiniteSet(batch)
    BY <2>1, KeysAssumption, FS_Subset DEF Present
  <2>4. SetToSeq(batch) \in Seq(Keys)
    BY <2>3, SetToSeqFacts, SeqMonotonic
  <2>5. found' \in Seq(Keys)
    BY <1>1, <2>1, <2>4, ConcatFacts
  <2>6. IsFiniteSet(batch \cap ToSet(found))
    BY <2>3, FS_Intersection
  <2>7. repeats' \in Nat
    BY <1>1, <2>1, <2>6, FS_CardinalityType
  <2>8. iter' \in Cursors /\ iter' < 2 ^ (CursorBits - 1)
    BY <2>1, CursorFacts
  <2>9. section \in {"checkKeys", "countKeys", "streams"} /\ todo # <<>>
    BY <1>1, <2>2 DEF Places, SectionNames
  <2>10. QED
    BY <1>1, <1>2, <2>1, <2>2, <2>5, <2>7, <2>8, <2>9 DEF LoopType
<1>12. CASE ScanError
  <2>1. section \in {"checkKeys", "countKeys", "streams"} /\ todo # <<>>
    BY <1>1, <1>12 DEF ScanError, Places, SectionNames
  <2>2. QED
    BY <1>6, <1>7, <1>12, <2>1 DEF ScanError
<1>13. CASE ScannedKeys
  <2>1. /\ section \in {"checkKeys", "streams"} /\ step = "scanned" /\ todo # <<>>
        /\ expanded' = expanded \o ScannedPairs /\ todo' = Tail(todo) /\ step' = "next"
        /\ UNCHANGED <<section, found, iter, batches, repeats>>
    BY <1>1, <1>13 DEF ScannedKeys
  <2>2. entry \in Patterns
    BY <1>6, <2>1
  <2>3. entry.db \in Nat
    BY <2>2 DEF Patterns
  <2>4. ScannedPairs \in Seq(Entries)
    <3>1. \A k \in Keys : Entry(entry.db, k) \in Entries
      BY <2>3 DEF Entry, Entries
    <3>2. DOMAIN found = 1 .. Len(found) /\ Len(found) \in Nat /\ \A i \in 1 .. Len(found) : found[i] \in Keys
      BY <1>1
    <3>3. QED
      BY <3>1, <3>2, IsASeq DEF ScannedPairs
  <2>5. expanded' \in Seq(Entries)
    BY <1>1, <2>1, <2>4, ConcatFacts
  <2>6. QED
    BY <1>1, <1>2, <1>6, <2>1, <2>5 DEF LoopType
<1>14. CASE CountKeys
  BY <1>1, <1>6, <1>7, <1>14 DEF CountKeys
<1>15. CASE Gather
  BY <1>3, <1>7, <1>15 DEF Gather
<1>16. CASE CountDone
  BY <1>1, <1>2, <1>3, <1>4, <1>5, <1>16 DEF CountDone, LoopType
<1>17. CASE StreamsListed
  <2>1. opts.singleStreams \o expanded \in Seq(Entries)
    BY <1>1, <1>3, ConcatFacts
  <2>2. QED
    BY <1>7, <1>17, <2>1 DEF StreamsListed
<1>18. ASSUME todo # <<>>, section = "streams" PROVE Tail(todo) \in Seq(Entries)
  BY <1>1, <1>18, HeadTailFacts
<1>19. CASE SelectStreamDb \/ XInfoStream \/ XInfoGroups \/ XInfoConsumers \/ RegisterStream
  <2>1. /\ section = "streams" /\ section' = section /\ UNCHANGED scanVars
        /\ step \in Describing \/ todo # <<>>
        /\ \/ todo' = Tail(todo) /\ step' = "select"
           \/ todo' = todo /\ step' \in Describing
    BY <1>19 DEF SelectStreamDb, XInfoStream, XInfoGroups, XInfoConsumers, RegisterStream, NextStream
  <2>2. todo # <<>> /\ todo \in Seq(Entries) /\ Tail(todo) \in Seq(Entries)
    BY <1>1, <1>18, <2>1
  <2>3. QED
    BY <1>7, <2>1, <2>2
<1>20. CASE StreamsDone \/ SlowLog \/ KeyGroups \/ LuaScript
  BY <1>1, <1>7, <1>20 DEF StreamsDone, SlowLog, KeyGroups, LuaScript, Places
<1>21. CASE NotSentinel \/ SentinelMasters \/ CkQuorum \/ SentinelSentinels \/ SentinelSlaves
  BY <1>7, <1>21 DEF NotSentinel, SentinelMasters, CkQuorum, SentinelSentinels, SentinelSlaves
<1>22. CASE SentinelConfig \/ SearchList \/ SearchInfo \/ SearchDone
  BY <1>7, <1>22 DEF SentinelConfig, SearchList, SearchInfo, SearchDone
<1>23. QED
  BY <1>8, <1>9, <1>10, <1>11, <1>12, <1>13, <1>14, <1>15, <1>16, <1>17, <1>19, <1>20, <1>21, <1>22
     DEF Exporter, KeyScanNext, StreamsNext, DirectoryNext

\* SCAN owes nothing that is not there.
LEMMA OwingStep ==
    ASSUME TypeInv, Exporter
    PROVE  Owing'
<1>1. owed \subseteq Keys /\ batches \in Nat /\ Places
      /\ ((step = "scan" /\ batches > 0) => owed \subseteq Present(selected))
  BY DEF TypeInv, Owing, LoopType
<1>2. store' = store
  BY ExporterServer
<1>3. CASE ScanBatch
  <2>1. PICK c \in Cursors, batch \in SUBSET Match[entry.pat] :
          ScanReturns(Match[entry.pat], batches = 0, batch, c, ParseCursor(c))
    BY <1>3 DEF ScanBatch
  <2>2. owed' \subseteq IF batches = 0 THEN Match[entry.pat] \cap Present(selected) ELSE owed
    BY <2>1 DEF ScanReturns
  <2>3. step = "scan" /\ selected' = selected
    BY <1>3 DEF ScanBatch
  <2>4. owed' \subseteq Present(selected)
    BY <1>1, <2>2, <2>3
  <2>5. Present(selected)' = Present(selected) /\ Present(selected) \subseteq Keys
    BY <1>2, <2>3 DEF Present
  <2>6. QED
    BY <2>4, <2>5 DEF Owing
<1>4. ASSUME owed' = owed, ~(step' = "scan" /\ batches' > 0) PROVE Owing'
  BY <1>1, <1>4 DEF Owing
<1>5. CASE PlainEntry \/ ExpandEntry \/ CountEntry \/ ScanError \/ ScannedKeys \/ CountKeys
           \/ Gather \/ CountDone
  <2>1. /\ owed' = owed
        /\ (step' = "scan") => (batches' = 0 \/ step = "scan")
        /\ step = "scan" => step' = "next"
    BY <1>5 DEF PlainEntry, ExpandEntry, CountEntry, ScanError, ScannedKeys, CountKeys, Gather,
                CountDone, BeginScan
  <2>2. QED
    BY <1>4, <2>1
<1>6. CASE StreamsNext
  <2>1. owed' = owed /\ step' # "scan"
    BY <1>6 DEF StreamsNext, StreamsListed, SelectStreamDb, XInfoStream, XInfoGroups, XInfoConsumers,
                RegisterStream, StreamsDone, NextStream
  <2>2. QED
    BY <1>4, <2>1
<1>7. CASE DirectoryNext
  <2>1. owed' = owed /\ step' # "scan"
    BY <1>7 DEF DirectoryNext, NotSentinel, SentinelMasters, CkQuorum, SentinelSentinels,
                SentinelSlaves, SentinelConfig, SearchList, SearchInfo, SearchDone
  <2>2. QED
    BY <1>4, <2>1
<1>8. CASE SlowLog \/ KeyGroups \/ LuaScript
  <2>1. owed' = owed /\ step' # "scan"
    BY <1>1, <1>8 DEF SlowLog, KeyGroups, LuaScript, Places
  <2>2. QED
    BY <1>4, <2>1
<1>9. QED
  BY <1>3, <1>5, <1>6, <1>7, <1>8 DEF Exporter, KeyScanNext

\* The types hold at the beginning and at every step.
LEMMA TypeInit == Init => TypeInv
<1> SUFFICES ASSUME Init PROVE TypeInv
  OBVIOUS
<1>1. PICK s \in Scenarios :
        /\ opts = s.opts /\ store = s.store /\ acl = s.acl
        /\ masters = s.masters /\ indexes = s.indexes
  BY DEF Init, ServerInit
<1>2. /\ {opts.checkKeys, opts.countKeys, opts.checkStreams} \subseteq Seq(Patterns)
      /\ {opts.singleKeys, opts.singleStreams} \subseteq Seq(Entries)
      /\ store \in [Dbs -> [Keys -> Contents]]
      /\ IsFiniteSet(DOMAIN masters) /\ IsFiniteSet(DOMAIN indexes)
  BY <1>1, ScenariosAssumption
<1>3. ServerType
  BY <1>2, DbsAssumption, BoundsAssumption DEF ServerType, Init, ServerInit
<1>4. Places
  BY DEF Init, ScanInit, Places, SectionNames
<1>5. LoopType
  <2>1. IsSeq(<<>>) /\ <<>> \in Seq(Keys) /\ <<>> \in Seq(Entries)
    BY DEF IsSeq
  <2>2. iter \in Cursors /\ iter < 2 ^ (CursorBits - 1)
    BY CursorFacts DEF Init, ScanInit
  <2>3. QED
    BY <1>2, <2>1, <2>2 DEF Init, ScanInit, LoopType, Scanning, Describing
<1>6. Owing
  BY DEF Init, ServerInit, ScanInit, Owing
<1>7. QED
  BY <1>3, <1>4, <1>5, <1>6 DEF TypeInv

\* Every step keeps the types.
LEMMA TypeStep == TypeInv /\ [Next]_vars => TypeInv'
<1> SUFFICES ASSUME TypeInv, [Next]_vars PROVE TypeInv'
  OBVIOUS
<1>1. CASE Exporter
  <2>1. Places' /\ ServerType' /\ LoopType' /\ Owing'
    BY <1>1, PlacesStep, ExporterServer, LoopStep, OwingStep DEF TypeInv
  <2>2. QED
    BY <2>1 DEF TypeInv
<1>2. CASE Environment
  BY <1>2, EnvironmentType
<1>3. CASE Terminated \/ UNCHANGED vars
  <2>1. UNCHANGED vars
    BY <1>3 DEF Terminated
  <2>2. /\ UNCHANGED <<opts, store, masters, indexes, selected, alive, changes, pending>>
        /\ UNCHANGED <<section, step, todo, found, expanded, batches, repeats, iter, out, owed>>
    BY <2>1 DEF vars, serverVars, scanVars
  <2>3. Places'
    BY <2>2, Zenon DEF TypeInv, Places
  <2>4. ServerType'
    BY <2>2, Zenon DEF TypeInv, ServerType
  <2>5. LoopType'
    BY <2>2, Zenon DEF TypeInv, LoopType
  <2>6. Owing'
    BY <2>2, Zenon DEF TypeInv, Owing, Present
  <2>7. QED
    BY <2>3, <2>4, <2>5, <2>6 DEF TypeInv
<1>4. QED
  BY <1>1, <1>2, <1>3 DEF Next

-----------------------------------------------------------------------------
(***************************************************************************)
(* The database selected.                                                  *)
(***************************************************************************)
\* DbsOf takes the databases of the elements.
LEMMA DbsOfFacts ==
    ASSUME NEW s
    PROVE  DbsOf(s) = {e.db : e \in ToSet(s)}
BY DEF DbsOf, ToSet

\* Each of the options' lists names only databases of NamedDbs.
LEMMA NamedFacts ==
    ASSUME TypeInv
    PROVE  /\ \A e \in ToSet(opts.checkKeys) : e.db \in NamedDbs
           /\ \A e \in ToSet(opts.singleKeys) : e.db \in NamedDbs
           /\ \A e \in ToSet(opts.countKeys) : e.db \in NamedDbs
           /\ \A e \in ToSet(opts.checkStreams) : e.db \in NamedDbs
           /\ \A e \in ToSet(opts.singleStreams) : e.db \in NamedDbs
<1> DEFINE a == opts.singleKeys
           b == opts.checkKeys
           c == opts.countKeys
           d == opts.singleStreams
           f == opts.checkStreams
           ab == a \o b
           abc == ab \o c
           abcd == abc \o d
           all == abcd \o f
<1>1. a \in Seq(Entries) /\ b \in Seq(Entries) /\ c \in Seq(Entries) /\ d \in Seq(Entries)
      /\ f \in Seq(Entries)
  <2>1. Patterns \subseteq Entries
    BY DEF Patterns, Entries
  <2>2. Seq(Patterns) \subseteq Seq(Entries)
    BY <2>1, SeqMonotonic
  <2>3. QED
    BY <2>2 DEF TypeInv, ServerType
<1> HIDE DEF a, b, c, d, f
<1>2. ab \in Seq(Entries) /\ ToSet(ab) = ToSet(a) \cup ToSet(b)
  BY <1>1, ConcatFacts
<1> HIDE DEF ab
<1>3. abc \in Seq(Entries) /\ ToSet(abc) = ToSet(ab) \cup ToSet(c)
  BY <1>1, <1>2, ConcatFacts
<1> HIDE DEF abc
<1>4. abcd \in Seq(Entries) /\ ToSet(abcd) = ToSet(abc) \cup ToSet(d)
  BY <1>1, <1>3, ConcatFacts
<1> HIDE DEF abcd
<1>5. ToSet(all) = ToSet(abcd) \cup ToSet(f)
  BY <1>1, <1>4, ConcatFacts
<1> HIDE DEF all
<1>6. NamedDbs = {0} \cup DbsOf(all)
  BY Zenon DEF NamedDbs, all, abcd, abc, ab, a, b, c, d, f
<1>7. NamedDbs = {0} \cup {e.db : e \in ToSet(all)}
  BY <1>6, DbsOfFacts
<1>8. \A e \in ToSet(a) \cup ToSet(b) \cup ToSet(c) \cup ToSet(d) \cup ToSet(f) : e.db \in NamedDbs
  BY <1>2, <1>3, <1>4, <1>5, <1>7
<1>9. QED
  BY <1>8 DEF a, b, c, d, f

\* An entry is taken in hand only after its database was selected, and given up before
\* another one is.
LEMMA InDbStep ==
    ASSUME TypeInv, InDb, [Next]_vars
    PROVE  InDb'
<1> USE DEF InDb, Scanning, Describing
<1>1. selected \in Dbs /\ Places
  BY DEF TypeInv, ServerType
<1>2. CASE ExpandEntry \/ CountEntry
  BY <1>1, <1>2, SelectsFacts DEF ExpandEntry, CountEntry, BeginScan, entry
<1>3. CASE SelectStreamDb
  BY <1>1, <1>3, SelectsFacts DEF SelectStreamDb, NextStream, entry
<1>4. CASE ScanBatch
  BY <1>4 DEF ScanBatch, entry
<1>5. CASE PlainEntry \/ ScanError \/ ScannedKeys \/ CountKeys \/ Gather \/ CountDone
  BY <1>5 DEF PlainEntry, ScanError, ScannedKeys, CountKeys, Gather, CountDone
<1>6. CASE XInfoStream \/ XInfoGroups \/ XInfoConsumers \/ RegisterStream
  BY <1>6 DEF XInfoStream, XInfoGroups, XInfoConsumers, RegisterStream, NextStream, entry
<1>7. CASE StreamsListed \/ StreamsDone
  BY <1>7 DEF StreamsListed, StreamsDone
<1>8. CASE SlowLog \/ KeyGroups \/ LuaScript
  BY <1>1, <1>8 DEF SlowLog, KeyGroups, LuaScript, Places
<1>9. CASE DirectoryNext
  BY <1>9 DEF DirectoryNext, NotSentinel, SentinelMasters, CkQuorum, SentinelSentinels,
              SentinelSlaves, SentinelConfig, SearchList, SearchInfo, SearchDone
<1>10. CASE Environment \/ Terminated \/ UNCHANGED vars
  BY <1>10 DEF Environment, OtherClient, Lose, Terminated, vars, entry
<1>11. QED
  BY <1>2, <1>3, <1>4, <1>5, <1>6, <1>7, <1>8, <1>9, <1>10
     DEF Next, Exporter, KeyScanNext, StreamsNext

\* Keys are found only in the database of their entry.
LEMMA SourcedStep ==
    ASSUME TypeInv, Sourced, [Next]_vars
    PROVE  Sourced'
<1>1. NamedDbs' = NamedDbs
  BY Frame DEF NamedDbs, DbsOf
<1>2. /\ Places /\ expanded \in Seq(Entries)
      /\ (section \in Keyed /\ step \in {"next"} \cup Scanning) => todo \in Seq(Patterns)
      /\ section = "streams" => todo \in Seq(Entries)
      /\ step \in Scanning \cup Describing => todo # <<>>
  BY DEF TypeInv, LoopType
<1>3. ASSUME section \in Keyed, todo # <<>>
      PROVE  /\ entry.db \in NamedDbs /\ ToSet(Tail(todo)) \subseteq ToSet(todo)
  <2>1. \E S : todo \in Seq(S)
    BY <1>2, <1>3 DEF Keyed, Places, Scanning
  <2>2. PICK S : todo \in Seq(S)
    BY <2>1
  <2>3. Head(todo) \in ToSet(todo) /\ ToSet(Tail(todo)) \subseteq ToSet(todo)
    BY <1>3, <2>2, HeadTailFacts
  <2>4. QED
    BY <1>3, <2>3 DEF Sourced, entry
<1>4. ToSet(<<>>) = {}
  BY DEF ToSet
<1> USE DEF Sourced, Keyed
<1>5. CASE PlainEntry
  <2>1. section \in Keyed /\ section' = section /\ todo' = Tail(todo) /\ todo # <<>>
        /\ expanded' = Append(expanded, entry)
    BY <1>5 DEF PlainEntry, Expanding
  <2>2. ToSet(Append(expanded, entry)) = ToSet(expanded) \cup {entry}
    BY <1>2, SeqIsSeq, AppendFacts
  <2>3. QED
    BY <1>1, <1>3, <2>1, <2>2
<1>6. CASE ExpandEntry
  BY <1>1, <1>4, <1>6 DEF ExpandEntry, Expanding
<1>7. CASE CountEntry
  BY <1>1, <1>3, <1>7 DEF CountEntry
<1>8. CASE ScanBatch
  BY <1>1, <1>8 DEF ScanBatch
<1>9. CASE ScanError \/ CountKeys
  BY <1>1, <1>2, <1>3, <1>9 DEF ScanError, CountKeys, scanVars, Scanning
<1>10. CASE ScannedKeys
  <2>1. section \in Keyed /\ section' = section /\ todo' = Tail(todo) /\ todo # <<>>
        /\ expanded' = expanded \o ScannedPairs
    BY <1>2, <1>10 DEF ScannedKeys, Expanding, Scanning
  <2>2. ToSet(expanded') \subseteq ToSet(expanded) \cup ToSet(ScannedPairs)
    <3>1. expanded \in Seq(Entries \cup ToSet(ScannedPairs))
      BY <1>2, SeqMonotonic
    <3>2. ScannedPairs \in Seq(Entries \cup ToSet(ScannedPairs))
      <4>1. found \in Seq(Keys)
        BY DEF TypeInv, LoopType
      <4>2. Len(found) \in Nat /\ DOMAIN found = 1 .. Len(found)
        BY <4>1
      <4>3. \A i \in 1 .. Len(found) : ScannedPairs[i] \in Entries \cup ToSet(ScannedPairs)
        BY <4>2 DEF ScannedPairs, ToSet
      <4>4. QED
        BY <4>2, <4>3, IsASeq DEF ScannedPairs
    <3>3. QED
      BY <2>1, <3>1, <3>2, ConcatFacts
  <2>3. \A e \in ToSet(ScannedPairs) : e.db = entry.db
    BY DEF ToSet, ScannedPairs, Entry
  <2>4. QED
    BY <1>1, <1>3, <2>1, <2>2, <2>3
<1>11. CASE Gather
  BY <1>1, <1>11, NamedFacts DEF Gather, scanVars
<1>12. CASE CountDone
  BY <1>1, <1>4, <1>12, NamedFacts DEF CountDone
<1>13. CASE StreamsListed
  <2>1. opts.singleStreams \in Seq(Entries)
    BY DEF TypeInv, ServerType
  <2>2. ToSet(opts.singleStreams \o expanded) = ToSet(opts.singleStreams) \cup ToSet(expanded)
    BY <1>2, <2>1, ConcatFacts
  <2>3. QED
    BY <1>1, <1>13, <2>2, NamedFacts DEF StreamsListed, scanVars
<1>14. CASE SelectStreamDb \/ XInfoStream \/ XInfoGroups \/ XInfoConsumers \/ RegisterStream
  <2>1. /\ section = "streams" /\ expanded' = expanded /\ todo # <<>>
        /\ todo' = todo \/ todo' = Tail(todo)
    BY <1>2, <1>14 DEF SelectStreamDb, XInfoStream, XInfoGroups, XInfoConsumers, RegisterStream,
                       NextStream, scanVars, Describing
  <2>2. QED
    BY <1>1, <1>3, <2>1
<1>15. CASE StreamsDone \/ SlowLog \/ KeyGroups \/ LuaScript
  BY <1>15 DEF StreamsDone, SlowLog, KeyGroups, LuaScript
<1>16. CASE DirectoryNext
  BY <1>16 DEF DirectoryNext, NotSentinel, SentinelMasters, CkQuorum, SentinelSentinels,
               SentinelSlaves, SentinelConfig, SearchList, SearchInfo, SearchDone
<1>17. CASE Environment \/ Terminated \/ UNCHANGED vars
  BY <1>1, <1>17 DEF Environment, Terminated, vars, scanVars
<1>18. QED
  BY <1>5, <1>6, <1>7, <1>8, <1>9, <1>10, <1>11, <1>12, <1>13, <1>14, <1>15, <1>16, <1>17
     DEF Next, Exporter, KeyScanNext, StreamsNext

\* Nothing is selected but what an option names or key groups visit.
LEMMA VisitedStep ==
    ASSUME TypeInv, Sourced, Visited, [Next]_vars
    PROVE  Visited'
<1>1. /\ ReachableDbs' = ReachableDbs /\ (AllGroups' <=> AllGroups)
      /\ NamedDbs \subseteq ReachableDbs
  BY Frame DEF NamedDbs, ReachableDbs, DbsOf, AllGroups, Open
<1>2. /\ Places /\ selected \in Dbs /\ expanded \in Seq(Entries) /\ opts.singleKeys \in Seq(Entries)
      /\ (section \in Keyed /\ step \in {"next"} \cup Scanning) => todo \in Seq(Patterns)
      /\ section = "streams" => todo \in Seq(Entries)
  BY DEF TypeInv, LoopType, ServerType
<1>3. ASSUME section \in Keyed, todo # <<>> PROVE entry.db \in ReachableDbs
  <2>1. \E S : todo \in Seq(S)
    BY <1>2, <1>3 DEF Keyed, Places, Scanning
  <2>2. PICK S : todo \in Seq(S)
    BY <2>1
  <2>3. Head(todo) \in ToSet(todo)
    BY <1>3, <2>2, HeadTailFacts
  <2>4. QED
    BY <1>1, <1>3, <2>3 DEF Sourced, entry
<1>4. ASSUME selected' \in ReachableDbs, section' \notin {"sentinel", "search", "script"}
      PROVE  Visited'
  BY <1>1, <1>4 DEF Visited
<1>5. ASSUME selected' = selected, alive' => alive,
             section' \in {"sentinel", "search", "script"} =>
               section \in {"sentinel", "search", "script"}
      PROVE  Visited'
  BY <1>1, <1>5 DEF Visited
<1>6. CASE ExpandEntry \/ CountEntry \/ SelectStreamDb
  <2>1. /\ section \in Keyed /\ todo # <<>> /\ section' = section
        /\ Selects(entry.db)
    BY <1>6 DEF ExpandEntry, CountEntry, SelectStreamDb, Keyed, Expanding
  <2>2. selected' \in {selected, entry.db}
    BY <1>2, <2>1, SelectsFacts
  <2>3. QED
    BY <1>3, <1>4, <2>1, <2>2 DEF Visited, Keyed
<1>7. CASE Gather
  <2>1. selected' \in {selected} \cup DbsOf(allKeys) /\ section' = "countKeys"
    BY <1>7 DEF Gather
  <2>2. ToSet(allKeys) = ToSet(opts.singleKeys) \cup ToSet(expanded)
    BY <1>2, ConcatFacts DEF allKeys
  <2>3. \A e \in ToSet(allKeys) : e.db \in NamedDbs
    BY <1>7, <2>2, NamedFacts DEF Sourced, Gather, Keyed
  <2>4. DbsOf(allKeys) \subseteq ReachableDbs
    BY <1>1, <2>3, DbsOfFacts
  <2>5. QED
    BY <1>4, <2>1, <2>4 DEF Visited
<1>8. CASE KeyGroups
  <2>1. section' = "sentinel" /\ alive' = alive
    BY <1>8 DEF KeyGroups, serverVars
  <2>2. selected' \in ReachableDbs
    BY <1>2, <1>8, GroupFacts DEF Visited, ReachableDbs
  <2>3. AllGroups /\ alive => selected' = DbCount - 1
    BY <1>2, <1>8, GroupFacts
  <2>4. QED
    BY <1>1, <2>1, <2>2, <2>3 DEF Visited
<1>9. CASE PlainEntry \/ ScanBatch \/ ScanError \/ ScannedKeys \/ CountKeys \/ CountDone
  BY <1>5, <1>9 DEF PlainEntry, ScanBatch, ScanError, ScannedKeys, CountKeys, CountDone, serverVars
<1>10. CASE StreamsListed \/ XInfoStream \/ XInfoGroups \/ XInfoConsumers \/ RegisterStream \/ StreamsDone
  BY <1>5, <1>10 DEF StreamsListed, XInfoStream, XInfoGroups, XInfoConsumers, RegisterStream, StreamsDone,
                     serverVars
<1>11. CASE SlowLog \/ LuaScript
  BY <1>5, <1>11 DEF SlowLog, LuaScript, serverVars
<1>12. CASE DirectoryNext
  BY <1>5, <1>12 DEF DirectoryNext, NotSentinel, SentinelMasters, CkQuorum, SentinelSentinels,
                     SentinelSlaves, SentinelConfig, SearchList, SearchInfo, SearchDone, serverVars
<1>13. CASE Environment \/ Terminated \/ UNCHANGED vars
  BY <1>5, <1>13 DEF Environment, OtherClient, Lose, Terminated, vars, serverVars
<1>14. QED
  BY <1>6, <1>7, <1>8, <1>9, <1>10, <1>11, <1>12, <1>13
     DEF Next, Exporter, KeyScanNext, StreamsNext

\* A labelled series is registered in the database it is labelled with.
LEMMA LabelledStep ==
    ASSUME TypeInv, InDb, Labelled, [Next]_vars
    PROVE  Labelled'
<1> SUFFICES ASSUME NEW r \in ToSet(out'), r.name \in {"keys_count", "stream"} PROVE r.at = r.db
  BY DEF Labelled, Series
<1>1. IsSeq(out)
  BY DEF TypeInv, LoopType
<1>2. CASE r \in ToSet(out)
  BY <1>2 DEF Labelled, Series
<1>3. CASE CountKeys /\ r = CountRecord
  BY <1>3 DEF CountKeys, CountRecord, InDb, Scanning
<1>4. CASE RegisterStream /\ r = StreamRecord
  BY <1>4 DEF RegisterStream, StreamRecord, InDb, Describing
<1>5. QED
  BY <1>1, <1>2, <1>3, <1>4, OutStep DEF Unlabelled, KeysRecord, ScriptRecord

\* A script that runs finds the connection as key groups left it.
LEMMA ScriptStep ==
    ASSUME TypeInv, Visited, ScriptDb, [Next]_vars
    PROVE  ScriptDb'
<1> DEFINE Right(r) == IF AllGroups THEN r.at = DbCount - 1 ELSE r.at \in ReachableDbs
<1>1. ScriptDb <=> \A r \in ToSet(out) : r.name = "script_values" => Right(r)
  BY DEF ScriptDb, Series, AllGroups, ReachableDbs, NamedDbs
<1>2. (ScriptDb <=> \A r \in ToSet(out) : r.name = "script_values" => Right(r))'
  BY DEF ScriptDb, Series, AllGroups, ReachableDbs, NamedDbs
<1>3. ReachableDbs' = ReachableDbs /\ (AllGroups' <=> AllGroups)
  BY Frame DEF NamedDbs, ReachableDbs, DbsOf, AllGroups, Open
<1>4. SUFFICES ASSUME NEW r \in ToSet(out'), r.name = "script_values" PROVE Right(r)
  BY <1>2, <1>3
<1>5. CASE r \in ToSet(out)
  BY <1>1, <1>4, <1>5
<1>6. CASE LuaScript /\ ~Fails("EVAL") /\ r = ScriptRecord
  <2>1. alive /\ section = "script" /\ r.at = selected
    BY <1>6 DEF Fails, Refused, LuaScript, ScriptRecord
  <2>2. QED
    BY <2>1 DEF Visited
<1>7. IsSeq(out)
  BY DEF TypeInv, LoopType
<1>8. QED
  BY <1>4, <1>5, <1>6, <1>7, OutStep DEF Unlabelled, KeysRecord, CountRecord, StreamRecord

-----------------------------------------------------------------------------
\* The initial state satisfies the invariant.
LEMMA Initially == Init => IInv
<1> SUFFICES ASSUME Init PROVE IInv
  OBVIOUS
<1>1. TypeInv
  BY TypeInit
<1>2. InDb /\ Labelled /\ ScriptDb
  BY DEF Init, ScanInit, InDb, Scanning, Describing, Labelled, ScriptDb, Series, ToSet
<1>3. Sourced
  BY <1>1, NamedFacts DEF Init, ScanInit, Sourced, ToSet
<1>4. Visited
  BY DEF Init, ServerInit, ScanInit, Visited, ReachableDbs, NamedDbs
<1>5. QED
  BY <1>1, <1>2, <1>3, <1>4 DEF IInv

\* The inductive invariant holds throughout every scrape.
THEOREM Invariant == Spec => []IInv
<1>1. IInv /\ [Next]_vars => IInv'
  BY TypeStep, InDbStep, SourcedStep, VisitedStep, LabelledStep, ScriptStep DEF IInv
<1>2. QED
  BY <1>1, Initially, PTL DEF Spec

\* The sections' loops keep their types, and a SCAN under way is owed only keys that are there,
\* in the database selected.
THEOREM TypeCorrect == Spec => []TypeOK
<1>1. IInv => TypeOK
  BY DEF IInv, TypeInv, TypeOK, Places, ServerType, LoopType, Owing, SectionNames, Scanning, Describing
<1>2. QED
  BY <1>1, Invariant, PTL

\* keys_count and the stream metrics are read in the database they are labelled with
\* (extractCountKeysMetrics, extractStreamMetrics), whatever SELECT fails.
THEOREM SeriesLabelled == Spec => []Labelled
<1>1. IInv => Labelled
  BY DEF IInv
<1>2. QED
  BY <1>1, Invariant, PTL

\* Scripts run in the last database of the key groups, or in one that an option names.
THEOREM ScriptsInDb == Spec => []ScriptDb
<1>1. IInv => ScriptDb
  BY DEF IInv
<1>2. QED
  BY <1>1, Invariant, PTL

-----------------------------------------------------------------------------
(***************************************************************************)
(* The sections that find out names first and then work on each of them,   *)
(* while other clients may change or remove what was found.                *)
(*                                                                         *)
(* SCAN: keys are counted within bounds, and patterns are expanded into    *)
(* the keys they stand for.  A key that stays is, from the first batch on, *)
(* found or still owed by the server; when the cursor comes back to 0      *)
(* nothing is owed.  What is found was there; and what was there in the    *)
(* database at hand, or was touched, stays so.                             *)
(*                                                                         *)
(* Streams, masters and search indexes: from the list on, a name that      *)
(* stays is still to be asked about, at hand, or described; what is known  *)
(* of the one at hand is right as long as nobody touches it; and a command *)
(* fails only for one that does not stay.  An error that the key check     *)
(* left unread could make any command fail: it is followed to the one      *)
(* command that reads it.                                                  *)
(***************************************************************************)

\* The iteration of SCAN under way.
Iteration ==
    step \in Scanning =>
        /\ ToSet(found) \subseteq Ever(entry.db, entry.pat)
        /\ Len(found) = Cardinality(ToSet(found)) + repeats
        /\ (step = "scan" /\ batches > 0) =>
              \/ Lasting(entry.db, entry.pat) \subseteq ToSet(found) \cup owed
              \/ <<section, entry>> \in wide
        /\ step = "scanned" => \/ Lasting(entry.db, entry.pat) \subseteq ToSet(found)
                               \/ <<section, entry>> \in wide

\* A count that was exported: of a pattern, in a database of the server, within bounds.
CountOk(r) ==
    /\ r.db \in Dbs /\ r.key \in DOMAIN Match /\ r.value \in Nat /\ r.repeats \in Nat
    /\ \/ <<"countKeys", Entry(r.db, r.key)>> \in wide
       \/ r.value >= Cardinality(Lasting(r.db, r.key))
    /\ r.value <= Cardinality(Ever(r.db, r.key)) + r.repeats

CountsOk == \A r \in ToSet(out) : r.name = "keys_count" => CountOk(r)

\* The option that getKeysFromPatterns goes through.
Source == IF section = "checkKeys" THEN opts.checkKeys ELSE opts.checkStreams

FromEntry(x, entries) == \E e \in ToSet(entries) : x.db = e.db /\ x.pat \in Match[e.pat]

\* What is expanded comes from an entry; and an entry that can be expanded, and has not been
\* robbed of its reply by an old error, is expanded or still to come.
Expansion ==
    /\ section = "checkKeys" => pending = "no"
    /\ (section \in Expanding /\ step \in {"next"} \cup Scanning) =>
          /\ ToSet(todo) \subseteq ToSet(Source)
          /\ step \in Scanning => entry.pat \in Globs
          /\ \A x \in ToSet(expanded) : FromEntry(x, Source)
          /\ (Expandable(section, Source) /\ pending # section) =>
                \A e \in ToSet(Source) : e \in ToSet(todo) \/ Needed(e) \subseteq ToSet(expanded)

\* The keys that were checked.
KeysOk(r) ==
    /\ IsPrefix(opts.singleKeys, r.keys)
    /\ \A i \in Len(opts.singleKeys) + 1 .. Len(r.keys) : FromEntry(r.keys[i], opts.checkKeys)
    /\ Expandable("checkKeys", opts.checkKeys) =>
          \A e \in ToSet(opts.checkKeys) : Needed(e) \subseteq ToSet(r.keys)

CheckedOk == \A r \in ToSet(out) : r.name = "allKeys" => KeysOk(r)

ScanInv == Iteration /\ CountsOk /\ Expansion /\ CheckedOk

-----------------------------------------------------------------------------
(***************************************************************************)
(* What stays, and what was there at all.                                  *)
(***************************************************************************)
\* A key changes only under another client's hands, which is recorded; so are wide cursors.
LEMMA Steady ==
    ASSUME TypeInv, [Next]_vars
    PROVE  /\ touched \subseteq touched' /\ wide \subseteq wide'
           /\ \A d \in Dbs, k \in Keys : <<d, k>> \in touched' \/ store'[d][k] = store[d][k]
<1>1. store \in [Dbs -> [Keys -> Contents]]
  BY DEF TypeInv, ServerType
<1>2. CASE Exporter
  <2>1. store' = store /\ touched' = touched
    BY <1>2, ExporterServer
  <2>2. wide \subseteq wide'
    <3>1. CASE KeyScanNext
      BY <3>1 DEF KeyScanNext, PlainEntry, ExpandEntry, CountEntry, ScanBatch, ScanError,
                  ScannedKeys, CountKeys, Gather, CountDone, scanVars
    <3>2. CASE StreamsNext
      BY <3>2 DEF StreamsNext, StreamsListed, SelectStreamDb, XInfoStream, XInfoGroups,
                  XInfoConsumers, RegisterStream, StreamsDone, scanVars
    <3>3. CASE DirectoryNext
      BY <3>3 DEF DirectoryNext, NotSentinel, SentinelMasters, CkQuorum, SentinelSentinels,
                  SentinelSlaves, SentinelConfig, SearchList, SearchInfo, SearchDone, scanVars
    <3>4. CASE SlowLog \/ KeyGroups \/ LuaScript
      BY <3>4 DEF SlowLog, KeyGroups, LuaScript, scanVars
    <3>5. QED
      BY <1>2, <3>1, <3>2, <3>3, <3>4 DEF Exporter
  <2>3. QED
    BY <2>1, <2>2
<1>3. CASE Environment
  <2>1. wide' = wide /\ (OtherClient \/ Lose)
    BY <1>3 DEF Environment, scanVars
  <2>2. CASE OtherClient /\ WriteKey
    <3>1. PICK d \in Dbs, k \in Keys, v \in Values :
            /\ store' = [store EXCEPT ![d][k] = v]
            /\ touched' = touched \cup {<<d, k>>}
      BY <2>2 DEF WriteKey
    <3>2. \A x \in Dbs, y \in Keys : <<x, y>> # <<d, k>> => store'[x][y] = store[x][y]
      BY <1>1, <3>1
    <3>3. QED
      BY <2>1, <3>1, <3>2
  <2>3. CASE Lose \/ (OtherClient /\ RemoveName)
    <3>1. store' = store /\ touched' = touched
      BY <2>3 DEF Lose, RemoveName
    <3>2. QED
      BY <2>1, <3>1
  <2>4. QED
    BY <2>1, <2>2, <2>3 DEF OtherClient
<1>4. CASE Terminated \/ UNCHANGED vars
  BY <1>4 DEF Terminated, vars, serverVars, scanVars
<1>5. QED
  BY <1>2, <1>3, <1>4 DEF Next

\* The keys that stay become fewer, those that were ever there more, and all are finitely many.
LEMMA Bounds ==
    ASSUME TypeInv, [Next]_vars, NEW d \in Dbs, NEW p \in DOMAIN Match
    PROVE  /\ Lasting(d, p)' \subseteq Lasting(d, p) /\ Ever(d, p) \subseteq Ever(d, p)'
<1>1. Match[p] \subseteq Keys
  BY MatchAssumption
<1>2. touched \subseteq touched'
      /\ \A k \in Keys : <<d, k>> \in touched' \/ store'[d][k] = store[d][k]
  BY Steady
<1>3. QED
  BY <1>1, <1>2 DEF Lasting, Ever

\* Both are sets of keys.
LEMMA BoundsFinite ==
    ASSUME NEW d, NEW p \in DOMAIN Match
    PROVE  /\ Match[p] \subseteq Keys /\ IsFiniteSet(Lasting(d, p)) /\ IsFiniteSet(Ever(d, p))
           /\ Cardinality(Lasting(d, p)) \in Nat /\ Cardinality(Ever(d, p)) \in Nat
           /\ Lasting(d, p) \subseteq Ever(d, p)
<1>1. Match[p] \subseteq Keys
  BY MatchAssumption
<1>2. Lasting(d, p) \subseteq Keys /\ Ever(d, p) \subseteq Keys /\ Lasting(d, p) \subseteq Ever(d, p)
  BY <1>1 DEF Lasting, Ever
<1>3. IsFiniteSet(Lasting(d, p)) /\ IsFiniteSet(Ever(d, p))
  BY <1>2, KeysAssumption, FS_Subset
<1>4. QED
  BY <1>1, <1>2, <1>3, FS_CardinalityType

\* The entry at hand is a pattern of a database of the server, which is selected.
LEMMA EntryFacts ==
    ASSUME TypeInv, InDb, step \in Scanning
    PROVE  /\ section \in Keyed /\ todo # <<>> /\ todo \in Seq(Patterns)
           /\ entry \in Patterns /\ entry.pat \in DOMAIN Match
           /\ entry = Entry(entry.db, entry.pat)
           /\ entry.db = selected /\ entry.db \in Dbs
           /\ entry \in ToSet(todo) /\ ToSet(todo) = {entry} \cup ToSet(Tail(todo))
<1>1. section \in Keyed
  BY DEF TypeInv, Places, SectionNames, Keyed, Scanning
<1>2. todo # <<>> /\ todo \in Seq(Patterns)
  BY <1>1 DEF TypeInv, LoopType
<1>3. entry \in Patterns /\ entry \in ToSet(todo) /\ ToSet(todo) = {entry} \cup ToSet(Tail(todo))
  BY <1>2, HeadTailFacts DEF entry
<1>4. entry.pat \in DOMAIN Match /\ entry = Entry(entry.db, entry.pat)
  BY <1>3 DEF Patterns, Entry
<1>5. entry.db = selected /\ selected \in Dbs
  BY DEF InDb, TypeInv, ServerType
<1>6. QED
  BY <1>1, <1>2, <1>3, <1>4, <1>5

-----------------------------------------------------------------------------
(***************************************************************************)
(* One iteration.                                                          *)
(***************************************************************************)
\* A batch adds its keys to what was found, and repeats are counted.
LEMMA BatchFacts ==
    ASSUME NEW f \in Seq(Keys), NEW batch \in SUBSET Keys, NEW n \in Nat,
           Len(f) = Cardinality(ToSet(f)) + n
    PROVE  /\ ToSet(f \o SetToSeq(batch)) = ToSet(f) \cup batch
           /\ Len(f \o SetToSeq(batch)) =
                 Cardinality(ToSet(f \o SetToSeq(batch))) + (n + Cardinality(batch \cap ToSet(f)))
<1> DEFINE q == SetToSeq(batch)
           g == f \o q
           F == ToSet(f)
<1>1. F \subseteq Keys
  BY SeqIsSeq
<1>2. IsFiniteSet(F) /\ IsFiniteSet(batch)
  BY <1>1, KeysAssumption, FS_Subset
<1>3. q \in Seq(batch) /\ Len(q) = Cardinality(batch) /\ ToSet(q) = batch /\ Cardinality(batch) \in Nat
  BY <1>2, SetToSeqFacts
<1>4. q \in Seq(Keys)
  BY <1>3, SeqMonotonic
<1> HIDE DEF q
<1>5. ToSet(g) = F \cup batch /\ Len(g) = Len(f) + Len(q) /\ Len(f) \in Nat /\ Len(q) \in Nat
  <2>1. ToSet(f \o q) = ToSet(f) \cup ToSet(q)
    BY <1>4, ConcatFacts
  <2>2. Len(f \o q) = Len(f) + Len(q) /\ Len(f) \in Nat /\ Len(q) \in Nat
    BY <1>4, ConcatProperties, LenProperties
  <2>3. QED
    BY <1>3, <2>1, <2>2
<1>6. Cardinality(F \cup batch) = Cardinality(F) + Cardinality(batch) - Cardinality(F \cap batch)
  BY <1>2, FS_Union
<1>7. Cardinality(F) \in Nat /\ Cardinality(F \cap batch) \in Nat /\ F \cap batch = batch \cap F
  BY <1>2, FS_CardinalityType, FS_Intersection
<1> HIDE DEF F, g
<1>8. Len(f) = Cardinality(F) + n
  BY DEF F
<1>9. Cardinality(F \cup batch) \in Nat
  BY <1>2, FS_Union, FS_CardinalityType
<1>10. Len(g) = Cardinality(F \cup batch) + (n + Cardinality(batch \cap F))
  <2> DEFINE x == Cardinality(F \cup batch)
             y == Cardinality(F)
             z == Cardinality(batch)
             w == Cardinality(F \cap batch)
  <2>1. /\ x = y + z - w /\ x \in Nat /\ y \in Nat /\ z \in Nat /\ w \in Nat
        /\ Len(g) = Len(f) + z /\ Len(f) = y + n
    BY <1>3, <1>5, <1>6, <1>7, <1>8, <1>9
  <2>2. Cardinality(batch \cap F) = w
    BY <1>7
  <2> HIDE DEF x, y, z, w
  <2>3. Len(g) = x + (n + w)
    BY <2>1
  <2>4. QED
    BY <2>2, <2>3 DEF x
<1>11. ToSet(g) = F \cup batch /\ Len(g) = Cardinality(ToSet(g)) + (n + Cardinality(batch \cap F))
  BY <1>5, <1>10
<1>12. QED
  BY <1>11, Zenon DEF g, F, q

\* A batch: what stays is found or owed, and when the iteration ends, found.
LEMMA BatchStep ==
    ASSUME IInv, Iteration, ScanBatch
    PROVE  Iteration'
<1>1. TypeInv /\ InDb /\ step = "scan"
  BY DEF IInv, ScanBatch
<1>2. found \in Seq(Keys) /\ repeats \in Nat /\ batches \in Nat
  BY <1>1 DEF TypeInv, LoopType
<1> DEFINE e == entry
           d == entry.db
           p == entry.pat
           L == Lasting(d, p)
<1>3. d = selected /\ d \in Dbs /\ p \in DOMAIN Match /\ Match[p] \subseteq Keys
  BY <1>1, EntryFacts, BoundsFinite DEF Scanning
<1>4. PICK c \in Cursors, batch \in SUBSET Match[p] :
        /\ ScanReturns(Match[p], batches = 0, batch, c, ParseCursor(c))
        /\ found' = found \o SetToSeq(batch)
        /\ repeats' = repeats + Cardinality(batch \cap ToSet(found))
        /\ wide' = wide \cup (IF ParseCursor(c) # c THEN {<<section, entry>>} ELSE {})
        /\ step' = IF ParseCursor(c) = 0 THEN "scanned" ELSE "scan"
  BY <1>1 DEF ScanBatch, LastBatch
<1>5. UNCHANGED <<section, todo, store, touched>>
  BY DEF ScanBatch, serverVars
<1>6. entry' = entry /\ Lasting(d, p)' = L /\ Ever(d, p)' = Ever(d, p)
  BY <1>5 DEF entry, Lasting, Ever
<1>7. ToSet(found) \subseteq Ever(d, p) /\ Len(found) = Cardinality(ToSet(found)) + repeats
  BY <1>1 DEF Iteration, Scanning
<1>8. ToSet(found') = ToSet(found) \cup batch
      /\ Len(found') = Cardinality(ToSet(found')) + repeats'
  BY <1>2, <1>3, <1>4, <1>7, BatchFacts
<1>9. batch \subseteq Match[p] \cap Present(d)
      /\ \/ owed' = (IF batches = 0 THEN Match[p] \cap Present(d) ELSE owed) \ batch
         \/ ParseCursor(c) # c
      /\ (c = 0 => owed' = {})
  BY <1>3, <1>4 DEF ScanReturns
<1>10. batch \subseteq Ever(d, p)
  BY <1>9 DEF Present, Ever
<1>11. L \subseteq Match[p] \cap Present(d)
  BY <1>3 DEF Lasting, Present
<1>12. batches > 0 => L \subseteq ToSet(found) \cup owed \/ <<section, entry>> \in wide
  BY <1>1 DEF Iteration, Scanning
<1>13. L \subseteq ToSet(found') \cup owed' \/ <<section, entry>> \in wide'
  BY <1>2, <1>4, <1>8, <1>9, <1>11, <1>12
<1>14. step' = "scanned" => L \subseteq ToSet(found') \/ <<section, entry>> \in wide'
  BY <1>4, <1>9, <1>13
<1>15. ToSet(found') \subseteq Ever(d, p)
  BY <1>7, <1>8, <1>10
<1> HIDE DEF L
<1>16. QED
  BY <1>5, <1>6, <1>8, <1>13, <1>14, <1>15 DEF Iteration, L

\* Every step keeps what is known of the iteration.
LEMMA IterationStep ==
    ASSUME IInv, IInv', Iteration, [Next]_vars
    PROVE  Iteration'
<1>1. TypeInv /\ InDb
  BY DEF IInv
<1>2. ASSUME step' \notin Scanning PROVE Iteration'
  BY <1>2 DEF Iteration
<1>3. CASE ScanBatch
  BY <1>3, BatchStep
<1>4. CASE ExpandEntry \/ CountEntry
  <2>1. \/ step' = step /\ step = "next"
        \/ step' = "scan" /\ found' = <<>> /\ batches' = 0 /\ repeats' = 0
    BY <1>4 DEF ExpandEntry, CountEntry, BeginScan
  <2>2. CASE step' = step /\ step = "next"
    BY <1>2, <2>2 DEF Scanning
  <2>3. CASE step' = "scan" /\ found' = <<>> /\ batches' = 0 /\ repeats' = 0
    <3>1. ToSet(<<>>) = {} /\ Cardinality({}) = 0 /\ Len(<<>>) = 0
      BY FS_EmptySet DEF ToSet
    <3>2. ToSet(found') = {} /\ Len(found') = 0 /\ Cardinality(ToSet(found')) = 0
          /\ ~(batches' > 0) /\ step' # "scanned"
      BY <2>3, <3>1
    <3>3. QED
      BY <2>3, <3>2 DEF Iteration
  <2>4. QED
    BY <2>1, <2>2, <2>3
<1>5. CASE PlainEntry \/ ScanError \/ ScannedKeys \/ CountKeys \/ Gather \/ CountDone
  <2>1. step' = "next"
    BY <1>5 DEF PlainEntry, ScanError, ScannedKeys, CountKeys, Gather, CountDone
  <2>2. QED
    BY <1>2, <2>1 DEF Scanning
<1>6. CASE StreamsNext
  <2>1. step' \notin Scanning
    BY <1>6 DEF StreamsNext, StreamsListed, SelectStreamDb, XInfoStream, XInfoGroups, XInfoConsumers,
                RegisterStream, StreamsDone, NextStream, Scanning
  <2>2. QED
    BY <1>2, <2>1
<1>7. CASE DirectoryNext \/ SlowLog \/ KeyGroups \/ LuaScript
  <2>1. section' \notin Keyed
    BY <1>7 DEF DirectoryNext, NotSentinel, SentinelMasters, CkQuorum, SentinelSentinels,
                SentinelSlaves, SentinelConfig, SearchList, SearchInfo, SearchDone,
                SlowLog, KeyGroups, LuaScript, Keyed
  <2>2. Places'
    BY DEF IInv, TypeInv
  <2>3. step' \notin Scanning
    BY <2>1, <2>2 DEF Places, Keyed, Scanning, SectionNames
  <2>4. QED
    BY <1>2, <2>3
<1>8. CASE Environment \/ Terminated \/ UNCHANGED vars
  <2>1. UNCHANGED <<section, step, todo, found, batches, repeats, wide, selected>>
    BY <1>8 DEF Environment, OtherClient, Lose, Terminated, vars, scanVars
  <2>2. SUFFICES ASSUME step \in Scanning PROVE Iteration'
    BY <1>2, <2>1
  <2>3. entry' = entry /\ entry.db \in Dbs /\ entry.pat \in DOMAIN Match /\ entry.db = selected
        /\ Match[entry.pat] \subseteq Keys
    BY <1>1, <2>1, <2>2, EntryFacts, BoundsFinite DEF entry
  <2>4. /\ Lasting(entry.db, entry.pat)' \subseteq Lasting(entry.db, entry.pat)
        /\ Ever(entry.db, entry.pat) \subseteq Ever(entry.db, entry.pat)'
    <3> DEFINE d == entry.db
               p == entry.pat
    <3>1. ASSUME NEW x \in Dbs, NEW y \in DOMAIN Match
          PROVE  Lasting(x, y)' \subseteq Lasting(x, y) /\ Ever(x, y) \subseteq Ever(x, y)'
      BY <1>1, Bounds
    <3>2. PICK x \in Dbs, y \in DOMAIN Match : x = entry.db /\ y = entry.pat
      BY <2>3
    <3>3. x = entry'.db /\ y = entry'.pat
      BY <2>3, <3>2
    <3>4. Lasting(entry.db, entry.pat)' = Lasting(x, y)' /\ Ever(entry.db, entry.pat)' = Ever(x, y)'
      BY <3>3 DEF Lasting, Ever
    <3>5. QED
      BY <3>1, <3>2, <3>4
  <2>5. ASSUME NEW k \in Lasting(entry.db, entry.pat)', k \in owed PROVE k \in owed'
    <3>1. <<entry.db, k>> \notin touched'
      BY <2>3, <2>5 DEF Lasting
    <3>2. CASE owed' = owed
      BY <2>5, <3>2
    <3>3. CASE owed' # owed
      <4>1. WriteKey
        BY <1>8, <3>3 DEF Environment, OtherClient, RemoveName, Lose, Terminated, vars
      <4>2. PICK x \in Dbs, y \in Keys, v \in Values :
              /\ owed' = IF x = selected /\ v = "none" THEN owed \ {y} ELSE owed
              /\ touched' = touched \cup {<<x, y>>}
        BY <4>1 DEF WriteKey
      <4>3. QED
        BY <2>3, <2>5, <3>1, <4>2
    <3>4. QED
      BY <3>2, <3>3
  <2>6. QED
    BY <2>1, <2>2, <2>3, <2>4, <2>5 DEF Iteration
<1>9. QED
  BY <1>3, <1>4, <1>5, <1>6, <1>7, <1>8 DEF Next, Exporter, KeyScanNext

-----------------------------------------------------------------------------
(***************************************************************************)
(* Counted keys.                                                           *)
(***************************************************************************)
\* What is within bounds stays so.
LEMMA CountKept ==
    ASSUME TypeInv, [Next]_vars, NEW r, CountOk(r)
    PROVE  CountOk(r)'
<1>1. PICK d \in Dbs, p \in DOMAIN Match : d = r.db /\ p = r.key
  BY DEF CountOk
<1>2. Lasting(d, p)' \subseteq Lasting(d, p) /\ Ever(d, p) \subseteq Ever(d, p)'
  BY Bounds
<1>3. Match[p] \subseteq Keys
  BY MatchAssumption
<1>4. Lasting(d, p) \subseteq Keys /\ Ever(d, p)' \subseteq Keys
  BY <1>3 DEF Lasting, Ever
<1>5. IsFiniteSet(Lasting(d, p)) /\ IsFiniteSet(Ever(d, p)')
  BY <1>4, KeysAssumption, FS_Subset
<1>6. /\ Cardinality(Lasting(d, p)') <= Cardinality(Lasting(d, p))
      /\ Cardinality(Ever(d, p)) <= Cardinality(Ever(d, p)')
      /\ IsFiniteSet(Lasting(d, p)') /\ IsFiniteSet(Ever(d, p))
  BY <1>2, <1>5, FS_Subset
<1>7. /\ Cardinality(Lasting(d, p)') \in Nat /\ Cardinality(Lasting(d, p)) \in Nat
      /\ Cardinality(Ever(d, p)) \in Nat /\ Cardinality(Ever(d, p)') \in Nat
  BY <1>5, <1>6, FS_CardinalityType
<1>8. wide \subseteq wide'
  BY Steady
<1>9. /\ d = r.db /\ p = r.key /\ r.value \in Nat /\ r.repeats \in Nat
      /\ <<"countKeys", Entry(d, p)>> \in wide \/ r.value >= Cardinality(Lasting(d, p))
      /\ r.value <= Cardinality(Ever(d, p)) + r.repeats
  BY <1>1 DEF CountOk
<1>10. /\ <<"countKeys", Entry(d, p)>> \in wide' \/ r.value >= Cardinality(Lasting(d, p)')
       /\ r.value <= Cardinality(Ever(d, p)') + r.repeats
  BY <1>6, <1>7, <1>8, <1>9
<1>11. QED
  BY <1>9, <1>10 DEF CountOk, Entry, Lasting, Ever

\* A count is taken of an iteration that ended, and stays within bounds.
LEMMA CountsStep ==
    ASSUME IInv, Iteration, CountsOk, [Next]_vars
    PROVE  CountsOk'
<1>1. TypeInv /\ InDb /\ IsSeq(out)
  BY DEF IInv, TypeInv, LoopType
<1> SUFFICES ASSUME NEW r \in ToSet(out'), r.name = "keys_count" PROVE CountOk(r)'
  BY DEF CountsOk
<1>2. SUFFICES CountOk(r)
  BY <1>1, CountKept
<1>3. CASE r \in ToSet(out)
  BY <1>3 DEF CountsOk
<1>4. CASE CountKeys /\ r = CountRecord
  <2>1. section = "countKeys" /\ step = "scanned" /\ step \in Scanning
    BY <1>4 DEF CountKeys, Scanning
  <2>2. entry.db \in Dbs /\ entry.pat \in DOMAIN Match /\ entry = Entry(entry.db, entry.pat)
    BY <1>1, <2>1, EntryFacts
  <2>3. PICK d \in Dbs, p \in DOMAIN Match : d = entry.db /\ p = entry.pat
    BY <2>2
  <2>4. found \in Seq(Keys) /\ repeats \in Nat
    BY <1>1 DEF TypeInv, LoopType
  <2> DEFINE F == ToSet(found)
             L == Lasting(d, p)
             E == Ever(d, p)
  <2>5. /\ F \subseteq E
        /\ Len(found) = Cardinality(F) + repeats
        /\ L \subseteq F \/ <<section, entry>> \in wide
    BY <2>1, <2>3 DEF Iteration
  <2>6. IsFiniteSet(E) /\ IsFiniteSet(F) /\ IsFiniteSet(L)
    BY <2>5, BoundsFinite, FS_Subset
  <2>7. Cardinality(F) <= Cardinality(E) /\ (L \subseteq F => Cardinality(L) <= Cardinality(F))
    BY <2>5, <2>6, FS_Subset
  <2>8. Cardinality(F) \in Nat /\ Cardinality(E) \in Nat /\ Cardinality(L) \in Nat
    BY <2>6, FS_CardinalityType
  <2> HIDE DEF F, L, E
  <2>9. /\ Len(found) >= Cardinality(L) \/ <<section, entry>> \in wide
        /\ Len(found) <= Cardinality(E) + repeats /\ Len(found) \in Nat
    BY <2>4, <2>5, <2>7, <2>8
  <2>10. /\ r.db = d /\ r.key = p /\ r.value = Len(found) /\ r.repeats = repeats
         /\ <<section, entry>> = <<"countKeys", Entry(d, p)>>
    BY <1>4, <2>1, <2>2, <2>3 DEF CountRecord
  <2>11. QED
    BY <2>4, <2>9, <2>10 DEF CountOk, L, E
<1>5. QED
  BY <1>1, <1>3, <1>4, OutStep DEF Unlabelled, KeysRecord, StreamRecord, ScriptRecord

-----------------------------------------------------------------------------
(***************************************************************************)
(* Expanded patterns.                                                      *)
(***************************************************************************)
\* What can be expanded after a step could be before it, and needs no more keys.
LEMMA ExpandableKept ==
    ASSUME TypeInv, [Next]_vars, NEW name, NEW s, Expandable(name, s)'
    PROVE  Expandable(name, s) /\ \A e \in ToSet(s) : e \in Patterns => Needed(e)' \subseteq Needed(e)
<1>1. acl' = acl /\ alive \in BOOLEAN /\ (alive = FALSE => alive' = FALSE) /\ wide \subseteq wide'
  BY Frame, Steady DEF TypeInv, ServerType
<1>2. alive' = TRUE /\ alive = TRUE
  BY <1>1 DEF Expandable, Refused
<1>3. GlobDbs(s)' = GlobDbs(s)
  BY DEF GlobDbs
<1>4. \A d \in GlobDbs(s) : ~SelectRefused(d)
  BY <1>1, <1>2, <1>3 DEF Expandable, SelectRefused
<1>5. Expandable(name, s)
  BY <1>1, <1>2, <1>4 DEF Expandable, Refused
<1>6. ASSUME NEW e \in ToSet(s), e \in Patterns PROVE Needed(e)' \subseteq Needed(e)
  <2>1. CASE e.pat \in Globs
    <3>1. e.db \in Dbs /\ e.pat \in DOMAIN Match
      BY <1>4, <1>6, <2>1 DEF GlobDbs, SelectRefused, Patterns
    <3>2. PICK d \in Dbs, p \in DOMAIN Match : d = e.db /\ p = e.pat
      BY <3>1
    <3>3. Lasting(d, p)' \subseteq Lasting(d, p)
      BY Bounds
    <3>4. Lasting(e.db, e.pat)' = Lasting(d, p)'
      BY <3>2 DEF Lasting
    <3>5. QED
      BY <2>1, <3>2, <3>3, <3>4 DEF Needed, Entry
  <2>2. CASE e.pat \notin Globs
    BY <2>2 DEF Needed, Entry
  <2>3. QED
    BY <2>1, <2>2
<1>7. QED
  BY <1>5, <1>6

\* A step of an expansion: it may add keys of entries; and unless the expansion fails, an
\* entry it is done with has been expanded.
LEMMA ExpansionKept ==
    ASSUME IInv, Expansion, [Next]_vars,
           section \in Expanding, step \in {"next"} \cup Scanning, section' = section,
           pending = section => pending' = section, pending = "no" => pending' = "no",
           ToSet(todo') \subseteq ToSet(todo),
           step' \in Scanning => entry'.pat \in Globs,
           \A x \in ToSet(expanded') : x \in ToSet(expanded) \/ FromEntry(x, Source),
           (Expandable(section, Source) /\ pending' # section) =>
               /\ ToSet(expanded) \subseteq ToSet(expanded')
               /\ \A e \in ToSet(todo) : e \in ToSet(todo') \/ Needed(e) \subseteq ToSet(expanded')
    PROVE  Expansion'
<1>1. Source' = Source
  BY Frame DEF Source
<1>2. ToSet(Source) \subseteq Patterns
  BY SeqIsSeq DEF IInv, TypeInv, ServerType, Source
<1>3. /\ ToSet(todo) \subseteq ToSet(Source)
      /\ \A x \in ToSet(expanded) : FromEntry(x, Source)
      /\ (Expandable(section, Source) /\ pending # section) =>
            \A e \in ToSet(Source) : e \in ToSet(todo) \/ Needed(e) \subseteq ToSet(expanded)
  BY DEF Expansion
<1>4. \A x \in ToSet(expanded') : FromEntry(x, Source)'
  BY <1>1, <1>3 DEF FromEntry
<1>5. ASSUME Expandable(section, Source)', pending' # section
      PROVE  \A e \in ToSet(Source) : e \in ToSet(todo') \/ Needed(e)' \subseteq ToSet(expanded')
  <2>1. PICK name, s : name = section /\ s = Source
    OBVIOUS
  <2>2. Expandable(name, s)'
    BY <1>1, <1>5, <2>1 DEF Expandable, GlobDbs, Refused, SelectRefused
  <2>3. Expandable(name, s) /\ \A e \in ToSet(s) : Needed(e)' \subseteq Needed(e)
    BY <1>2, <2>1, <2>2, ExpandableKept DEF IInv
  <2>4. Expandable(section, Source)
    BY <2>1, <2>3
  <2>5. QED
    BY <1>3, <1>5, <2>1, <2>3, <2>4
<1>6. section' = "checkKeys" => pending' = "no"
  BY DEF Expansion
<1>7. QED
  BY <1>1, <1>3, <1>4, <1>5, <1>6 DEF Expansion

\* An entry without glob characters is expanded into itself.
LEMMA PlainStep ==
    ASSUME IInv, Expansion, [Next]_vars, PlainEntry
    PROVE  Expansion'
<1>1. /\ section \in Expanding /\ step = "next" /\ step' = "next" /\ section' = section
      /\ pending' = pending /\ todo # <<>> /\ entry.pat \notin Globs
      /\ expanded' = Append(expanded, entry) /\ todo' = Tail(todo)
  BY DEF PlainEntry
<1>2. todo \in Seq(Patterns) /\ expanded \in Seq(Entries)
  BY <1>1 DEF IInv, TypeInv, LoopType, Expanding, Keyed
<1>3. ToSet(expanded') = ToSet(expanded) \cup {entry}
  BY <1>1, <1>2, SeqIsSeq, AppendFacts
<1>4. entry \in Patterns /\ entry \in ToSet(todo) /\ ToSet(todo) = {entry} \cup ToSet(todo')
  BY <1>1, <1>2, HeadTailFacts DEF entry
<1>5. Match[entry.pat] = {entry.pat} /\ entry = Entry(entry.db, entry.pat)
  BY <1>1, <1>4, MatchAssumption DEF Patterns, Entry
<1>6. Needed(entry) = {entry}
  BY <1>1, <1>5 DEF Needed
<1>7. ToSet(todo) \subseteq ToSet(Source)
  BY <1>1 DEF Expansion
<1>8. FromEntry(entry, Source)
  BY <1>4, <1>5, <1>7 DEF FromEntry
<1>9. QED
  BY <1>1, <1>3, <1>4, <1>6, <1>8, ExpansionKept DEF Scanning

\* An entry to scan for: if its SELECT fails, so has the expansion.
LEMMA ExpandStep ==
    ASSUME IInv, Expansion, [Next]_vars, ExpandEntry
    PROVE  Expansion'
<1>1. /\ section \in Expanding /\ step = "next" /\ section' = section
      /\ todo # <<>> /\ entry.pat \in Globs /\ ReadPending(section)
      /\ \/ SelectFails(entry.db) /\ todo' = <<>> /\ expanded' = <<>> /\ step' = step
         \/ todo' = todo /\ expanded' = expanded
  BY DEF ExpandEntry
<1>2. todo \in Seq(Patterns)
  BY <1>1 DEF IInv, TypeInv, LoopType, Expanding, Keyed
<1>3. entry \in ToSet(todo)
  BY <1>1, <1>2, HeadTailFacts DEF entry
<1>4. ToSet(todo) \subseteq ToSet(Source)
  BY <1>1 DEF Expansion
<1>5. (pending = section => pending' = section) /\ (pending = "no" => pending' = "no")
  BY <1>1 DEF ReadPending, Expanding
<1>6. CASE todo' = todo /\ expanded' = expanded
  <2>1. entry' = entry
    BY <1>6 DEF entry
  <2>2. QED
    BY <1>1, <1>5, <1>6, <2>1, ExpansionKept
<1>7. CASE SelectFails(entry.db) /\ todo' = <<>> /\ expanded' = <<>> /\ step' = step
  <2>1. ToSet(todo') = {} /\ ToSet(expanded') = {}
    BY <1>7 DEF ToSet
  <2>2. step' \notin Scanning
    BY <1>1, <1>7 DEF Scanning
  <2>3. ~(Expandable(section, Source) /\ pending' # section)
    <3>1. entry.db \in GlobDbs(Source)
      BY <1>1, <1>3, <1>4 DEF GlobDbs
    <3>2. Expandable(section, Source) => ~SelectRefused(entry.db) /\ alive
      BY <3>1 DEF Expandable, Refused
    <3>3. QED
      BY <1>1, <1>7, <3>2 DEF SelectFails, ReadPending
  <2>4. QED
    BY <1>1, <1>5, <2>1, <2>2, <2>3, ExpansionKept
<1>8. QED
  BY <1>1, <1>6, <1>7

\* A SCAN that fails has an old error for its reply, or cannot succeed at all.
LEMMA ScanErrorStep ==
    ASSUME IInv, Expansion, [Next]_vars, section \in Expanding, ScanError
    PROVE  Expansion'
<1>1. /\ step = "scan" /\ step' = "next" /\ section' = section /\ expanded' = expanded
      /\ ReadPending(section) /\ todo' = Tail(todo) /\ Fails("SCAN")
  BY DEF ScanError, scanVars
<1>2. step \in Scanning
  BY <1>1 DEF Scanning
<1>3. ToSet(todo') \subseteq ToSet(todo)
  BY <1>1, <1>2, EntryFacts DEF IInv
<1>4. (pending = section => pending' = section) /\ (pending = "no" => pending' = "no")
  BY <1>1 DEF ReadPending, Expanding
<1>5. ~(Expandable(section, Source) /\ pending' # section)
  BY <1>1 DEF Expandable, Refused, Fails, ReadPending
<1>6. QED
  BY <1>1, <1>2, <1>3, <1>4, <1>5, ExpansionKept DEF Scanning

\* The keys found are those of the entry, and none that stays is missing.
LEMMA ScannedStep ==
    ASSUME IInv, Iteration, Expansion, [Next]_vars, ScannedKeys
    PROVE  Expansion'
<1>1. /\ section \in Expanding /\ step = "scanned" /\ step' = "next" /\ section' = section
      /\ pending' = pending /\ expanded' = expanded \o ScannedPairs /\ todo' = Tail(todo)
  BY DEF ScannedKeys
<1>2. step \in Scanning
  BY <1>1 DEF Scanning
<1>3. entry \in Patterns /\ entry.db \in Dbs /\ entry \in ToSet(todo)
      /\ ToSet(todo) = {entry} \cup ToSet(todo')
  BY <1>1, <1>2, EntryFacts DEF IInv
<1>4. found \in Seq(Keys) /\ expanded \in Seq(Entries)
  BY DEF IInv, TypeInv, LoopType
<1>5. entry.pat \in Globs /\ ToSet(todo) \subseteq ToSet(Source)
  BY <1>1, <1>2 DEF Expansion
<1>6. ToSet(ScannedPairs) = {Entry(entry.db, k) : k \in ToSet(found)}
  BY DEF ToSet, ScannedPairs
<1>7. ScannedPairs \in Seq(Entries)
  <2>1. Len(found) \in Nat /\ DOMAIN found = 1 .. Len(found) /\ \A i \in 1 .. Len(found) : found[i] \in Keys
    BY <1>4
  <2>2. entry.db \in Nat
    BY <1>3 DEF Patterns
  <2>3. \A i \in 1 .. Len(found) : Entry(entry.db, found[i]) \in Entries
    BY <2>1, <2>2 DEF Entry, Entries
  <2>4. QED
    BY <2>1, <2>3, IsASeq DEF ScannedPairs
<1>8. ToSet(expanded') = ToSet(expanded) \cup ToSet(ScannedPairs)
  BY <1>1, <1>4, <1>7, ConcatFacts
<1>9. ASSUME NEW x \in ToSet(ScannedPairs) PROVE FromEntry(x, Source)
  <2>1. PICK k \in ToSet(found) : x = Entry(entry.db, k)
    BY <1>6
  <2>2. k \in Match[entry.pat]
    BY <1>2 DEF Iteration, Ever
  <2>3. x.db = entry.db /\ x.pat = k
    BY <2>1 DEF Entry
  <2>4. QED
    BY <1>3, <1>5, <2>2, <2>3 DEF FromEntry
<1>10. ASSUME Expandable(section, Source) PROVE Needed(entry) \subseteq ToSet(expanded')
  <2>1. <<section, entry>> \notin wide
    <3>1. \A w \in wide : w[1] # section
      BY <1>10 DEF Expandable
    <3>2. <<section, entry>>[1] = section
      OBVIOUS
    <3>3. QED
      BY <3>1, <3>2
  <2>2. Lasting(entry.db, entry.pat) \subseteq ToSet(found)
    BY <1>1, <1>2, <2>1 DEF Iteration
  <2>3. QED
    BY <1>5, <1>6, <1>8, <2>2 DEF Needed
<1>11. QED
  BY <1>1, <1>2, <1>3, <1>8, <1>9, <1>10, ExpansionKept DEF Scanning

\* Every step keeps what is known of the expansion.
LEMMA ExpansionStep ==
    ASSUME IInv, IInv', Iteration, Expansion, [Next]_vars
    PROVE  Expansion'
<1>1. CASE PlainEntry \/ ExpandEntry \/ ScannedKeys
  BY <1>1, PlainStep, ExpandStep, ScannedStep
<1>2. CASE ScanBatch
  <2>1. /\ step = "scan" /\ step' \in {"scan", "scanned"} /\ section' = section
        /\ pending' = pending /\ todo' = todo /\ expanded' = expanded /\ entry' = entry
    BY <1>2 DEF ScanBatch, entry
  <2>2. CASE section \in Expanding
    <3>1. entry.pat \in Globs
      BY <2>1, <2>2 DEF Expansion, Scanning
    <3>2. QED
      BY <2>1, <2>2, <3>1, ExpansionKept DEF Scanning
  <2>3. CASE section \notin Expanding
    BY <2>1, <2>3 DEF Expansion, Expanding
  <2>4. QED
    BY <2>2, <2>3
<1>3. CASE ScanError
  <2>1. section' = section
    BY <1>3 DEF ScanError
  <2>2. CASE section \in Expanding
    BY <1>3, <2>2, ScanErrorStep
  <2>3. CASE section \notin Expanding
    BY <2>1, <2>3 DEF Expansion, Expanding
  <2>4. QED
    BY <2>2, <2>3
<1>4. CASE CountEntry \/ CountKeys \/ Gather
  <2>1. section' = "countKeys"
    BY <1>4 DEF CountEntry, CountKeys, Gather
  <2>2. QED
    BY <2>1 DEF Expansion, Expanding
<1>5. CASE CountDone
  <2>1. section' = "streams" /\ step' = "next" /\ todo' = opts.checkStreams /\ expanded' = <<>>
    BY <1>5 DEF CountDone
  <2>2. Source' = opts.checkStreams
    BY <2>1, Frame DEF Source
  <2>3. ToSet(expanded') = {}
    BY <2>1 DEF ToSet
  <2>4. QED
    BY <2>1, <2>2, <2>3 DEF Expansion, Scanning
<1>6. CASE StreamsNext
  <2>1. section' # "checkKeys" /\ (section' = "streams" => step' \notin {"next"} \cup Scanning)
    BY <1>6 DEF StreamsNext, StreamsListed, SelectStreamDb, XInfoStream, XInfoGroups, XInfoConsumers,
                RegisterStream, StreamsDone, NextStream, Scanning
  <2>2. QED
    BY <2>1 DEF Expansion, Expanding
<1>7. CASE DirectoryNext \/ SlowLog \/ KeyGroups \/ LuaScript
  <2>1. section' \notin Expanding
    BY <1>7 DEF DirectoryNext, NotSentinel, SentinelMasters, CkQuorum, SentinelSentinels,
                SentinelSlaves, SentinelConfig, SearchList, SearchInfo, SearchDone,
                SlowLog, KeyGroups, LuaScript, Expanding
  <2>2. QED
    BY <2>1 DEF Expansion, Expanding
<1>8. CASE Environment \/ Terminated \/ UNCHANGED vars
  <2>1. UNCHANGED <<section, step, todo, expanded, pending>>
    BY <1>8 DEF Environment, OtherClient, Lose, Terminated, vars, scanVars
  <2>2. entry' = entry
    BY <2>1 DEF entry
  <2>3. CASE section \in Expanding /\ step \in {"next"} \cup Scanning
    <3>1. step \in Scanning => entry.pat \in Globs
      BY <2>3 DEF Expansion
    <3>2. QED
      BY <2>1, <2>2, <2>3, <3>1, ExpansionKept
  <2>4. CASE ~(section \in Expanding /\ step \in {"next"} \cup Scanning)
    BY <2>1, <2>4 DEF Expansion
  <2>5. QED
    BY <2>3, <2>4
<1>9. QED
  BY <1>1, <1>2, <1>3, <1>4, <1>5, <1>6, <1>7, <1>8 DEF Next, Exporter, KeyScanNext

-----------------------------------------------------------------------------
(***************************************************************************)
(* The keys that are checked.                                              *)
(***************************************************************************)
\* A concatenation begins with its first part and goes on with its second.
LEMMA PrefixFacts ==
    ASSUME NEW S, NEW s \in Seq(S), NEW t \in Seq(S)
    PROVE  /\ IsPrefix(s, s \o t)
           /\ \A i \in Len(s) + 1 .. Len(s \o t) : (s \o t)[i] \in ToSet(t)
<1>1. /\ s \o t \in Seq(S) /\ Len(s \o t) = Len(s) + Len(t)
      /\ \A i \in 1 .. Len(s) + Len(t) :
            (s \o t)[i] = IF i <= Len(s) THEN s[i] ELSE t[i - Len(s)]
  BY ConcatProperties
<1>2. Len(s) \in Nat /\ Len(t) \in Nat /\ DOMAIN t = 1 .. Len(t)
  BY LenProperties
<1> DEFINE c == s \o t
<1> HIDE DEF c
<1>3. c \in Seq(S) /\ Len(c) = Len(s) + Len(t) /\ \A i \in 1 .. Len(s) : c[i] = s[i]
  BY <1>1, <1>2 DEF c
<1>4. SubSeq(s, 1, Len(s)) = SubSeq(c, 1, Len(s))
  BY <1>2, <1>3
<1>5. IsPrefix(s, c)
  BY <1>2, <1>3, <1>4 DEF IsPrefix
<1>6. ASSUME NEW i \in Len(s) + 1 .. Len(s \o t) PROVE (s \o t)[i] \in ToSet(t)
  <2>1. i \in 1 .. Len(s) + Len(t) /\ ~(i <= Len(s)) /\ i - Len(s) \in DOMAIN t
    BY <1>1, <1>2
  <2>2. (s \o t)[i] = t[i - Len(s)]
    BY <1>1, <2>1
  <2>3. QED
    BY <2>1, <2>2 DEF ToSet
<1>7. QED
  BY <1>5, <1>6 DEF c

\* What was checked stays right.
LEMMA KeysKept ==
    ASSUME TypeInv, [Next]_vars, NEW r, KeysOk(r)
    PROVE  KeysOk(r)'
<1>1. opts' = opts
  BY Frame
<1>2. ToSet(opts.checkKeys) \subseteq Patterns
  BY SeqIsSeq DEF TypeInv, ServerType
<1>3. ASSUME Expandable("checkKeys", opts.checkKeys)'
      PROVE  \A e \in ToSet(opts.checkKeys) : Needed(e)' \subseteq ToSet(r.keys)
  <2>1. PICK s : s = opts.checkKeys
    OBVIOUS
  <2>2. Expandable("checkKeys", s)'
    BY <1>1, <1>3, <2>1 DEF Expandable, GlobDbs, Refused, SelectRefused
  <2>3. Expandable("checkKeys", s) /\ \A e \in ToSet(s) : Needed(e)' \subseteq Needed(e)
    BY <1>2, <2>1, <2>2, ExpandableKept
  <2>4. \A e \in ToSet(s) : Needed(e) \subseteq ToSet(r.keys)
    BY <2>1, <2>3 DEF KeysOk
  <2>5. QED
    BY <2>1, <2>3, <2>4
<1>4. QED
  BY <1>1, <1>3 DEF KeysOk, FromEntry

\* The keys are checked when the expansion is over.
LEMMA CheckedStep ==
    ASSUME IInv, Expansion, CheckedOk, [Next]_vars
    PROVE  CheckedOk'
<1>1. TypeInv /\ IsSeq(out)
  BY DEF IInv, TypeInv, LoopType
<1> SUFFICES ASSUME NEW r \in ToSet(out'), r.name = "allKeys" PROVE KeysOk(r)'
  BY DEF CheckedOk
<1>2. SUFFICES KeysOk(r)
  BY <1>1, KeysKept
<1>3. CASE r \in ToSet(out)
  BY <1>3 DEF CheckedOk
<1>4. CASE Gather /\ r = KeysRecord
  <2>1. section = "checkKeys" /\ step = "next" /\ todo = <<>> /\ pending = "no"
    BY <1>4 DEF Gather, Expansion
  <2>2. opts.singleKeys \in Seq(Entries) /\ expanded \in Seq(Entries)
    BY <1>1 DEF TypeInv, ServerType, LoopType
  <2>3. r.keys = opts.singleKeys \o expanded
    BY <1>4 DEF KeysRecord, allKeys
  <2>4. /\ IsPrefix(opts.singleKeys, r.keys)
        /\ \A i \in Len(opts.singleKeys) + 1 .. Len(r.keys) : r.keys[i] \in ToSet(expanded)
    BY <2>2, <2>3, PrefixFacts
  <2>5. ToSet(r.keys) = ToSet(opts.singleKeys) \cup ToSet(expanded)
    BY <2>2, <2>3, ConcatFacts
  <2>6. ToSet(todo) = {} /\ Source = opts.checkKeys
    BY <2>1 DEF ToSet, Source
  <2>7. /\ \A x \in ToSet(expanded) : FromEntry(x, opts.checkKeys)
        /\ Expandable("checkKeys", opts.checkKeys) =>
              \A e \in ToSet(opts.checkKeys) : Needed(e) \subseteq ToSet(expanded)
    BY <2>1, <2>6 DEF Expansion, Expanding
  <2>8. QED
    BY <2>4, <2>5, <2>7 DEF KeysOk
<1>5. QED
  BY <1>1, <1>3, <1>4, OutStep DEF Unlabelled, CountRecord, StreamRecord, ScriptRecord

\* The initial state satisfies the invariant.
LEMMA ScanInitially == Init => ScanInv
<1> SUFFICES ASSUME Init PROVE ScanInv
  OBVIOUS
<1>1. section = "checkKeys" /\ step = "next" /\ todo = opts.checkKeys /\ expanded = <<>> /\ out = <<>>
      /\ pending = "no"
  BY DEF Init, ServerInit, ScanInit
<1>2. ToSet(expanded) = {} /\ ToSet(out) = {} /\ Source = todo
  BY <1>1 DEF ToSet, Source
<1>3. QED
  BY <1>1, <1>2 DEF ScanInv, Iteration, CountsOk, Expansion, CheckedOk, Scanning

\* The inductive invariant of the iterations, counts and expansions.
THEOREM ScanInvariant == Spec => [](IInv /\ ScanInv)
<1> DEFINE Both == IInv /\ ScanInv
<1>1. Init => Both
  BY Initially, ScanInitially
<1>2. Both /\ [Next]_vars => Both'
  <2> SUFFICES ASSUME Both, [Next]_vars PROVE Both'
    OBVIOUS
  <2>1. IInv'
    BY TypeStep, InDbStep, SourcedStep, VisitedStep, LabelledStep, ScriptStep DEF IInv
  <2>2. QED
    BY <2>1, IterationStep, CountsStep, ExpansionStep, CheckedStep DEF ScanInv
<1>3. QED
  BY <1>1, <1>2, PTL DEF Spec

\* keys_count lies between the keys that stay and those that were ever there and were repeated
\* (extractCountKeysMetrics, scanKeys), unless a cursor did not fit into an integer.
THEOREM CountsBounded == Spec => []CountBounds
<1>1. ScanInv => CountBounds
  BY DEF ScanInv, CountsOk, CountOk, CountBounds, Series
<1>2. QED
  BY <1>1, ScanInvariant, PTL

\* The keys checked are the single keys and then keys of the patterns' own databases, with no
\* lasting key missing (getKeysFromPatterns, extractCheckKeyMetrics).
THEOREM ExpansionCorrect == Spec => []ExpansionExact
<1>1. ScanInv => ExpansionExact
  BY DEF ScanInv, CheckedOk, KeysOk, FromEntry, ExpansionExact, Series
<1>2. QED
  BY <1>1, ScanInvariant, PTL

-----------------------------------------------------------------------------
(***************************************************************************)
(* The names that are listed.                                              *)
(***************************************************************************)
Unhindered == alive /\ acl = Open

\* Whoever reads an old error: the slow log at the latest.
Read == (alive /\ section \notin Keyed \cup {"slowlog"}) => pending # "yes"

\* The masters that are listed, and what is told of each.
NamedMasters == {m \in DOMAIN masters : masters[m].named}

QuorumTold(m) == \E r \in Series("ckquorum_status") : r.key = m /\ (r.value = 1) = masters[m].quorum
SentinelsTold(m) ==
    \E r \in Series("ok_sentinels") : r.key = m /\ r.value = 1 + OkOnes(masters[m].sentinels)
SlavesTold(m) == \E r \in Series("ok_slaves") : r.key = m /\ r.value = OkOnes(masters[m].slaves)

MasterTold(m) == QuorumTold(m) /\ SentinelsTold(m) /\ SlavesTold(m)

MastersTold ==
    /\ \A m \in DOMAIN masters : masters[m].quorum \in BOOLEAN
    /\ (section = "sentinel" /\ step # "next") =>
          /\ IsSeq(todo) /\ (step # "ckquorum" => todo # <<>>)
          /\ (Unhindered /\ opts.sentinel) =>
                \A m \in NamedMasters :
                    /\ m \in ToSet(todo) \/ MasterTold(m)
                    /\ (step # "ckquorum" /\ m = master) => QuorumTold(m)
                    /\ (step = "slaves" /\ m = master) => SentinelsTold(m)
    /\ (section \in {"search", "script", "end"} /\ Unhindered /\ opts.sentinel) =>
          \A m \in NamedMasters : MasterTold(m)

\* The indexes that are listed, as long as none is removed.
IndexTold(i) == \E r \in Series("search_index") : r.key = i

WantedIndexes == {i \in DOMAIN indexes \cap opts.search : indexes[i] = "ok"}

IndexesTold ==
    /\ (section = "search" /\ step = "index") => IsSeq(todo)
    /\ (section = "search" /\ step = "index" /\ Unhindered /\ changes = 0) =>
          /\ ToSet(todo) \subseteq DOMAIN indexes
          /\ \A i \in WantedIndexes : i \in ToSet(todo) \/ IndexTold(i)
    /\ (section \in {"script", "end"} /\ Unhindered /\ changes = 0) =>
          \A i \in WantedIndexes : IndexTold(i)

\* A stream that can be described, and was not touched.
Stays(e) ==
    /\ e.pat \in Keys /\ ~SelectRefused(e.db)
    /\ store[e.db][e.pat] \in Streams /\ <<e.db, e.pat>> \notin touched

Pairs(gs) == {<<g, {"c"}>> : g \in gs}

Described(e) ==
    \E r \in Series("stream") :
        /\ r.db = e.db /\ r.key = e.pat
        /\ r.value = Cardinality(GroupsOf[store[e.db][e.pat]])
        /\ r.groups = Registered(Pairs(GroupsOf[store[e.db][e.pat]] \ {"odd"}))

Listed == {"select"} \cup Describing

\* The old error, until it is read in the streams section: by the first pattern, or else by the
\* first stream.
StreamsPending ==
    /\ section \in {"checkKeys", "countKeys"} => pending # "streams"
    /\ (alive /\ section = "streams") =>
          /\ step \in Scanning \cup Describing => pending # "yes"
          /\ step \in {"next"} \cup Scanning =>
                /\ pending = "streams" => GlobDbs(opts.checkStreams) # {}
                /\ pending = "yes" => \A e \in ToSet(opts.checkStreams) :
                                         e.pat \in Globs => e \in ToSet(todo)
          /\ (step = "select" /\ pending = "yes") =>
                GlobDbs(opts.checkStreams) = {} /\ todo = opts.singleStreams \o expanded

\* What is known of the stream at hand.
Known(e) ==
    LET gs == GroupsOf[store[e.db][e.pat]] IN
    /\ info.n = Cardinality(gs)
    /\ step = "groups" => info.groups = {}
    /\ step = "consumers" =>
          IsSeq(info.left) /\ info.groups \cup Pairs(ToSet(info.left)) = Pairs(gs \ {"odd"})

StreamAtHand ==
    /\ section \in Keyed => info = Stream(info.n, info.left, info.groups)
    /\ (section = "streams" /\ step \in {"groups", "consumers"}) =>
          \A e \in {entry} : Stays(e) => Known(e)

StreamsTold ==
    ~Refused("XINFO") =>
        /\ (section = "streams" /\ step \in Listed) =>
              \A e \in Wanted : Stays(e) => e \in ToSet(todo) \/ Described(e)
        /\ section = "slowlog" => \A e \in Wanted : Stays(e) => Described(e)

ListInv == Read /\ MastersTold /\ IndexesTold /\ StreamsPending /\ StreamAtHand /\ StreamsTold
-----------------------------------------------------------------------------
(***************************************************************************)
(* What is told stays told.                                                *)
(***************************************************************************)
\* Only the key check leaves an error unread; whoever reads it is recorded.
LEMMA PendingStep ==
    ASSUME [Next]_vars
    PROVE  Gather \/ pending' = pending \/ (pending = "yes" /\ alive /\ pending' = section)
<1> USE DEF ReadPending
<1>1. CASE PlainEntry \/ ExpandEntry \/ CountEntry \/ ScanBatch \/ ScanError \/ ScannedKeys \/ CountKeys
           \/ CountDone
  BY <1>1 DEF PlainEntry, ExpandEntry, CountEntry, ScanBatch, ScanError, ScannedKeys, CountKeys, CountDone
<1>2. CASE StreamsNext
  BY <1>2 DEF StreamsNext, StreamsListed, SelectStreamDb, XInfoStream, XInfoGroups, XInfoConsumers,
              RegisterStream, StreamsDone
<1>3. CASE DirectoryNext
  BY <1>3 DEF DirectoryNext, NotSentinel, SentinelMasters, CkQuorum, SentinelSentinels,
              SentinelSlaves, SentinelConfig, SearchList, SearchInfo, SearchDone
<1>4. CASE SlowLog \/ KeyGroups \/ LuaScript
  BY <1>4 DEF SlowLog, KeyGroups, LuaScript
<1>5. CASE Environment \/ Terminated \/ UNCHANGED vars
  BY <1>5 DEF Environment, OtherClient, Lose, Terminated, vars
<1>6. QED
  BY <1>1, <1>2, <1>3, <1>4, <1>5 DEF Next, Exporter, KeyScanNext

\* No section after the slow log is told of an old error.
LEMMA ReadStep ==
    ASSUME TypeInv, Read, [Next]_vars
    PROVE  Read'
<1>1. section \in SectionNames /\ alive \in BOOLEAN
  BY DEF TypeInv, Places, ServerType
<1>2. alive = FALSE => alive' = FALSE
  BY Frame
<1>3. CASE SlowLog
  <2>1. section = "slowlog" /\ ReadPending(section)
    BY <1>3 DEF SlowLog
  <2>2. QED
    BY <1>1, <1>2, <2>1 DEF Read, ReadPending
<1>4. CASE KeyScanNext \/ StreamsNext
  <2>1. section' \in Keyed \cup {"slowlog"}
    BY <1>4 DEF KeyScanNext, PlainEntry, ExpandEntry, CountEntry, ScanBatch, ScanError, ScannedKeys,
                CountKeys, Gather, CountDone, StreamsNext, StreamsListed, SelectStreamDb, XInfoStream,
                XInfoGroups, XInfoConsumers, RegisterStream, StreamsDone, Keyed, Expanding,
                TypeInv, Places, Scanning, SectionNames
  <2>2. QED
    BY <2>1 DEF Read
<1>5. CASE KeyGroups \/ DirectoryNext \/ LuaScript
  <2>1. section \notin Keyed \cup {"slowlog"} /\ ~Gather
    BY <1>5 DEF DirectoryNext, NotSentinel, SentinelMasters, CkQuorum, SentinelSentinels,
                SentinelSlaves, SentinelConfig, SearchList, SearchInfo, SearchDone, KeyGroups, LuaScript,
                Keyed, Gather
  <2>2. QED
    BY <1>1, <1>2, <2>1, PendingStep DEF Read, SectionNames
<1>6. CASE Environment \/ Terminated \/ UNCHANGED vars
  <2>1. section' = section /\ pending' = pending
    BY <1>6 DEF Environment, OtherClient, Lose, Terminated, vars
  <2>2. QED
    BY <1>1, <1>2, <2>1 DEF Read
<1>7. QED
  BY <1>3, <1>4, <1>5, <1>6 DEF Next, Exporter

\* Names are only removed, which is a change.
LEMMA NamesKept ==
    ASSUME TypeInv, [Next]_vars
    PROVE  /\ DOMAIN masters' \subseteq DOMAIN masters
           /\ \A m \in DOMAIN masters' : masters'[m] = masters[m]
           /\ changes' = 0 => changes = 0 /\ indexes' = indexes
<1>1. changes \in Nat
  BY BoundsAssumption DEF TypeInv, ServerType
<1>2. CASE Exporter
  BY <1>2, ExporterServer
<1>3. CASE Environment /\ OtherClient
  <2>1. changes' = changes + 1 /\ (WriteKey \/ RemoveName)
    BY <1>3 DEF OtherClient
  <2>2. changes' # 0
    BY <1>1, <2>1
  <2>3. CASE WriteKey
    BY <2>2, <2>3 DEF WriteKey
  <2>4. CASE RemoveName
    BY <2>2, <2>4 DEF RemoveName, Restrict
  <2>5. QED
    BY <2>1, <2>3, <2>4
<1>4. CASE (Environment /\ Lose) \/ Terminated \/ UNCHANGED vars
  BY <1>4 DEF Lose, Terminated, vars, serverVars
<1>5. QED
  BY <1>2, <1>3, <1>4 DEF Next, Environment

\* What is told of a master that stays was told of the same master.
LEMMA ToldKept ==
    ASSUME TypeInv, [Next]_vars, NEW m \in NamedMasters'
    PROVE  /\ m \in NamedMasters
           /\ QuorumTold(m) => QuorumTold(m)'
           /\ SentinelsTold(m) => SentinelsTold(m)'
           /\ SlavesTold(m) => SlavesTold(m)'
           /\ MasterTold(m) => MasterTold(m)'
<1>1. m \in DOMAIN masters /\ masters'[m] = masters[m] /\ m \in NamedMasters
  BY NamesKept DEF NamedMasters
<1>2. ToSet(out) \subseteq ToSet(out')
  BY OutStep DEF TypeInv, LoopType
<1>3. QuorumTold(m) => QuorumTold(m)'
  BY <1>1, <1>2 DEF QuorumTold, Series
<1>4. SentinelsTold(m) => SentinelsTold(m)'
  BY <1>1, <1>2 DEF SentinelsTold, Series
<1>5. SlavesTold(m) => SlavesTold(m)'
  BY <1>1, <1>2 DEF SlavesTold, Series
<1>6. QED
  BY <1>1, <1>3, <1>4, <1>5 DEF MasterTold

\* A user who is denied nothing, on a connection that holds, gets an answer.
LEMMA Answered ==
    ASSUME Unhindered, Read, section \notin Keyed \cup {"slowlog"}
    PROVE  \A c : ~Fails(c)
BY DEF Unhindered, Read, Fails, Refused, Open

-----------------------------------------------------------------------------
(***************************************************************************)
(* Masters.                                                                *)
(***************************************************************************)
\* A step that leaves the loop over the masters alone tells nothing less.
LEMMA MastersLeft ==
    ASSUME TypeInv, MastersTold, [Next]_vars,
           \/ section' \notin {"sentinel", "search", "script", "end"}
           \/ section' = "sentinel" /\ step' = "next"
           \/ section' \in {"search", "script", "end"} /\ ~opts.sentinel
           \/ section \in {"search", "script", "end"} /\ section' \in {"search", "script", "end"}
           \/ section = "sentinel" /\ UNCHANGED <<section, step, todo>>
    PROVE  MastersTold'
<1>1. opts' = opts /\ acl' = acl /\ (alive = FALSE => alive' = FALSE) /\ alive \in BOOLEAN
  BY Frame DEF TypeInv, ServerType
<1>2. Unhindered' => Unhindered
  BY <1>1 DEF Unhindered, Open
<1>3. \A m \in DOMAIN masters' : masters'[m].quorum \in BOOLEAN
  BY NamesKept DEF MastersTold
<1>4. CASE section' \notin {"sentinel", "search", "script", "end"} \/ (section' = "sentinel" /\ step' = "next")
           \/ (section' \in {"search", "script", "end"} /\ ~opts.sentinel)
  BY <1>1, <1>3, <1>4 DEF MastersTold
<1>5. CASE section \in {"search", "script", "end"} /\ section' \in {"search", "script", "end"}
  <2>1. (Unhindered' /\ opts'.sentinel) => \A m \in NamedMasters' : MasterTold(m)'
    BY <1>1, <1>2, <1>5, ToldKept DEF MastersTold
  <2>2. QED
    BY <1>3, <1>5, <2>1 DEF MastersTold
<1>6. CASE section = "sentinel" /\ UNCHANGED <<section, step, todo>>
  <2>1. master' = master
    BY <1>6 DEF master
  <2>2. ASSUME Unhindered', opts'.sentinel, step # "next", NEW m \in NamedMasters'
        PROVE  /\ m \in ToSet(todo') \/ MasterTold(m)'
               /\ (step' # "ckquorum" /\ m = master') => QuorumTold(m)'
               /\ (step' = "slaves" /\ m = master') => SentinelsTold(m)'
    <3>1. m \in NamedMasters
      BY ToldKept
    <3>2. /\ m \in ToSet(todo) \/ MasterTold(m)
          /\ (step # "ckquorum" /\ m = master) => QuorumTold(m)
          /\ (step = "slaves" /\ m = master) => SentinelsTold(m)
      BY <1>1, <1>2, <1>6, <2>2, <3>1 DEF MastersTold
    <3>3. QED
      BY <1>6, <2>1, <3>2, ToldKept
  <2>3. step # "next" => IsSeq(todo') /\ (step' # "ckquorum" => todo' # <<>>)
    BY <1>6 DEF MastersTold
  <2>4. QED
    BY <1>3, <1>6, <2>2, <2>3 DEF MastersTold
<1>7. QED
  BY <1>4, <1>5, <1>6

\* SENTINEL MASTERS lists the named ones.
LEMMA MastersListed ==
    ASSUME TypeInv, Read, MastersTold, [Next]_vars, SentinelMasters
    PROVE  MastersTold'
<1> DEFINE none == Fails("SENTINEL_MASTERS")
           list == SetToSeq({m \in DOMAIN masters : masters[m].named})
<1>1. section = "sentinel" /\ section' = "sentinel" /\ step' = "ckquorum"
      /\ todo' = (IF none THEN <<>> ELSE list)
      /\ masters' = masters /\ alive' = alive /\ acl' = acl
  BY Zenon DEF SentinelMasters, serverVars
<1> HIDE DEF none
<1>2. IsFiniteSet(NamedMasters)
  <2>1. IsFiniteSet(DOMAIN masters) /\ NamedMasters \subseteq DOMAIN masters
    BY DEF TypeInv, ServerType, NamedMasters
  <2>2. QED
    BY <2>1, FS_Subset
<1>3. list \in Seq(NamedMasters) /\ ToSet(list) = NamedMasters
  BY <1>2, SetToSeqFacts DEF NamedMasters
<1> HIDE DEF list
<1>4. IsSeq(list) /\ IsSeq(<<>>)
  <2>1. <<>> \in Seq({})
    OBVIOUS
  <2>2. QED
    BY <1>3, <2>1, SeqIsSeq
<1>5. IsSeq(todo')
  <2>1. CASE none
    BY <1>1, <1>4, <2>1
  <2>2. CASE ~none
    BY <1>1, <1>4, <2>2
  <2>3. QED
    BY <2>1, <2>2
<1>6. ASSUME Unhindered' PROVE NamedMasters' = ToSet(todo')
  <2>1. Unhindered
    BY <1>1, <1>6 DEF Unhindered, Open
  <2>2. ~none
    BY <1>1, <2>1, Answered DEF Keyed, none
  <2>3. QED
    BY <1>1, <1>3, <2>2 DEF NamedMasters
<1>7. \A m \in DOMAIN masters' : masters'[m].quorum \in BOOLEAN
  BY <1>1 DEF MastersTold
<1>8. QED
  BY <1>1, <1>5, <1>6, <1>7 DEF MastersTold

\* One command about the master at hand: it is told of this master, and the others are as before.
LEMMA MasterAsked ==
    ASSUME TypeInv, Read, MastersTold, [Next]_vars, CkQuorum \/ SentinelSentinels \/ SentinelSlaves
    PROVE  MastersTold'
<1>1. /\ section = "sentinel" /\ section' = "sentinel" /\ step \in {"ckquorum", "sentinels", "slaves"}
      /\ masters' = masters /\ alive' = alive /\ acl' = acl /\ opts' = opts
  BY DEF CkQuorum, SentinelSentinels, SentinelSlaves, serverVars
<1>2. IsSeq(out) /\ IsSeq(todo) /\ (step # "ckquorum" => todo # <<>>)
  BY <1>1 DEF TypeInv, LoopType, MastersTold
<1>3. todo # <<>>
  BY <1>2 DEF CkQuorum, SentinelSentinels, SentinelSlaves
<1>4. ToSet(todo) = {master} \cup ToSet(Tail(todo)) /\ IsSeq(Tail(todo))
  <2>1. todo \in Seq(ToSet(todo))
    BY <1>2 DEF IsSeq
  <2>2. QED
    BY <1>3, <2>1, HeadTailFacts, SeqIsSeq DEF master
<1>5. IsSeq(todo') /\ (step' # "ckquorum" => todo' # <<>>) /\ step' # "next"
  <2>1. CASE CkQuorum \/ SentinelSentinels
    BY <1>2, <1>3, <2>1 DEF CkQuorum, SentinelSentinels
  <2>2. CASE SentinelSlaves
    BY <1>4, <2>2 DEF SentinelSlaves
  <2>3. QED
    BY <2>1, <2>2
<1>6. \A m \in DOMAIN masters' : masters'[m].quorum \in BOOLEAN
  BY <1>1 DEF MastersTold
<1>7. ASSUME Unhindered', opts'.sentinel, NEW m \in NamedMasters'
      PROVE  /\ m \in ToSet(todo') \/ MasterTold(m)'
             /\ (step' # "ckquorum" /\ m = master') => QuorumTold(m)'
             /\ (step' = "slaves" /\ m = master') => SentinelsTold(m)'
  <2>1. Unhindered /\ opts.sentinel
    BY <1>1, <1>7 DEF Unhindered, Open
  <2>2. m \in NamedMasters /\ m \in DOMAIN masters /\ masters[m].quorum \in BOOLEAN
    BY <1>6, ToldKept DEF NamedMasters, MastersTold
  <2>3. /\ m \in ToSet(todo) \/ MasterTold(m)
        /\ (step # "ckquorum" /\ m = master) => QuorumTold(m)
        /\ (step = "slaves" /\ m = master) => SentinelsTold(m)
    BY <1>1, <2>1, <2>2 DEF MastersTold
  <2>4. \A c : ~Fails(c)
    BY <1>1, <2>1, Answered DEF Keyed
  <2>5. CASE CkQuorum
    <3> DEFINE rec == [name |-> "ckquorum_status", key |-> master,
                       value |-> IF Fails("SENTINEL_CKQUORUM") \/ master \notin DOMAIN masters
                                 THEN 0 ELSE IF masters[master].quorum THEN 1 ELSE 0]
    <3>1. out' = Append(out, rec) /\ step' = "sentinels" /\ todo' = todo
      BY <2>5 DEF CkQuorum
    <3>2. rec \in ToSet(out')
      <4> HIDE DEF rec
      <4>1. QED
        BY <1>2, <3>1, AppendFacts
    <3>3. master' = master
      BY <3>1 DEF master
    <3>4. m = master => QuorumTold(m)'
      <4>1. ASSUME m = master PROVE rec.name = "ckquorum_status" /\ rec.key = m /\ (rec.value = 1) = masters[m].quorum
        BY <2>2, <2>4, <4>1
      <4> HIDE DEF rec
      <4>2. QED
        BY <1>1, <3>2, <4>1 DEF QuorumTold, Series
    <3>5. QED
      BY <2>3, <3>1, <3>3, <3>4, ToldKept
  <2>6. CASE SentinelSentinels
    <3> DEFINE rec == [name |-> "ok_sentinels", key |-> master,
                       value |-> OkSentinels(Details("SENTINEL_SENTINELS", "sentinels"))]
    <3>1. out' = Append(out, rec) /\ step = "sentinels" /\ step' = "slaves" /\ todo' = todo
      BY <2>6 DEF SentinelSentinels
    <3>2. rec \in ToSet(out')
      <4> HIDE DEF rec
      <4>1. QED
        BY <1>2, <3>1, AppendFacts
    <3>3. master' = master
      BY <3>1 DEF master
    <3>4. m = master => SentinelsTold(m)'
      <4>1. ASSUME m = master
            PROVE  rec.name = "ok_sentinels" /\ rec.key = m /\ rec.value = 1 + OkOnes(masters[m].sentinels)
        BY <2>2, <2>4, <4>1 DEF Details, OkSentinels
      <4> HIDE DEF rec
      <4>2. QED
        BY <1>1, <3>2, <4>1 DEF SentinelsTold, Series
    <3>5. QED
      BY <2>3, <3>1, <3>3, <3>4, ToldKept
  <2>7. CASE SentinelSlaves
    <3> DEFINE rec == [name |-> "ok_slaves", key |-> master,
                       value |-> OkOnes(Details("SENTINEL_SLAVES", "slaves"))]
    <3>1. out' = Append(out, rec) /\ step = "slaves" /\ step' = "ckquorum" /\ todo' = Tail(todo)
      BY <2>7 DEF SentinelSlaves
    <3>2. rec \in ToSet(out')
      <4> HIDE DEF rec
      <4>1. QED
        BY <1>2, <3>1, AppendFacts
    <3>3. m = master => SlavesTold(m)'
      <4>1. ASSUME m = master
            PROVE  rec.name = "ok_slaves" /\ rec.key = m /\ rec.value = OkOnes(masters[m].slaves)
        BY <2>2, <2>4, <4>1 DEF Details
      <4> HIDE DEF rec
      <4>2. QED
        BY <1>1, <3>2, <4>1 DEF SlavesTold, Series
    <3>4. m = master => MasterTold(m)'
      BY <2>3, <3>1, <3>3, ToldKept DEF MasterTold
    <3>5. QED
      BY <1>4, <2>3, <3>1, <3>4, ToldKept
  <2>8. QED
    BY <2>5, <2>6, <2>7
<1>8. QED
  BY <1>1, <1>5, <1>6, <1>7 DEF MastersTold

\* Every step keeps what is told of the masters.
LEMMA MastersStep ==
    ASSUME TypeInv, Read, MastersTold, [Next]_vars
    PROVE  MastersTold'
<1>1. CASE SentinelMasters
  BY <1>1, MastersListed
<1>2. CASE CkQuorum \/ SentinelSentinels \/ SentinelSlaves
  BY <1>2, MasterAsked
<1>3. CASE SentinelConfig
  <2>1. section = "sentinel" /\ step = "ckquorum" /\ todo = <<>> /\ section' = "search"
        /\ alive' = alive /\ acl' = acl /\ opts' = opts
    BY <1>3 DEF SentinelConfig, serverVars
  <2>2. ToSet(todo) = {}
    BY <2>1 DEF ToSet
  <2>3. (Unhindered /\ opts.sentinel) => \A m \in NamedMasters : MasterTold(m)
    BY <2>1, <2>2 DEF MastersTold
  <2>4. (Unhindered' /\ opts'.sentinel) => \A m \in NamedMasters' : MasterTold(m)'
    BY <2>1, <2>3, ToldKept DEF Unhindered, Open
  <2>5. \A m \in DOMAIN masters' : masters'[m].quorum \in BOOLEAN
    BY NamesKept DEF MastersTold
  <2>6. QED
    BY <2>1, <2>4, <2>5 DEF MastersTold
<1>4. CASE KeyScanNext \/ StreamsNext \/ SlowLog
  <2>1. section' \notin {"sentinel", "search", "script", "end"}
    BY <1>4 DEF KeyScanNext, PlainEntry, ExpandEntry, CountEntry, ScanBatch, ScanError, ScannedKeys,
                CountKeys, Gather, CountDone, StreamsNext, StreamsListed, SelectStreamDb, XInfoStream,
                XInfoGroups, XInfoConsumers, RegisterStream, StreamsDone, Expanding, SlowLog,
                TypeInv, Places
  <2>2. QED
    BY <2>1, MastersLeft
<1>5. CASE KeyGroups
  BY <1>5, MastersLeft DEF KeyGroups
<1>6. CASE NotSentinel
  BY <1>6, MastersLeft DEF NotSentinel
<1>7. CASE SearchList \/ SearchInfo \/ SearchDone \/ LuaScript
  <2>1. section \in {"search", "script", "end"} /\ section' \in {"search", "script", "end"}
    BY <1>7 DEF SearchList, SearchInfo, SearchDone, LuaScript
  <2>2. QED
    BY <2>1, MastersLeft
<1>8. CASE Environment \/ Terminated \/ UNCHANGED vars
  <2>1. UNCHANGED <<section, step, todo>>
    BY <1>8 DEF Environment, Terminated, vars
  <2>2. section \in SectionNames
    BY DEF TypeInv, Places
  <2>3. QED
    BY <2>1, <2>2, MastersLeft
<1>9. QED
  BY <1>1, <1>2, <1>3, <1>4, <1>5, <1>6, <1>7, <1>8 DEF Next, Exporter, DirectoryNext

-----------------------------------------------------------------------------
(***************************************************************************)
(* Search indexes.                                                         *)
(***************************************************************************)
\* As long as nothing has changed, the indexes are the same and what is told stays told.
LEMMA IndexesKept ==
    ASSUME TypeInv, [Next]_vars, Unhindered', changes' = 0
    PROVE  /\ Unhindered /\ changes = 0 /\ indexes' = indexes /\ WantedIndexes' = WantedIndexes
           /\ \A i : IndexTold(i) => IndexTold(i)'
<1>1. opts' = opts /\ acl' = acl /\ (alive = FALSE => alive' = FALSE) /\ alive \in BOOLEAN
  BY Frame DEF TypeInv, ServerType
<1>2. changes = 0 /\ indexes' = indexes
  BY NamesKept
<1>3. ToSet(out) \subseteq ToSet(out')
  BY OutStep DEF TypeInv, LoopType
<1>4. Unhindered /\ WantedIndexes' = WantedIndexes
  BY <1>1, <1>2 DEF Unhindered, Open, WantedIndexes
<1>5. \A i : IndexTold(i) => IndexTold(i)'
  BY <1>3 DEF IndexTold, Series
<1>6. QED
  BY <1>2, <1>4, <1>5

\* FT._LIST lists the indexes that are wanted.
LEMMA IndexesListed ==
    ASSUME TypeInv, Read, [Next]_vars, SearchList
    PROVE  IndexesTold'
<1> DEFINE none == Fails("FT._LIST")
           list == SetToSeq(DOMAIN indexes \cap opts.search)
<1>1. section = "search" /\ section' = "search" /\ step' = "index"
      /\ todo' = (IF none THEN <<>> ELSE list) /\ opts' = opts /\ indexes' = indexes
  BY Zenon DEF SearchList, serverVars
<1> HIDE DEF none
<1>2. IsFiniteSet(DOMAIN indexes \cap opts.search)
  <2>1. IsFiniteSet(DOMAIN indexes) /\ DOMAIN indexes \cap opts.search \subseteq DOMAIN indexes
    BY DEF TypeInv, ServerType
  <2>2. QED
    BY <2>1, FS_Subset
<1>3. list \in Seq(DOMAIN indexes \cap opts.search) /\ ToSet(list) = DOMAIN indexes \cap opts.search
  BY <1>2, SetToSeqFacts
<1> HIDE DEF list
<1>4. IsSeq(list) /\ IsSeq(<<>>)
  <2>1. <<>> \in Seq({})
    OBVIOUS
  <2>2. QED
    BY <1>3, <2>1, SeqIsSeq
<1>5. IsSeq(todo')
  <2>1. CASE none
    BY <1>1, <1>4, <2>1
  <2>2. CASE ~none
    BY <1>1, <1>4, <2>2
  <2>3. QED
    BY <2>1, <2>2
<1>6. ASSUME Unhindered', changes' = 0
      PROVE  ToSet(todo') = DOMAIN indexes' \cap opts'.search
  <2>1. ~none
    BY <1>1, <1>6, IndexesKept, Answered DEF Keyed, none
  <2>2. QED
    BY <1>1, <1>3, <2>1
<1>7. ASSUME Unhindered', changes' = 0
      PROVE  ToSet(todo') \subseteq DOMAIN indexes' /\ WantedIndexes' \subseteq ToSet(todo')
  BY <1>6, <1>7 DEF WantedIndexes
<1>8. QED
  BY <1>1, <1>5, <1>7 DEF IndexesTold

\* FT.INFO of the index at hand.
LEMMA IndexAsked ==
    ASSUME TypeInv, Read, IndexesTold, [Next]_vars, SearchInfo
    PROVE  IndexesTold'
<1> DEFINE x == Head(todo)
           rec == [name |-> "search_index", key |-> x]
<1>1. /\ section = "search" /\ section' = "search" /\ step = "index" /\ step' = "index" /\ todo # <<>>
  BY DEF SearchInfo
<1>2. IsSeq(out) /\ IsSeq(todo)
  BY <1>1 DEF TypeInv, LoopType, IndexesTold
<1>3. ToSet(todo) = {x} \cup ToSet(Tail(todo)) /\ IsSeq(Tail(todo)) /\ IsSeq(<<>>)
  <2>1. todo \in Seq(ToSet(todo)) /\ <<>> \in Seq({})
    BY <1>2 DEF IsSeq
  <2>2. QED
    BY <1>1, <2>1, HeadTailFacts, SeqIsSeq
<1>4. IsSeq(todo')
  <2>1. todo' = <<>> \/ todo' = Tail(todo)
    BY DEF SearchInfo
  <2>2. CASE todo' = <<>>
    BY <1>3, <2>2
  <2>3. CASE todo' = Tail(todo)
    BY <1>3, <2>3
  <2>4. QED
    BY <2>1, <2>2, <2>3
<1>5. ASSUME Unhindered', changes' = 0
      PROVE  /\ ToSet(todo') \subseteq DOMAIN indexes'
             /\ \A i \in WantedIndexes' : i \in ToSet(todo') \/ IndexTold(i)'
  <2>1. /\ Unhindered /\ changes = 0 /\ indexes' = indexes /\ WantedIndexes' = WantedIndexes
        /\ \A i : IndexTold(i) => IndexTold(i)'
    BY <1>5, IndexesKept
  <2>2. ToSet(todo) \subseteq DOMAIN indexes /\ \A i \in WantedIndexes : i \in ToSet(todo) \/ IndexTold(i)
    BY <1>1, <2>1 DEF IndexesTold
  <2>3. ~Fails("FT.INFO") /\ x \in DOMAIN indexes
    BY <1>1, <1>3, <2>1, <2>2, Answered DEF Keyed
  <2>4. todo' = Tail(todo) /\ (indexes[x] = "ok" => out' = Append(out, rec))
    BY <2>3 DEF SearchInfo
  <2>5. ASSUME NEW i \in WantedIndexes, i = x PROVE IndexTold(i)'
    <3>1. out' = Append(out, rec)
      BY <2>4, <2>5 DEF WantedIndexes
    <3>2. rec.name = "search_index" /\ rec.key = i
      BY <2>5
    <3> HIDE DEF rec
    <3>3. rec \in ToSet(out')
      BY <1>2, <3>1, AppendFacts
    <3>4. QED
      BY <3>2, <3>3 DEF IndexTold, Series
  <2>6. QED
    BY <1>3, <2>1, <2>2, <2>4, <2>5
<1>6. QED
  BY <1>1, <1>4, <1>5 DEF IndexesTold

\* Every step keeps what is told of the indexes.
LEMMA IndexesStep ==
    ASSUME TypeInv, Read, IndexesTold, [Next]_vars
    PROVE  IndexesTold'
<1>1. CASE SearchList
  BY <1>1, IndexesListed
<1>2. CASE SearchInfo
  BY <1>2, IndexAsked
<1>3. CASE SearchDone
  <2>1. section = "search" /\ section' = "script"
        /\ (opts.search = {} \/ (step = "index" /\ todo = <<>>))
    BY <1>3 DEF SearchDone
  <2>2. ASSUME Unhindered', changes' = 0 PROVE \A i \in WantedIndexes' : IndexTold(i)'
    <3>1. /\ Unhindered /\ changes = 0 /\ WantedIndexes' = WantedIndexes
          /\ \A i : IndexTold(i) => IndexTold(i)'
      BY <2>2, IndexesKept
    <3>2. CASE opts.search = {}
      BY <3>1, <3>2 DEF WantedIndexes
    <3>3. CASE step = "index" /\ todo = <<>>
      <4>1. ToSet(todo) = {}
        BY <3>3 DEF ToSet
      <4>2. \A i \in WantedIndexes : IndexTold(i)
        BY <2>1, <3>1, <3>3, <4>1 DEF IndexesTold
      <4>3. QED
        BY <3>1, <4>2
    <3>4. QED
      BY <2>1, <3>2, <3>3
  <2>3. QED
    BY <2>1, <2>2 DEF IndexesTold
<1>4. CASE KeyScanNext \/ StreamsNext \/ SlowLog \/ KeyGroups
  <2>1. section' \notin {"search", "script", "end"}
    BY <1>4 DEF KeyScanNext, PlainEntry, ExpandEntry, CountEntry, ScanBatch, ScanError, ScannedKeys,
                CountKeys, Gather, CountDone, StreamsNext, StreamsListed, SelectStreamDb, XInfoStream,
                XInfoGroups, XInfoConsumers, RegisterStream, StreamsDone, Expanding, SlowLog, KeyGroups,
                TypeInv, Places
  <2>2. QED
    BY <2>1 DEF IndexesTold
<1>5. CASE NotSentinel \/ SentinelMasters \/ CkQuorum \/ SentinelSentinels \/ SentinelSlaves \/ SentinelConfig
  <2>1. section' \notin {"script", "end"} /\ (section' = "search" => step' = "next")
    BY <1>5 DEF NotSentinel, SentinelMasters, CkQuorum, SentinelSentinels, SentinelSlaves, SentinelConfig
  <2>2. QED
    BY <2>1 DEF IndexesTold
<1>6. CASE LuaScript \/ Environment \/ Terminated \/ UNCHANGED vars
  <2>1. \/ section = "script" /\ section' = "end"
        \/ UNCHANGED <<section, step, todo>>
    BY <1>6 DEF LuaScript, Environment, Terminated, vars
  <2>2. CASE section = "script" /\ section' = "end"
    <3>1. ASSUME Unhindered', changes' = 0 PROVE \A i \in WantedIndexes' : IndexTold(i)'
      BY <2>2, <3>1, IndexesKept DEF IndexesTold
    <3>2. QED
      BY <2>2, <3>1 DEF IndexesTold
  <2>3. CASE UNCHANGED <<section, step, todo>>
    <3>1. ASSUME section \in {"script", "end"}, Unhindered', changes' = 0
          PROVE \A i \in WantedIndexes' : IndexTold(i)'
      BY <3>1, IndexesKept DEF IndexesTold
    <3>2. ASSUME section = "search", step = "index", Unhindered', changes' = 0
          PROVE  /\ ToSet(todo') \subseteq DOMAIN indexes'
                 /\ \A i \in WantedIndexes' : i \in ToSet(todo') \/ IndexTold(i)'
      BY <2>3, <3>2, IndexesKept DEF IndexesTold
    <3>3. (section = "search" /\ step = "index") => IsSeq(todo')
      BY <2>3 DEF IndexesTold
    <3>4. QED
      BY <2>3, <3>1, <3>2, <3>3 DEF IndexesTold
  <2>4. QED
    BY <2>1, <2>2, <2>3
<1>7. QED
  BY <1>1, <1>2, <1>3, <1>4, <1>5, <1>6 DEF Next, Exporter, DirectoryNext

-----------------------------------------------------------------------------
(***************************************************************************)
(* The error left unread, in the streams section.                          *)
(***************************************************************************)
\* A pattern among the entries has a database.
LEMMA GlobFacts ==
    ASSUME NEW s
    PROVE  /\ \A e \in ToSet(s) : e.pat \in Globs => e.db \in GlobDbs(s)
           /\ (\A e \in ToSet(s) : e.pat \notin Globs) => GlobDbs(s) = {}
BY DEF GlobDbs

\* The old error is read by the first pattern or the first stream.
LEMMA StreamsPendingStep ==
    ASSUME IInv, Expansion, StreamsPending, [Next]_vars
    PROVE  StreamsPending'
<1>1. /\ Places /\ alive \in BOOLEAN /\ opts' = opts /\ (alive = FALSE => alive' = FALSE)
  BY Frame DEF IInv, TypeInv, ServerType
<1>2. GlobDbs(opts.checkStreams)' = GlobDbs(opts.checkStreams)
  BY <1>1 DEF GlobDbs
<1>3. (section' \in {"checkKeys", "countKeys"}) => pending' # "streams"
  <2>1. CASE section \in {"checkKeys", "countKeys"}
    <3>1. CASE Gather
      <4>1. pending' \in {pending, "no", "yes"}
        BY <3>1 DEF Gather
      <4>2. QED
        BY <2>1, <4>1 DEF StreamsPending
    <3>2. CASE ~Gather
      BY <2>1, <3>2, PendingStep DEF StreamsPending
    <3>3. QED
      BY <3>1, <3>2
  <2>2. CASE section \notin {"checkKeys", "countKeys"}
    <3>1. section' \notin {"checkKeys", "countKeys"}
      <4>1. CASE KeyScanNext
        BY <1>1, <2>2, <4>1 DEF KeyScanNext, PlainEntry, ExpandEntry, CountEntry, ScanBatch, ScanError,
                    ScannedKeys, CountKeys, Gather, CountDone
      <4>2. CASE StreamsNext \/ SlowLog \/ KeyGroups \/ LuaScript \/ DirectoryNext
        BY <4>2 DEF StreamsNext, StreamsListed, SelectStreamDb, XInfoStream, XInfoGroups, XInfoConsumers,
                    RegisterStream, StreamsDone, SlowLog, KeyGroups, LuaScript, DirectoryNext,
                    NotSentinel, SentinelMasters, CkQuorum, SentinelSentinels, SentinelSlaves,
                    SentinelConfig, SearchList, SearchInfo, SearchDone
      <4>3. CASE Environment \/ Terminated \/ UNCHANGED vars
        BY <2>2, <4>3 DEF Environment, Terminated, vars
      <4>4. QED
        BY <4>1, <4>2, <4>3 DEF Next, Exporter
    <3>2. QED
      BY <3>1
  <2>3. QED
    BY <2>1, <2>2
<1>4. ASSUME ~(alive' /\ section' = "streams") PROVE StreamsPending'
  BY <1>3, <1>4 DEF StreamsPending
<1>5. SUFFICES ASSUME alive' = TRUE, section' = "streams", alive = TRUE PROVE StreamsPending'
  <2>1. alive' \in BOOLEAN
    BY TypeStep DEF IInv, TypeInv, ServerType
  <2>2. QED
    BY <1>1, <1>4, <2>1
<1>6. CASE CountDone
  <2>1. step' = "next" /\ pending' = pending /\ todo' = opts.checkStreams /\ pending # "streams"
    BY <1>6 DEF CountDone, StreamsPending
  <2>2. QED
    BY <1>1, <1>5, <2>1 DEF StreamsPending, Scanning, Describing
<1>7. CASE PlainEntry
  <2>1. /\ section = "streams" /\ step = "next" /\ step' = "next" /\ todo # <<>> /\ entry.pat \notin Globs
        /\ todo' = Tail(todo) /\ pending' = pending
    BY <1>5, <1>7 DEF PlainEntry
  <2>2. todo \in Seq(Patterns)
    BY <2>1 DEF IInv, TypeInv, LoopType, Keyed
  <2>3. ToSet(todo) = {entry} \cup ToSet(todo')
    BY <2>1, <2>2, HeadTailFacts DEF entry
  <2>4. /\ pending = "streams" => GlobDbs(opts.checkStreams) # {}
        /\ pending = "yes" => \A e \in ToSet(opts.checkStreams) : e.pat \in Globs => e \in ToSet(todo)
    BY <1>5, <2>1 DEF StreamsPending
  <2>5. pending' = "yes" => \A e \in ToSet(opts'.checkStreams) : e.pat \in Globs => e \in ToSet(todo')
    BY <1>1, <2>1, <2>3, <2>4
  <2>6. QED
    BY <1>2, <1>5, <2>1, <2>4, <2>5 DEF StreamsPending, Scanning, Describing
<1>8. CASE ExpandEntry
  <2>1. /\ section = "streams" /\ step = "next" /\ step' \in {"next", "scan"} /\ todo # <<>>
        /\ entry.pat \in Globs /\ ReadPending(section)
    BY <1>5, <1>8 DEF ExpandEntry, BeginScan
  <2>2. todo \in Seq(Patterns)
    BY <2>1 DEF IInv, TypeInv, LoopType, Keyed
  <2>3. entry \in ToSet(todo)
    BY <2>1, <2>2, HeadTailFacts DEF entry
  <2>4. ToSet(todo) \subseteq ToSet(opts.checkStreams)
    BY <2>1 DEF Expansion, Expanding, Source
  <2>5. GlobDbs(opts.checkStreams) # {}
    BY <2>1, <2>3, <2>4, GlobFacts
  <2>6. pending' # "yes"
    BY <1>5, <2>1 DEF ReadPending
  <2>7. QED
    BY <1>2, <1>5, <2>1, <2>5, <2>6 DEF StreamsPending, Scanning, Describing
<1>9. CASE ScanBatch \/ ScanError \/ ScannedKeys
  <2>1. section = "streams" /\ step \in Scanning /\ step' \in {"next"} \cup Scanning
    BY <1>5, <1>9 DEF ScanBatch, ScanError, ScannedKeys, Scanning
  <2>2. pending # "yes" /\ (pending = "streams" => GlobDbs(opts.checkStreams) # {})
    BY <1>5, <2>1 DEF StreamsPending
  <2>3. pending' = pending
    BY <1>9, <2>2 DEF ScanBatch, ScanError, ScannedKeys, ReadPending
  <2>4. QED
    BY <1>2, <1>5, <2>1, <2>2, <2>3 DEF StreamsPending, Scanning, Describing
<1>10. CASE StreamsListed
  <2>1. /\ section = "streams" /\ step = "next" /\ todo = <<>> /\ step' = "select" /\ pending' = pending
        /\ todo' = opts.singleStreams \o expanded /\ expanded' = expanded
    BY <1>10 DEF StreamsListed, scanVars
  <2>2. ToSet(todo) = {}
    BY <2>1 DEF ToSet
  <2>3. pending = "yes" => GlobDbs(opts.checkStreams) = {}
    BY <1>5, <2>1, <2>2, GlobFacts DEF StreamsPending
  <2>4. todo' = opts'.singleStreams \o expanded'
    BY <1>1, <2>1
  <2>5. QED
    BY <1>2, <1>5, <2>1, <2>3, <2>4 DEF StreamsPending, Scanning, Describing
<1>11. CASE SelectStreamDb \/ XInfoStream \/ XInfoGroups \/ XInfoConsumers \/ RegisterStream
  <2>1. /\ section = "streams" /\ step \in Listed /\ step' \in Listed
        /\ ReadPending(section) \/ (RegisterStream /\ pending' = pending)
    BY <1>11 DEF SelectStreamDb, XInfoStream, XInfoGroups, XInfoConsumers, RegisterStream, NextStream,
                 Listed, Describing
  <2>2. pending' # "yes"
    <3>1. CASE ReadPending(section)
      BY <1>5, <2>1, <3>1 DEF ReadPending
    <3>2. CASE RegisterStream /\ pending' = pending
      BY <1>5, <2>1, <3>2 DEF RegisterStream, StreamsPending, Describing
    <3>3. QED
      BY <2>1, <3>1, <3>2
  <2>3. QED
    BY <1>5, <2>1, <2>2 DEF StreamsPending, Listed, Describing, Scanning
<1>12. CASE Environment \/ Terminated \/ UNCHANGED vars
  <2>1. UNCHANGED <<section, step, todo, expanded, pending>>
    BY <1>12 DEF Environment, OtherClient, Lose, Terminated, vars, scanVars
  <2>2. QED
    BY <1>1, <1>2, <1>5, <2>1 DEF StreamsPending
<1>13. CASE CountEntry \/ CountKeys \/ Gather \/ StreamsDone \/ SlowLog \/ KeyGroups \/ LuaScript \/ DirectoryNext
  <2>1. section' # "streams"
    BY <1>13 DEF CountEntry, CountKeys, Gather, StreamsDone, SlowLog, KeyGroups, LuaScript, DirectoryNext,
                 NotSentinel, SentinelMasters, CkQuorum, SentinelSentinels, SentinelSlaves,
                 SentinelConfig, SearchList, SearchInfo, SearchDone
  <2>2. QED
    BY <1>5, <2>1
<1>14. QED
  BY <1>6, <1>7, <1>8, <1>9, <1>10, <1>11, <1>12, <1>13 DEF Next, Exporter, KeyScanNext, StreamsNext

-----------------------------------------------------------------------------
(***************************************************************************)
(* Streams.                                                                *)
(***************************************************************************)
\* Each kind of stream has finitely many groups.
LEMMA GroupsFinite ==
    ASSUME NEW v \in Streams
    PROVE  IsFiniteSet(GroupsOf[v]) /\ IsFiniteSet(GroupsOf[v] \ {"odd"})
<1>1. v \in {"stream", "stream1", "stream2"}
  BY DEF Streams, GroupsOf
<1>2. GroupsOf[v] \in {{}, {"g"}, {"g", "odd"}}
  BY <1>1 DEF GroupsOf
<1>3. IsFiniteSet({}) /\ IsFiniteSet({"g"}) /\ IsFiniteSet({"odd"})
  BY FS_EmptySet, FS_Singleton
<1>4. IsFiniteSet({"g"} \cup {"odd"}) /\ {"g"} \cup {"odd"} = {"g", "odd"}
  BY <1>3, FS_Union
<1>5. IsFiniteSet(GroupsOf[v])
  BY <1>2, <1>3, <1>4
<1>6. QED
  BY <1>5, FS_Subset

\* A stream that stays holds what it held, and a description of it stays one.
LEMMA StaysKept ==
    ASSUME TypeInv, [Next]_vars, NEW e, Stays(e)'
    PROVE  /\ Stays(e) /\ e.db \in Dbs /\ e.pat \in Keys
           /\ store'[e.db][e.pat] = store[e.db][e.pat]
           /\ Described(e) => Described(e)'
<1>1. opts' = opts /\ acl' = acl /\ (alive = FALSE => alive' = FALSE) /\ alive \in BOOLEAN
  BY Frame DEF TypeInv, ServerType
<1>2. e.db \in Dbs /\ e.pat \in Keys /\ <<e.db, e.pat>> \notin touched' /\ ~SelectRefused(e.db)
  BY <1>1 DEF Stays, SelectRefused
<1>3. PICK d \in Dbs, k \in Keys : d = e.db /\ k = e.pat
  BY <1>2
<1>4. touched \subseteq touched' /\ (<<d, k>> \in touched' \/ store'[d][k] = store[d][k])
  BY Steady
<1>5. store'[e.db][e.pat] = store[e.db][e.pat] /\ <<e.db, e.pat>> \notin touched
  BY <1>2, <1>3, <1>4
<1>6. Stays(e)
  BY <1>2, <1>5 DEF Stays
<1>7. ToSet(out) \subseteq ToSet(out')
  BY OutStep DEF TypeInv, LoopType
<1>8. Described(e) => Described(e)'
  <2>1. \A gs : Registered(gs)' = Registered(gs)
    BY <1>1 DEF Registered
  <2>2. QED
    BY <1>5, <1>7, <2>1 DEF Described, Series, Pairs
<1>9. QED
  BY <1>2, <1>5, <1>6, <1>8

\* The stream at hand is looked for where it is.
LEMMA AtHandFacts ==
    ASSUME IInv, section = "streams", step \in Describing, NEW e, e = entry, Stays(e)
    PROVE  /\ selected = e.db /\ StreamHere /\ groups = GroupsOf[store[e.db][e.pat]]
           /\ store[e.db][e.pat] \in Streams
BY DEF IInv, InDb, Stays, StreamHere, groups, key

\* XINFO STREAM, XINFO GROUPS and XINFO CONSUMERS add what they are told to what is known.
LEMMA AtHandStep ==
    ASSUME IInv, StreamAtHand, [Next]_vars
    PROVE  StreamAtHand'
<1>1. section \in Keyed => info = Stream(info.n, info.left, info.groups)
  BY DEF StreamAtHand
<1> DEFINE Typed == section' \in Keyed => info' = Stream(info'.n, info'.left, info'.groups)
<1>2. ASSUME Typed, step' \notin {"groups", "consumers"} \/ section' # "streams" PROVE StreamAtHand'
  BY <1>2 DEF StreamAtHand
<1>3. NoInfo = Stream(NoInfo.n, NoInfo.left, NoInfo.groups) /\ NoInfo.groups = {}
  BY DEF NoInfo, Stream
<1>4. CASE KeyScanNext /\ UNCHANGED info
  <2>1. section \in Keyed /\ step' \notin {"groups", "consumers"}
    BY <1>4 DEF KeyScanNext, PlainEntry, ExpandEntry, CountEntry, ScanBatch, ScanError, ScannedKeys, BeginScan,
                CountKeys, Gather, CountDone, Keyed, Expanding, IInv, TypeInv, Places, SectionNames
  <2>2. QED
    BY <1>1, <1>2, <1>4, <2>1
<1>5. CASE StreamsListed \/ StreamsDone
  <2>1. section \in Keyed /\ step' \notin {"groups", "consumers"} /\ info' = info
    BY <1>5 DEF StreamsListed, StreamsDone, Keyed
  <2>2. QED
    BY <1>1, <1>2, <2>1
<1>6. CASE NextStream
  BY <1>2, <1>3, <1>6 DEF NextStream
<1>7. CASE SelectStreamDb /\ ~NextStream
  <2>1. section \in Keyed /\ step' \notin {"groups", "consumers"} /\ info' = info
    BY <1>7 DEF SelectStreamDb, Keyed
  <2>2. QED
    BY <1>1, <1>2, <2>1
<1>8. CASE XInfoStream /\ ~NextStream
  <2>1. /\ section = "streams" /\ step = "stream" /\ step' = "groups" /\ todo' = todo
        /\ info' = [NoInfo EXCEPT !.n = Cardinality(groups)]
    BY <1>8 DEF XInfoStream
  <2>2. info' = Stream(info'.n, info'.left, info'.groups) /\ info'.n = Cardinality(groups) /\ info'.groups = {}
    BY <1>3, <2>1 DEF NoInfo, Stream
  <2>3. entry' = entry
    BY <2>1 DEF entry
  <2>4. ASSUME NEW e \in {entry'}, Stays(e)' PROVE Known(e)'
    <3>1. Stays(e) /\ store'[e.db][e.pat] = store[e.db][e.pat]
      BY <2>4, StaysKept DEF IInv
    <3>2. groups = GroupsOf[store[e.db][e.pat]]
      BY <2>1, <2>3, <3>1, AtHandFacts DEF Describing
    <3>3. QED
      BY <2>1, <2>2, <3>1, <3>2 DEF Known
  <2>5. QED
    BY <2>2, <2>4 DEF StreamAtHand
<1>9. CASE XInfoGroups /\ ~NextStream
  <2> DEFINE q == SetToSeq(groups \ {"odd"})
  <2>1. /\ section = "streams" /\ step = "groups" /\ step' = "consumers" /\ todo' = todo
        /\ info' = [info EXCEPT !.left = q]
    BY <1>9 DEF XInfoGroups
  <2>2. info = Stream(info.n, info.left, info.groups)
    BY <1>1, <2>1 DEF Keyed
  <2> HIDE DEF q
  <2>3. /\ info' = Stream(info'.n, info'.left, info'.groups) /\ info'.n = info.n /\ info'.left = q
        /\ info'.groups = info.groups
    BY <2>1, <2>2 DEF Stream
  <2>4. entry' = entry
    BY <2>1 DEF entry
  <2>5. ASSUME NEW e \in {entry'}, Stays(e)' PROVE Known(e)'
    <3>1. Stays(e) /\ store'[e.db][e.pat] = store[e.db][e.pat]
      BY <2>5, StaysKept DEF IInv
    <3>2. groups = GroupsOf[store[e.db][e.pat]] /\ store[e.db][e.pat] \in Streams
      BY <2>1, <2>4, <3>1, AtHandFacts DEF Describing
    <3>3. Known(e)
      BY <2>1, <2>4, <3>1 DEF StreamAtHand
    <3>4. q \in Seq(groups \ {"odd"}) /\ ToSet(q) = groups \ {"odd"}
      BY <3>2, GroupsFinite, SetToSeqFacts DEF q
    <3>5. IsSeq(q)
      BY <3>4, SeqIsSeq
    <3>6. info'.n = Cardinality(groups) /\ info'.groups = {}
      BY <2>1, <2>3, <3>2, <3>3 DEF Known
    <3>7. info'.groups \cup Pairs(ToSet(info'.left)) = Pairs(groups \ {"odd"})
      BY <2>3, <3>4, <3>6
    <3>8. IsSeq(info'.left)
      BY <2>3, <3>5
    <3>9. QED
      BY <2>1, <3>1, <3>2, <3>6, <3>7, <3>8 DEF Known, Pairs
  <2>6. QED
    BY <2>3, <2>5 DEF StreamAtHand
<1>10. CASE XInfoConsumers /\ ~NextStream
  <2> DEFINE g == Head(info.left)
  <2>1. /\ section = "streams" /\ step = "consumers" /\ info.left # <<>> /\ step' = step /\ todo' = todo
        /\ info' = [info EXCEPT !.left = Tail(@), !.groups = @ \cup {<<g, Consumers \ {"odd"}>>}]
    BY <1>10 DEF XInfoConsumers
  <2>2. info = Stream(info.n, info.left, info.groups)
    BY <1>1, <2>1 DEF Keyed
  <2>3. Consumers \ {"odd"} = {"c"}
    BY DEF Consumers
  <2>4. /\ info' = Stream(info'.n, info'.left, info'.groups) /\ info'.n = info.n
        /\ info'.left = Tail(info.left) /\ info'.groups = info.groups \cup {<<g, {"c"}>>}
    BY <2>1, <2>2, <2>3 DEF Stream
  <2>5. entry' = entry
    BY <2>1 DEF entry
  <2>6. ASSUME NEW e \in {entry'}, Stays(e)' PROVE Known(e)'
    <3>1. Stays(e) /\ store'[e.db][e.pat] = store[e.db][e.pat]
      BY <2>6, StaysKept DEF IInv
    <3>2. Known(e)
      BY <2>1, <2>5, <3>1 DEF StreamAtHand
    <3>3. IsSeq(info.left)
      BY <2>1, <3>2 DEF Known
    <3>4. ToSet(info.left) = {g} \cup ToSet(Tail(info.left)) /\ IsSeq(Tail(info.left))
      BY <2>1, <3>3, HeadTailFacts, SeqIsSeq DEF IsSeq
    <3>5. Pairs(ToSet(info.left)) = {<<g, {"c"}>>} \cup Pairs(ToSet(Tail(info.left)))
      BY <3>4 DEF Pairs
    <3>6. info'.groups \cup Pairs(ToSet(info'.left)) = info.groups \cup Pairs(ToSet(info.left))
      BY <2>4, <3>5
    <3>7. IsSeq(info'.left)
      BY <2>4, <3>4
    <3>8. QED
      BY <2>1, <2>4, <3>1, <3>2, <3>6, <3>7 DEF Known, Pairs
  <2>7. QED
    BY <2>4, <2>6 DEF StreamAtHand
<1>11. CASE SlowLog \/ KeyGroups \/ LuaScript \/ DirectoryNext
  <2>1. section' \notin Keyed
    BY <1>11 DEF SlowLog, KeyGroups, LuaScript, DirectoryNext, Keyed,
                 NotSentinel, SentinelMasters, CkQuorum, SentinelSentinels, SentinelSlaves,
                 SentinelConfig, SearchList, SearchInfo, SearchDone
  <2>2. QED
    BY <1>2, <2>1 DEF Keyed
<1>12. CASE Environment \/ Terminated \/ UNCHANGED vars
  <2>1. UNCHANGED <<section, step, todo, info>>
    BY <1>12 DEF Environment, Terminated, vars
  <2>2. entry' = entry
    BY <2>1 DEF entry
  <2>3. ASSUME section = "streams", step \in {"groups", "consumers"}, NEW e \in {entry'}, Stays(e)'
        PROVE  Known(e)'
    <3>1. Stays(e) /\ store'[e.db][e.pat] = store[e.db][e.pat]
      BY <2>3, StaysKept DEF IInv
    <3>2. Known(e)
      BY <2>2, <2>3, <3>1 DEF StreamAtHand
    <3>3. QED
      BY <2>1, <3>1, <3>2 DEF Known, Pairs
  <2>4. QED
    BY <1>1, <2>1, <2>3 DEF StreamAtHand
<1>13. CASE RegisterStream
  BY <1>6, <1>13 DEF RegisterStream
<1>14. QED
  BY <1>4, <1>5, <1>6, <1>7, <1>8, <1>9, <1>10, <1>11, <1>12, <1>13 DEF Next, Exporter, StreamsNext

\* All but the first element.
LEMMA AllButFirst ==
    ASSUME NEW S, NEW s \in Seq(S)
    PROVE  ToSet(SubSeq(s, 2, Len(s))) \subseteq ToSet(s)
<1>1. Len(s) \in Nat /\ DOMAIN s = 1 .. Len(s)
  BY LenProperties
<1>2. ASSUME NEW x \in ToSet(SubSeq(s, 2, Len(s))) PROVE x \in ToSet(s)
  <2>1. PICK i \in DOMAIN SubSeq(s, 2, Len(s)) : x = SubSeq(s, 2, Len(s))[i]
    BY DEF ToSet
  <2>2. i + 1 \in DOMAIN s /\ x = s[i + 1]
    BY <1>1, <2>1
  <2>3. QED
    BY <2>2 DEF ToSet
<1>3. QED
  BY <1>2

\* No stream becomes wanted while the streams are described.
LEMMA WantedKept ==
    ASSUME TypeInv, [Next]_vars, pending' = pending \/ pending' = "streams"
    PROVE  Wanted' \subseteq Wanted
<1>1. opts' = opts /\ opts.singleStreams \in Seq(Entries)
  BY Frame DEF TypeInv, ServerType
<1> DEFINE s == opts.singleStreams
           c == opts.checkStreams
           All == UNION {{Entry(e.db, k) : k \in Match[e.pat]} : e \in ToSet(c)}
<1>2. Expandable("streams", c)' => Expandable("streams", c)
  <2>1. PICK t : t = c
    OBVIOUS
  <2>2. Expandable("streams", c)' => Expandable("streams", t)'
    BY <1>1, <2>1 DEF Expandable, GlobDbs, Refused, SelectRefused
  <2>3. Expandable("streams", t)' => Expandable("streams", t)
    BY ExpandableKept
  <2>4. QED
    BY <2>1, <2>2, <2>3
<1>3. GlobDbs(c)' = GlobDbs(c)
  BY <1>1 DEF GlobDbs
<1>4. ToSet(SubSeq(s, 2, Len(s))) \subseteq ToSet(s)
  BY <1>1, AllButFirst
<1>5. ToSet(Unharmed(s))' \subseteq ToSet(Unharmed(s))
  <2>1. Unharmed(s)' = IF pending' = "streams" /\ GlobDbs(c) = {} THEN SubSeq(s, 2, Len(s)) ELSE s
    BY <1>1, <1>3, Zenon DEF Unharmed
  <2>2. Unharmed(s) = IF pending = "streams" /\ GlobDbs(c) = {} THEN SubSeq(s, 2, Len(s)) ELSE s
    BY Zenon DEF Unharmed
  <2> DEFINE less == SubSeq(s, 2, Len(s))
  <2> HIDE DEF less, s
  <2>3. CASE Unharmed(s)' = less
    BY <1>4, <2>2, <2>3 DEF less, ToSet
  <2>4. CASE Unharmed(s)' = s /\ Unharmed(s) = s
    BY <2>4 DEF ToSet
  <2>5. QED
    BY <2>1, <2>2, <2>3, <2>4 DEF less
<1> HIDE DEF s, c, All
<1>6. Wanted' = ToSet(Unharmed(s))' \cup (IF pending' = "streams" \/ ~Expandable("streams", c)' THEN {} ELSE All)
  BY <1>1 DEF Wanted, s, c, All, Entry
<1>7. Wanted = ToSet(Unharmed(s)) \cup (IF pending = "streams" \/ ~Expandable("streams", c) THEN {} ELSE All)
  BY DEF Wanted, s, c, All, Entry
<1>8. (pending = "streams" \/ ~Expandable("streams", c)) => (pending' = "streams" \/ ~Expandable("streams", c)')
  BY <1>2
<1>9. QED
  BY <1>5, <1>6, <1>7, <1>8

\* A step of the loop over the streams: it may be done with the one at hand when that is
\* described, or does not stay.
LEMMA StreamsLeft ==
    ASSUME IInv, StreamsTold, [Next]_vars, section = "streams", step \in Listed,
           section' = "streams", pending' = pending \/ pending' = "streams",
           \/ todo' = todo
           \/ /\ todo # <<>> /\ todo' = Tail(todo)
              /\ \A e \in Wanted' : (e = entry /\ Stays(e)' /\ ~Refused("XINFO")) =>
                                       e \in ToSet(todo') \/ Described(e)'
    PROVE  StreamsTold'
<1>1. acl' = acl /\ alive \in BOOLEAN /\ (alive = FALSE => alive' = FALSE) /\ TypeInv
  BY Frame DEF IInv, TypeInv, ServerType
<1>2. ASSUME ~Refused("XINFO")', NEW e \in Wanted', Stays(e)'
      PROVE  e \in ToSet(todo') \/ Described(e)'
  <2>1. ~Refused("XINFO")
    BY <1>1, <1>2 DEF Refused
  <2>2. Stays(e) /\ e \in Wanted /\ (Described(e) => Described(e)')
    BY <1>1, <1>2, StaysKept, WantedKept
  <2>3. e \in ToSet(todo) \/ Described(e)
    BY <2>1, <2>2 DEF StreamsTold
  <2>4. CASE todo' = todo
    BY <2>2, <2>3, <2>4
  <2>5. CASE /\ todo # <<>> /\ todo' = Tail(todo)
             /\ \A x \in Wanted' : (x = entry /\ Stays(x)' /\ ~Refused("XINFO")) =>
                                      x \in ToSet(todo') \/ Described(x)'
    <3>1. todo \in Seq(Entries)
      BY <1>1 DEF TypeInv, LoopType
    <3>2. ToSet(todo) = {entry} \cup ToSet(todo')
      BY <2>5, <3>1, HeadTailFacts DEF entry
    <3>3. QED
      BY <1>2, <2>1, <2>2, <2>3, <2>5, <3>2
  <2>6. QED
    BY <2>4, <2>5
<1>3. QED
  BY <1>2 DEF StreamsTold

\* Every stream that is wanted and stays has been listed.
LEMMA StreamsListedStep ==
    ASSUME IInv, Expansion, [Next]_vars, StreamsListed
    PROVE  StreamsTold'
<1> DEFINE s == opts.singleStreams
           c == opts.checkStreams
<1>1. /\ section = "streams" /\ step = "next" /\ todo = <<>> /\ section' = "streams" /\ step' = "select"
      /\ pending' = pending /\ todo' = s \o expanded
  BY DEF StreamsListed
<1>2. TypeInv /\ s \in Seq(Entries) /\ c \in Seq(Patterns) /\ expanded \in Seq(Entries)
  BY DEF IInv, TypeInv, ServerType, LoopType
<1>3. ToSet(todo') = ToSet(s) \cup ToSet(expanded)
  BY <1>1, <1>2, ConcatFacts
<1>4. ToSet(todo) = {} /\ Source = c
  BY <1>1 DEF ToSet, Source
<1>5. (Expandable("streams", c) /\ pending # "streams") => \A x \in ToSet(c) : Needed(x) \subseteq ToSet(expanded)
  BY <1>1, <1>4 DEF Expansion, Expanding
<1>6. ToSet(c) \subseteq Patterns
  BY <1>2, SeqIsSeq
<1>7. ASSUME NEW e \in Wanted', Stays(e)' PROVE e \in ToSet(todo')
  <2>1. e \in Wanted /\ Stays(e) /\ e.db \in Dbs /\ e.pat \in Keys
    BY <1>1, <1>2, <1>7, StaysKept, WantedKept
  <2>2. CASE e \in ToSet(Unharmed(s))
    <3>1. ToSet(Unharmed(s)) \subseteq ToSet(s)
      <4>1. CASE Unharmed(s) = s
        BY <4>1
      <4>2. CASE Unharmed(s) = SubSeq(s, 2, Len(s))
        BY <1>2, <4>2, AllButFirst
      <4>3. QED
        BY <4>1, <4>2 DEF Unharmed
    <3>2. QED
      BY <1>3, <2>2, <3>1
  <2>3. CASE e \notin ToSet(Unharmed(s))
    <3>1. /\ pending # "streams" /\ Expandable("streams", c)
          /\ \E x \in ToSet(c) : \E k \in Match[x.pat] : e = Entry(x.db, k)
      BY <2>1, <2>3 DEF Wanted
    <3>2. PICK x \in ToSet(c) : \E k \in Match[x.pat] : e = Entry(x.db, k)
      BY <3>1
    <3>3. PICK k \in Match[x.pat] : e = Entry(x.db, k)
      BY <3>2
    <3>4. e.db = x.db /\ e.pat = k
      BY <3>3 DEF Entry
    <3>5. k \in Keys /\ store[x.db][k] \in Streams /\ <<x.db, k>> \notin touched
      BY <2>1, <3>4 DEF Stays
    <3>6. "none" \notin Streams
      BY DEF Streams, GroupsOf
    <3>7. k \in Lasting(x.db, x.pat)
      BY <3>3, <3>5, <3>6 DEF Lasting
    <3>8. x.pat \notin Globs => k = x.pat
      BY <1>6, <3>3, MatchAssumption DEF Patterns
    <3>9. e \in Needed(x)
      BY <3>3, <3>7, <3>8 DEF Needed
    <3>10. QED
      BY <1>3, <1>5, <3>1, <3>9
  <2>4. QED
    BY <2>2, <2>3
<1>8. QED
  BY <1>1, <1>7 DEF StreamsTold

\* The first stream, when an old error is reported for its SELECT, is not wanted any more.
LEMMA FirstLost ==
    ASSUME TypeInv, pending' = "streams", opts' = opts,
           GlobDbs(opts.checkStreams) = {}, todo = opts.singleStreams \o expanded, todo # <<>>
    PROVE  Wanted' \subseteq ToSet(Tail(todo))
<1> DEFINE s == opts.singleStreams
           t == s \o expanded
           less == SubSeq(s, 2, Len(s))
<1>1. s \in Seq(Entries) /\ expanded \in Seq(Entries)
  BY DEF TypeInv, ServerType, LoopType
<1>2. Wanted' = ToSet(less)
  <2>1. GlobDbs(opts.checkStreams)' = {}
    BY DEF GlobDbs
  <2>2. Unharmed(opts.singleStreams)' = less
    BY <2>1 DEF Unharmed
  <2>3. QED
    BY <2>2 DEF Wanted, ToSet
<1>3. /\ t \in Seq(Entries) /\ Len(t) = Len(s) + Len(expanded) /\ Len(s) \in Nat /\ Len(expanded) \in Nat
      /\ \A i \in 1 .. Len(s) : t[i] = s[i]
  BY <1>1, ConcatProperties, LenProperties
<1>4. t # <<>>
  OBVIOUS
<1> HIDE DEF t
<1>5. /\ Tail(t) \in Seq(Entries) /\ Len(Tail(t)) = Len(t) - 1
      /\ \A i \in 1 .. Len(Tail(t)) : Tail(t)[i] = t[i + 1]
  BY <1>3, <1>4, HeadTailProperties
<1>6. DOMAIN Tail(t) = 1 .. Len(t) - 1
  BY <1>5, LenProperties
<1>7. ASSUME NEW x \in ToSet(less) PROVE x \in ToSet(Tail(t))
  <2>1. PICK i \in DOMAIN less : x = less[i]
    BY DEF ToSet
  <2>2. i \in 1 .. Len(s) - 1 /\ x = s[i + 1]
    BY <1>1, <1>3, <2>1
  <2>3. i \in 1 .. Len(Tail(t)) /\ i + 1 \in 1 .. Len(s)
    BY <1>3, <1>5, <2>2
  <2>4. i \in DOMAIN Tail(t) /\ Tail(t)[i] = x
    BY <1>3, <1>5, <1>6, <2>2, <2>3
  <2>5. QED
    BY <2>4 DEF ToSet
<1>8. QED
  BY <1>2, <1>7 DEF t

\* SELECT fails only for a stream that cannot be described, or that the old error costs.
LEMMA SelectStep ==
    ASSUME IInv, StreamsPending, StreamsTold, [Next]_vars, SelectStreamDb
    PROVE  StreamsTold'
<1>1. /\ section = "streams" /\ step = "select" /\ section' = "streams" /\ step \in Listed /\ todo # <<>>
      /\ ReadPending(section) /\ alive' = alive
      /\ todo' = todo \/ (SelectFails(entry.db) /\ todo' = Tail(todo))
  BY DEF SelectStreamDb, NextStream, Listed, serverVars
<1>2. pending' = pending \/ pending' = "streams"
  BY <1>1 DEF ReadPending
<1>3. CASE todo' = todo
  BY <1>1, <1>2, <1>3, StreamsLeft
<1>4. CASE SelectFails(entry.db) /\ todo' = Tail(todo)
  <2>1. ASSUME NEW e \in Wanted', e = entry, Stays(e)', ~Refused("XINFO")
        PROVE  e \in ToSet(todo') \/ Described(e)'
    <3>1. ~SelectRefused(entry.db) /\ alive
      BY <2>1, StaysKept DEF IInv, Stays, Refused
    <3>2. pending = "yes" /\ pending' = "streams"
      BY <1>1, <1>4, <3>1 DEF SelectFails, ReadPending
    <3>3. GlobDbs(opts.checkStreams) = {} /\ todo = opts.singleStreams \o expanded
      BY <1>1, <3>1, <3>2 DEF StreamsPending
    <3>4. QED
      BY <1>1, <1>4, <2>1, <3>2, <3>3, FirstLost, Frame DEF IInv
  <2>2. QED
    BY <1>1, <1>2, <1>4, <2>1, StreamsLeft
<1>5. QED
  BY <1>1, <1>3, <1>4

\* XINFO fails only for a stream that does not stay.
LEMMA DescribeStep ==
    ASSUME IInv, StreamsPending, StreamAtHand, StreamsTold, [Next]_vars,
           XInfoStream \/ XInfoGroups \/ XInfoConsumers
    PROVE  StreamsTold'
<1>1. /\ section = "streams" /\ step \in Describing /\ section' = "streams" /\ step \in Listed
      /\ ReadPending(section) /\ todo' \in {todo, Tail(todo)}
  BY DEF XInfoStream, XInfoGroups, XInfoConsumers, NextStream, Listed, Describing
<1>2. pending' = pending \/ pending' = "streams"
  BY <1>1 DEF ReadPending
<1>3. todo # <<>>
  BY <1>1 DEF IInv, TypeInv, LoopType
<1>4. CASE todo' = todo
  BY <1>1, <1>2, <1>4, StreamsLeft
<1>5. CASE todo' = Tail(todo)
  <2>1. ASSUME NEW e \in Wanted', e = entry, Stays(e)', ~Refused("XINFO")
        PROVE  e \in ToSet(todo') \/ Described(e)'
    <3>1. Stays(e)
      BY <2>1, StaysKept DEF IInv
    <3>2. StreamHere /\ groups = GroupsOf[store[e.db][e.pat]]
      BY <1>1, <2>1, <3>1, AtHandFacts
    <3>3. ~Fails("XINFO")
      BY <1>1, <2>1 DEF Fails, Refused, StreamsPending
    <3>4. ASSUME XInfoConsumers PROVE Head(info.left) \in groups
      <4>1. step = "consumers" /\ info.left # <<>>
        BY <3>4 DEF XInfoConsumers
      <4>2. Known(e)
        BY <1>1, <2>1, <3>1, <4>1 DEF StreamAtHand
      <4>3. IsSeq(info.left) /\ Pairs(ToSet(info.left)) \subseteq Pairs(groups \ {"odd"})
        BY <3>2, <4>1, <4>2 DEF Known
      <4>4. Head(info.left) \in ToSet(info.left)
        BY <4>1, <4>3, HeadTailFacts DEF IsSeq
      <4>5. <<Head(info.left), {"c"}>> \in Pairs(groups \ {"odd"})
        BY <4>3, <4>4 DEF Pairs
      <4>6. QED
        BY <4>5 DEF Pairs
    <3>5. todo' = todo
      BY <3>2, <3>3, <3>4 DEF XInfoStream, XInfoGroups, XInfoConsumers
    <3>6. todo \in Seq(Entries)
      BY <1>1 DEF IInv, TypeInv, LoopType
    <3>7. entry \in ToSet(todo)
      BY <1>3, <3>6, HeadTailFacts DEF entry
    <3>8. QED
      BY <2>1, <3>5, <3>7
  <2>2. QED
    BY <1>1, <1>2, <1>3, <1>5, <2>1, StreamsLeft
<1>6. QED
  BY <1>1, <1>4, <1>5

\* What is registered of a stream that stays is right.
LEMMA RegisterStep ==
    ASSUME IInv, StreamAtHand, StreamsTold, [Next]_vars, RegisterStream
    PROVE  StreamsTold'
<1>1. /\ section = "streams" /\ step = "consumers" /\ section' = "streams" /\ step \in Listed
      /\ pending' = pending /\ todo' = Tail(todo) /\ info.left = <<>> /\ store' = store /\ opts' = opts
      /\ out' = Append(out, StreamRecord)
  BY DEF RegisterStream, NextStream, Listed, Describing, StreamRecord, serverVars
<1>2. todo # <<>> /\ IsSeq(out)
  BY <1>1 DEF IInv, TypeInv, LoopType, Describing
<1>3. StreamRecord \in ToSet(out')
  BY <1>1, <1>2, AppendFacts
<1>4. ASSUME NEW e \in Wanted', e = entry, Stays(e)' PROVE Described(e)'
  <2>1. Stays(e)
    BY <1>4, StaysKept DEF IInv
  <2>2. Known(e)
    BY <1>1, <1>4, <2>1 DEF StreamAtHand
  <2> DEFINE gs == GroupsOf[store[e.db][e.pat]]
  <2>3. Pairs(ToSet(info.left)) = {}
    BY <1>1 DEF ToSet, Pairs
  <2>4. info.n = Cardinality(gs) /\ info.groups = Pairs(gs \ {"odd"})
    BY <1>1, <2>2, <2>3 DEF Known
  <2>5. /\ StreamRecord.name = "stream" /\ StreamRecord.db = e.db /\ StreamRecord.key = e.pat
        /\ StreamRecord.value = Cardinality(gs) /\ StreamRecord.groups = Registered(Pairs(gs \ {"odd"}))
    BY <1>4, <2>4 DEF StreamRecord, key
  <2> HIDE DEF gs
  <2>6. PICK r \in ToSet(out') : r.name = "stream" /\ r.db = e.db /\ r.key = e.pat
          /\ r.value = Cardinality(gs) /\ r.groups = Registered(Pairs(gs \ {"odd"}))
    BY <1>3, <2>5
  <2>7. Registered(Pairs(gs \ {"odd"}))' = Registered(Pairs(gs \ {"odd"}))
    BY <1>1 DEF Registered, Pairs, gs
  <2>8. r \in Series("stream")'
    BY <2>6 DEF Series
  <2>9. QED
    BY <1>1, <2>6, <2>7, <2>8 DEF Described, gs
<1>5. QED
  BY <1>1, <1>2, <1>4, StreamsLeft

\* Every step keeps what is told of the streams.
LEMMA StreamsStep ==
    ASSUME IInv, Expansion, StreamsPending, StreamAtHand, StreamsTold, [Next]_vars
    PROVE  StreamsTold'
<1>1. CASE StreamsListed
  BY <1>1, StreamsListedStep
<1>2. CASE SelectStreamDb
  BY <1>2, SelectStep
<1>3. CASE XInfoStream \/ XInfoGroups \/ XInfoConsumers
  BY <1>3, DescribeStep
<1>4. CASE RegisterStream
  BY <1>4, RegisterStep
<1>5. ASSUME section' # "slowlog", ~(section' = "streams" /\ step' \in Listed) PROVE StreamsTold'
  BY <1>5 DEF StreamsTold
<1>6. ASSUME ~Refused("XINFO")' PROVE ~Refused("XINFO")
  <2>1. acl' = acl /\ alive \in BOOLEAN /\ (alive = FALSE => alive' = FALSE)
    BY Frame DEF IInv, TypeInv, ServerType
  <2>2. QED
    BY <1>6, <2>1 DEF Refused
<1>7. CASE StreamsDone
  <2>1. section = "streams" /\ step \in Listed /\ todo = <<>> /\ section' = "slowlog" /\ pending' = pending
    BY <1>7 DEF StreamsDone, Listed
  <2>2. ToSet(todo) = {}
    BY <2>1 DEF ToSet
  <2>3. ASSUME ~Refused("XINFO")', NEW e \in Wanted', Stays(e)' PROVE Described(e)'
    <3>1. e \in Wanted /\ Stays(e) /\ (Described(e) => Described(e)')
      BY <2>1, <2>3, StaysKept, WantedKept DEF IInv
    <3>2. QED
      BY <1>6, <2>1, <2>2, <2>3, <3>1 DEF StreamsTold
  <2>4. QED
    BY <2>1, <2>3 DEF StreamsTold
<1>8. CASE Environment \/ Terminated \/ UNCHANGED vars
  <2>1. UNCHANGED <<section, step, todo, pending>>
    BY <1>8 DEF Environment, OtherClient, Lose, Terminated, vars
  <2>2. CASE section = "streams" /\ step \in Listed
    BY <2>1, <2>2, StreamsLeft
  <2>3. CASE section = "slowlog"
    <3>1. ASSUME ~Refused("XINFO")', NEW e \in Wanted', Stays(e)' PROVE Described(e)'
      <4>1. e \in Wanted /\ Stays(e) /\ (Described(e) => Described(e)')
        BY <2>1, <3>1, StaysKept, WantedKept DEF IInv
      <4>2. QED
        BY <1>6, <2>3, <3>1, <4>1 DEF StreamsTold
    <3>2. QED
      BY <2>1, <2>3, <3>1 DEF StreamsTold
  <2>4. CASE section # "slowlog" /\ ~(section = "streams" /\ step \in Listed)
    BY <1>5, <2>1, <2>4
  <2>5. QED
    BY <2>2, <2>3, <2>4
<1>9. CASE KeyScanNext
  <2>1. section' \in Keyed /\ (section' = "streams" => step' \in {"next"} \cup Scanning)
    BY <1>9 DEF KeyScanNext, PlainEntry, ExpandEntry, CountEntry, ScanBatch, ScanError, ScannedKeys, BeginScan,
                CountKeys, Gather, CountDone, Keyed, Expanding, Scanning, IInv, TypeInv, Places, SectionNames
  <2>2. QED
    BY <1>5, <2>1 DEF Keyed, Listed, Describing, Scanning
<1>10. CASE SlowLog \/ KeyGroups \/ LuaScript \/ DirectoryNext
  <2>1. section' \notin {"streams", "slowlog"}
    BY <1>10 DEF SlowLog, KeyGroups, LuaScript, DirectoryNext,
                 NotSentinel, SentinelMasters, CkQuorum, SentinelSentinels, SentinelSlaves,
                 SentinelConfig, SearchList, SearchInfo, SearchDone
  <2>2. QED
    BY <1>5, <2>1
<1>11. QED
  BY <1>1, <1>2, <1>3, <1>4, <1>7, <1>8, <1>9, <1>10 DEF Next, Exporter, StreamsNext

-----------------------------------------------------------------------------
\* The initial state satisfies the invariant.
LEMMA ListInitially == Init => ListInv
<1> SUFFICES ASSUME Init PROVE ListInv
  OBVIOUS
<1>1. /\ section = "checkKeys" /\ step = "next" /\ pending = "no"
      /\ info = Stream(0, <<>>, {})
      /\ \A m \in DOMAIN masters : masters[m].quorum \in BOOLEAN
  BY ScenariosAssumption DEF Init, ServerInit, ScanInit, NoInfo
<1>2. info = Stream(info.n, info.left, info.groups)
  BY <1>1 DEF Stream
<1>3. Read /\ MastersTold /\ IndexesTold
  BY <1>1 DEF Read, MastersTold, IndexesTold, Keyed
<1>4. StreamsPending /\ StreamAtHand /\ StreamsTold
  BY <1>1, <1>2 DEF StreamsPending, StreamAtHand, StreamsTold
<1>5. QED
  BY <1>3, <1>4 DEF ListInv

\* The inductive invariant of the three listings.
THEOREM ListInvariant == Spec => []ListInv
<1>1. ListInv /\ IInv /\ ScanInv /\ [Next]_vars => ListInv'
  <2> SUFFICES ASSUME ListInv, IInv, ScanInv, [Next]_vars PROVE ListInv'
    OBVIOUS
  <2>1. TypeInv /\ Read /\ MastersTold /\ IndexesTold /\ StreamsPending /\ StreamAtHand /\ StreamsTold
        /\ Expansion
    BY DEF ListInv, IInv, ScanInv
  <2>2. Read' /\ MastersTold' /\ IndexesTold'
    BY <2>1, ReadStep, MastersStep, IndexesStep
  <2>3. StreamsPending' /\ StreamAtHand' /\ StreamsTold'
    BY <2>1, StreamsPendingStep, AtHandStep, StreamsStep
  <2>4. QED
    BY <2>2, <2>3 DEF ListInv
<1>2. QED
  BY <1>1, ListInitially, ScanInvariant, PTL DEF Spec

\* A stream nobody touches is exported with its groups and consumers (extractStreamMetrics,
\* scanStreamGroups and scanStreamGroupConsumers), whatever happens to the streams around it.
THEOREM StreamsExact == Spec => []StreamExact
<1>1. ListInv => StreamExact
  <2> SUFFICES ASSUME ListInv, section = "slowlog", ~Refused("XINFO"), NEW e \in Wanted,
                      e.pat \in Keys, ~SelectRefused(e.db), store[e.db][e.pat] \in Streams,
                      <<e.db, e.pat>> \notin touched
               PROVE  \E r \in Series("stream") :
                          /\ r.db = e.db /\ r.key = e.pat
                          /\ r.value = Cardinality(GroupsOf[store[e.db][e.pat]])
                          /\ r.groups = Registered({<<g, {"c"}>> : g \in GroupsOf[store[e.db][e.pat]] \ {"odd"}})
    BY DEF StreamExact
  <2>1. Described(e)
    BY DEF ListInv, StreamsTold, Stays
  <2>2. QED
    BY <2>1 DEF Described, Pairs
<1>2. QED
  BY <1>1, ListInvariant, PTL

\* Masters that stay are exported with their quorum, sentinels and replicas, and indexes are unless
\* one is removed meanwhile (extractSentinelMetrics, extractSearchIndexesMetrics).
THEOREM DirectoriesExact == Spec => []DirectoryExact
<1>1. ListInv => DirectoryExact
  <2> SUFFICES ASSUME ListInv, section = "end", Unhindered PROVE DirectoryExact
    BY DEF DirectoryExact, Unhindered
  <2>1. opts.sentinel => \A m \in NamedMasters : QuorumTold(m) /\ SentinelsTold(m) /\ SlavesTold(m)
    BY DEF ListInv, MastersTold, MasterTold
  <2>2. changes = 0 => \A i \in WantedIndexes : IndexTold(i)
    BY DEF ListInv, IndexesTold
  <2>3. opts.sentinel => \A m \in DOMAIN masters : masters[m].named =>
            /\ \E r \in Series("ckquorum_status") : r.key = m /\ (r.value = 1) = masters[m].quorum
            /\ \E r \in Series("ok_sentinels") : r.key = m /\ r.value = 1 + OkOnes(masters[m].sentinels)
            /\ \E r \in Series("ok_slaves") : r.key = m /\ r.value = OkOnes(masters[m].slaves)
    BY <2>1 DEF NamedMasters, QuorumTold, SentinelsTold, SlavesTold
  <2>4. \A i \in DOMAIN indexes \cap opts.search :
            (indexes[i] = "ok" /\ changes = 0) => \E r \in Series("search_index") : r.key = i
    BY <2>2 DEF WantedIndexes, IndexTold
  <2>5. QED
    BY <2>3, <2>4 DEF DirectoryExact
<1>2. QED
  BY <1>1, ListInvariant, PTL
=============================================================================
