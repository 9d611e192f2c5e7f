--------------------------- MODULE InfoTextProofs ---------------------------
(***************************************************************************)
(* The lemmas on which the proofs about ServerMetrics rest.                *)
(*                                                                         *)
(*  - What a step sends: registering metrics adds their series and no      *)
(*    others (Sends, metrics.go 84-137), for each kind of line of INFO and *)
(*    for the lines of the other sections.                                 *)
(*  - What INFO's text is: a nest of concatenations is shown to be a       *)
(*    sequence of headings and marked lines (IsText) in which every fact   *)
(*    about the server has one line and a master's lines follow each other.*)
(*  - What the walk over it (info.go 69-160) remembers: the fields, the    *)
(*    commands and the databases of the lines it has seen, and the address *)
(*    of the master whose block it is in (WalkOk).                         *)
(***************************************************************************)
EXTENDS ServerMetrics, TLAPS, FiniteSetTheorems, SequenceTheorems, WellFoundedInduction

-----------------------------------------------------------------------------
(***************************************************************************)
(* Sequences.                                                              *)
(***************************************************************************)
IsSeq(s) == s \in Seq(ToSet(s))

\* A sequence of elements of S is a sequence.
LEMMA SeqIsSeq ==
    ASSUME NEW S, NEW s \in Seq(S)
    PROVE  IsSeq(s) /\ ToSet(s) \subseteq S
<1>1. \A i \in 1 .. Len(s) : s[i] \in ToSet(s)
  BY DEF ToSet
<1>2. QED
  BY <1>1 DEF IsSeq, ToSet

\* What is known of any sequence.
LEMMA SeqFacts ==
    ASSUME NEW s, IsSeq(s)
    PROVE  /\ Len(s) \in Nat /\ DOMAIN s = 1 .. Len(s)
           /\ s = <<>> <=> Len(s) = 0
           /\ \A i \in 1 .. Len(s) : s[i] \in ToSet(s)
           /\ \A x \in ToSet(s) : \E i \in 1 .. Len(s) : s[i] = x
<1>1. Len(s) \in Nat /\ DOMAIN s = 1 .. Len(s)
  BY LenProperties DEF IsSeq
<1>2. s = <<>> <=> Len(s) = 0
  BY EmptySeq DEF IsSeq
<1>3. QED
  BY <1>1, <1>2 DEF ToSet

\* A function on 1 .. n is a sequence.
LEMMA TableFacts ==
    ASSUME NEW n \in Nat, NEW s, DOMAIN s = 1 .. n, s = [i \in 1 .. n |-> s[i]]
    PROVE  IsSeq(s) /\ Len(s) = n
<1>1. s \in [1 .. n -> ToSet(s)]
  BY DEF ToSet
<1>2. s \in Seq(ToSet(s))
  BY <1>1
<1>3. Len(s) = n
  BY <1>2, LenProperties
<1>4. QED
  BY <1>2, <1>3 DEF IsSeq

\* Concatenation.
LEMMA ConcatFacts ==
    ASSUME NEW s, IsSeq(s), NEW t, IsSeq(t)
    PROVE  /\ IsSeq(s \o t) /\ Len(s \o t) = Len(s) + Len(t)
           /\ Len(s) \in Nat /\ Len(t) \in Nat
           /\ \A i \in 1 .. Len(s) : (s \o t)[i] = s[i]
           /\ \A i \in 1 .. Len(t) : (s \o t)[Len(s) + i] = t[i]
           /\ ToSet(s \o t) = ToSet(s) \cup ToSet(t)
<1> DEFINE S == ToSet(s) \cup ToSet(t)
<1>1. s \in Seq(S) /\ t \in Seq(S)
  BY SeqMonotonic DEF IsSeq
<1> HIDE DEF S
<1>2. /\ s \o t \in Seq(S) /\ Len(s \o t) = Len(s) + Len(t) /\ Len(s) \in Nat /\ Len(t) \in Nat
      /\ \A i \in 1 .. Len(s) + Len(t) :
            (s \o t)[i] = IF i <= Len(s) THEN s[i] ELSE t[i - Len(s)]
  BY <1>1, ConcatProperties, LenProperties
<1>3. /\ \A i \in 1 .. Len(s) : (s \o t)[i] = s[i]
      /\ \A i \in 1 .. Len(t) : (s \o t)[Len(s) + i] = t[i]
  BY <1>2
<1>4. IsSeq(s \o t)
  BY <1>2, SeqIsSeq
<1>5. ASSUME NEW x \in ToSet(s \o t) PROVE x \in ToSet(s) \cup ToSet(t)
  <2>1. PICK i \in 1 .. Len(s \o t) : (s \o t)[i] = x
    BY <1>4, SeqFacts
  <2>2. i <= Len(s) => s[i] = x /\ i \in 1 .. Len(s)
    BY <1>2, <2>1
  <2>3. ~(i <= Len(s)) => t[i - Len(s)] = x /\ i - Len(s) \in 1 .. Len(t)
    BY <1>2, <2>1
  <2>4. QED
    BY <2>2, <2>3, SeqFacts
<1>6. ASSUME NEW x \in ToSet(s) \cup ToSet(t) PROVE x \in ToSet(s \o t)
  <2>1. CASE x \in ToSet(s)
    <3>1. PICK i \in 1 .. Len(s) : s[i] = x
      BY <2>1, SeqFacts
    <3>2. i \in 1 .. Len(s \o t) /\ (s \o t)[i] = x
      BY <1>2, <1>3, <3>1
    <3>3. QED
      BY <1>4, <3>2, SeqFacts
  <2>2. CASE x \in ToSet(t)
    <3>1. PICK i \in 1 .. Len(t) : t[i] = x
      BY <2>2, SeqFacts
    <3>2. Len(s) + i \in 1 .. Len(s \o t) /\ (s \o t)[Len(s) + i] = x
      BY <1>2, <1>3, <3>1
    <3>3. QED
      BY <1>4, <3>2, SeqFacts
  <2>3. QED
    BY <2>1, <2>2
<1>7. QED
  BY <1>2, <1>3, <1>4, <1>5, <1>6

\* The first element and the others.
LEMMA HeadTailFacts ==
    ASSUME NEW s, IsSeq(s), s # <<>>
    PROVE  /\ Head(s) = s[1] /\ Head(s) \in ToSet(s)
           /\ IsSeq(Tail(s)) /\ Len(s) \in Nat /\ Len(s) > 0 /\ Len(Tail(s)) = Len(s) - 1
           /\ \A i \in 1 .. Len(s) - 1 : Tail(s)[i] = s[i + 1]
           /\ ToSet(Tail(s)) \subseteq ToSet(s)
<1>1. /\ Head(s) = s[1] /\ Tail(s) \in Seq(ToSet(s)) /\ Len(s) \in Nat /\ Len(s) > 0
      /\ Len(Tail(s)) = Len(s) - 1
      /\ \A i \in 1 .. Len(s) - 1 : Tail(s)[i] = s[i + 1]
  BY HeadTailProperties, EmptySeq, LenProperties DEF IsSeq
<1>2. Head(s) \in ToSet(s)
  BY <1>1, SeqFacts
<1>3. IsSeq(Tail(s)) /\ ToSet(Tail(s)) \subseteq ToSet(s)
  BY <1>1, SeqIsSeq
<1>4. QED
  BY <1>1, <1>2, <1>3

\* What is in a set with 0 and, with each number, the next one.
LEMMA NatSetInduction ==
    ASSUME NEW N, 0 \in N, \A k \in Nat : k \in N => k + 1 \in N
    PROVE  \A n \in Nat : n \in N
<1> DEFINE Bad == {k \in Nat : k \notin N}
           R == OpToRel(<, Nat)
<1> SUFFICES ASSUME Bad # {} PROVE FALSE
  OBVIOUS
<1>1. PICK k \in Bad : \A y \in Bad : ~(<<y, k>> \in R)
  <2>1. Bad \subseteq Nat
    OBVIOUS
  <2> HIDE DEF Bad
  <2>2. QED
    BY <2>1, NatLessThanWellFounded, WFMin, Zenon
<1>2. k \in Nat /\ k # 0
  OBVIOUS
<1>3. k - 1 \in Nat /\ (k - 1) + 1 = k
  BY <1>2
<1>4. k - 1 \in Bad
  BY <1>1, <1>3
<1>5. <<k - 1, k>> \in R
  BY <1>2, <1>3, SMT DEF OpToRel
<1>6. QED
  BY <1>1, <1>4, <1>5

\* f is the recursive function by which FlattenSeq(ss) is defined.
Flattens(ss, n, f) == f = [i \in 1 .. n |-> IF i = 1 THEN ss[i] ELSE f[i - 1] \o ss[i]]

\* FlattenSeq of a sequence that is not empty is the last of its partial concatenations.
LEMMA FlattenMeaning ==
    ASSUME NEW ss, Len(ss) # 0
    PROVE  FlattenSeq(ss) = (CHOOSE f : Flattens(ss, Len(ss), f))[Len(ss)]
BY Zenon DEF FlattenSeq, Flattens

\* The partial concatenations exist.
LEMMA FlattensExists ==
    ASSUME NEW ss, NEW n \in Nat
    PROVE  \E f : Flattens(ss, n, f)
<1> DEFINE N == {k \in Nat : \E f : Flattens(ss, k, f)}
<1>1. 0 \in N
  <2> DEFINE f == [i \in 1 .. 0 |-> 0]
  <2>1. Flattens(ss, 0, f)
    BY DEF Flattens
  <2>2. QED
    BY <2>1
<1>2. ASSUME NEW k \in Nat, k \in N PROVE k + 1 \in N
  <2>1. PICK f : Flattens(ss, k, f)
    BY <1>2
  <2> DEFINE last == IF k = 0 THEN ss[1] ELSE f[k] \o ss[k + 1]
             g == [i \in 1 .. k + 1 |-> IF i = k + 1 THEN last ELSE f[i]]
  <2>2. f = [i \in 1 .. k |-> IF i = 1 THEN ss[i] ELSE f[i - 1] \o ss[i]]
    BY <2>1 DEF Flattens
  <2> HIDE DEF last
  <2>3. \A i \in 1 .. k : g[i] = f[i] /\ i \in 1 .. k + 1
    OBVIOUS
  <2>4. g[k + 1] = last
    OBVIOUS
  <2>5. \A i \in 1 .. k + 1 : g[i] = IF i = 1 THEN ss[i] ELSE g[i - 1] \o ss[i]
    <3> SUFFICES ASSUME NEW i \in 1 .. k + 1
                 PROVE  g[i] = IF i = 1 THEN ss[i] ELSE g[i - 1] \o ss[i]
      OBVIOUS
    <3>1. CASE i = k + 1 /\ k = 0
      BY <3>1, <2>4 DEF last
    <3>2. CASE i = k + 1 /\ k # 0
      <4>1. k \in 1 .. k /\ i - 1 = k /\ i # 1
        BY <3>2
      <4>2. QED
        BY <3>2, <4>1, <2>3, <2>4 DEF last
    <3>3. CASE i # k + 1
      <4>1. i \in 1 .. k /\ (i # 1 => i - 1 \in 1 .. k)
        BY <3>3
      <4> HIDE DEF g
      <4>2. f[i] = IF i = 1 THEN ss[i] ELSE f[i - 1] \o ss[i]
        BY <4>1, <2>2
      <4>3. QED
        BY <4>1, <4>2, <2>3
    <3>4. QED
      BY <3>1, <3>2, <3>3
  <2>6. DOMAIN g = 1 .. k + 1 /\ g = [i \in 1 .. k + 1 |-> g[i]]
    OBVIOUS
  <2> HIDE DEF g
  <2>7. Flattens(ss, k + 1, g)
    BY <2>5, <2>6, Zenon DEF Flattens
  <2>8. QED
    BY <2>7
<1>3. n \in N
  <2> HIDE DEF N
  <2>1. QED
    BY <1>1, <1>2, NatSetInduction
<1>4. QED
  BY <1>3

\* The elements of a flattened sequence: each comes from a place in one of the sequences, and two
\* of them from two places in their order.
Place(ss, i, c, x) == i \in DOMAIN ss /\ c \in DOMAIN ss[i] /\ ss[i][c] = x

FlatUpTo(ss, k, q) ==
    /\ IsSeq(q)
    /\ \A x : x \in ToSet(q) <=> \E i \in 1 .. k : x \in ToSet(ss[i])
    /\ \A a, b \in DOMAIN q : a < b =>
          \E i, j \in 1 .. k : \E c, d \in Nat :
             /\ Place(ss, i, c, q[a]) /\ Place(ss, j, d, q[b])
             /\ i < j \/ (i = j /\ c < d)

\* One more concatenation keeps the elements and their order.
LEMMA FlatStep ==
    ASSUME NEW ss, NEW k \in Nat, 1 .. k + 1 \subseteq DOMAIN ss,
           \A i \in 1 .. k + 1 : IsSeq(ss[i]), NEW q, FlatUpTo(ss, k, q)
    PROVE  FlatUpTo(ss, k + 1, q \o ss[k + 1])
<1> DEFINE t == ss[k + 1]
           r == q \o t
<1>1. IsSeq(q) /\ IsSeq(t)
  BY DEF FlatUpTo
<1>2. /\ IsSeq(r) /\ Len(r) = Len(q) + Len(t) /\ Len(q) \in Nat /\ Len(t) \in Nat
      /\ \A i \in 1 .. Len(q) : r[i] = q[i]
      /\ \A i \in 1 .. Len(t) : r[Len(q) + i] = t[i]
      /\ ToSet(r) = ToSet(q) \cup ToSet(t)
  <2> HIDE DEF t
  <2>1. QED
    BY <1>1, ConcatFacts
<1>3. DOMAIN q = 1 .. Len(q) /\ DOMAIN t = 1 .. Len(t) /\ DOMAIN r = 1 .. Len(r)
  <2> HIDE DEF t, r
  <2>1. QED
    BY <1>1, <1>2, SeqFacts
<1>4. ASSUME NEW x PROVE x \in ToSet(r) <=> \E i \in 1 .. k + 1 : x \in ToSet(ss[i])
  <2>1. x \in ToSet(q) <=> \E i \in 1 .. k : x \in ToSet(ss[i])
    BY DEF FlatUpTo
  <2> HIDE DEF r
  <2>2. \A i \in 1 .. k + 1 : i \in 1 .. k \/ i = k + 1
    OBVIOUS
  <2>3. (1 .. k) \cup {k + 1} = 1 .. k + 1
    OBVIOUS
  <2>4. QED
    BY <1>2, <2>1, <2>2, <2>3
<1>5. ASSUME NEW a \in DOMAIN r, NEW b \in DOMAIN r, a < b
      PROVE  \E i, j \in 1 .. k + 1 : \E c, d \in Nat :
                /\ Place(ss, i, c, r[a]) /\ Place(ss, j, d, r[b])
                /\ i < j \/ (i = j /\ c < d)
  <2> HIDE DEF r
  <2>1. CASE b <= Len(q)
    <3>1. a \in DOMAIN q /\ b \in DOMAIN q /\ r[a] = q[a] /\ r[b] = q[b]
      BY <1>2, <1>3, <1>5, <2>1
    <3>2. PICK i \in 1 .. k, j \in 1 .. k : \E c, d \in Nat :
             /\ Place(ss, i, c, q[a]) /\ Place(ss, j, d, q[b])
             /\ i < j \/ (i = j /\ c < d)
      BY <1>5, <3>1 DEF FlatUpTo
    <3>3. i \in 1 .. k + 1 /\ j \in 1 .. k + 1
      OBVIOUS
    <3>4. QED
      BY <3>1, <3>2, <3>3
  <2>2. CASE a > Len(q)
    <3> DEFINE c == a - Len(q)
               d == b - Len(q)
    <3>1. c \in DOMAIN t /\ d \in DOMAIN t /\ a = Len(q) + c /\ b = Len(q) + d /\ c < d
          /\ c \in Nat /\ d \in Nat
      <4>1. a \in 1 .. Len(q) + Len(t) /\ b \in 1 .. Len(q) + Len(t)
        BY <1>2, <1>3
      <4>2. a \in Int /\ b \in Int /\ Len(q) \in Nat /\ Len(t) \in Nat /\ a > Len(q) /\ a < b
        BY <1>2, <1>5, <2>2, <4>1
      <4> HIDE DEF t
      <4>3. c \in 1 .. Len(t) /\ d \in 1 .. Len(t) /\ a = Len(q) + c /\ b = Len(q) + d /\ c < d
        BY <4>1, <4>2
      <4>4. QED
        BY <1>3, <4>3, <4>2
    <3> HIDE DEF c, d
    <3>2. r[a] = t[c] /\ r[b] = t[d]
      BY <1>2, <1>3, <3>1
    <3>3. Place(ss, k + 1, c, r[a]) /\ Place(ss, k + 1, d, r[b])
      BY <3>1, <3>2 DEF Place
    <3>4. QED
      BY <3>1, <3>3
  <2>3. CASE a <= Len(q) /\ b > Len(q)
    <3> DEFINE d == b - Len(q)
    <3>1. d \in DOMAIN t /\ b = Len(q) + d /\ d \in Nat /\ a \in 1 .. Len(q)
      BY <1>2, <1>3, <1>5, <2>3
    <3> HIDE DEF d
    <3>2. r[b] = t[d] /\ r[a] = q[a] /\ q[a] \in ToSet(q)
      BY <1>1, <1>2, <1>3, <3>1, SeqFacts
    <3>3. PICK i \in 1 .. k : q[a] \in ToSet(ss[i])
      BY <3>2 DEF FlatUpTo
    <3>4. PICK c \in 1 .. Len(ss[i]) : c \in DOMAIN ss[i] /\ ss[i][c] = q[a]
      BY <3>3, SeqFacts
    <3>5. Place(ss, k + 1, d, r[b])
      BY <3>1, <3>2 DEF Place
    <3>6. i \in 1 .. k + 1 /\ i < k + 1 /\ c \in Nat /\ Place(ss, i, c, r[a])
      BY <3>2, <3>4 DEF Place
    <3>7. QED
      BY <3>1, <3>5, <3>6
  <2>4. QED
    BY <1>2, <1>3, <2>1, <2>2, <2>3
<1>6. QED
  BY <1>2, <1>4, <1>5 DEF FlatUpTo

\* A flattened sequence.
LEMMA FlattenFacts ==
    ASSUME NEW ss, IsSeq(ss), \A i \in DOMAIN ss : IsSeq(ss[i])
    PROVE  FlatUpTo(ss, Len(ss), FlattenSeq(ss))
<1>1. Len(ss) \in Nat /\ DOMAIN ss = 1 .. Len(ss)
  BY SeqFacts
<1>2. CASE Len(ss) = 0
  <2>1. ss = <<>> /\ FlattenSeq(ss) = <<>>
    BY <1>2, SeqFacts DEF FlattenSeq
  <2>2. IsSeq(<<>>) /\ ToSet(<<>>) = {} /\ DOMAIN <<>> = {}
    BY DEF IsSeq, ToSet
  <2>3. 1 .. 0 = {}
    OBVIOUS
  <2>4. QED
    BY <1>2, <2>1, <2>2, <2>3, Zenon DEF FlatUpTo
<1>3. CASE Len(ss) # 0
  <2> DEFINE n == Len(ss)
             f == CHOOSE f : Flattens(ss, n, f)
             N == {k \in Nat : k + 1 <= n => FlatUpTo(ss, k + 1, f[k + 1])}
  <2>1. Flattens(ss, n, f)
    BY <1>1, FlattensExists, Zenon
  <2> HIDE DEF f
  <2>2. \A i \in 1 .. n : f[i] = IF i = 1 THEN ss[i] ELSE f[i - 1] \o ss[i]
    BY <2>1, Zenon DEF Flattens
  <2>3. 0 \in N
    <3>1. 1 \in 1 .. n /\ f[1] = ss[1] /\ IsSeq(ss[1]) /\ 1 \in DOMAIN ss
      BY <1>1, <1>3, <2>2
    <3>2. DOMAIN ss[1] \subseteq Nat
      BY <3>1, SeqFacts
    <3>3. FlatUpTo(ss, 1, f[1])
      <4>1. \A i \in 1 .. 1 : i = 1
        OBVIOUS
      <4>2. ASSUME NEW a \in DOMAIN f[1], NEW b \in DOMAIN f[1], a < b
            PROVE  \E i, j \in 1 .. 1 : \E c, d \in Nat :
                      /\ Place(ss, i, c, f[1][a]) /\ Place(ss, j, d, f[1][b])
                      /\ i < j \/ (i = j /\ c < d)
        BY <3>1, <3>2, <4>2 DEF Place
      <4>3. QED
        BY <3>1, <4>1, <4>2 DEF FlatUpTo
    <3>4. QED
      BY <3>3
  <2>4. ASSUME NEW k \in Nat, k \in N PROVE k + 1 \in N
    <3> SUFFICES ASSUME (k + 1) + 1 <= n PROVE FlatUpTo(ss, (k + 1) + 1, f[(k + 1) + 1])
      OBVIOUS
    <3>1. FlatUpTo(ss, k + 1, f[k + 1])
      BY <1>1, <2>4
    <3>2. f[(k + 1) + 1] = f[k + 1] \o ss[(k + 1) + 1]
      <4>1. (k + 1) + 1 \in 1 .. n /\ (k + 1) + 1 # 1 /\ ((k + 1) + 1) - 1 = k + 1
        BY <1>1
      <4> HIDE DEF n
      <4>2. QED
        BY <2>2, <4>1
    <3>3. 1 .. (k + 1) + 1 \subseteq DOMAIN ss /\ \A i \in 1 .. (k + 1) + 1 : IsSeq(ss[i])
      BY <1>1
    <3>4. FlatUpTo(ss, (k + 1) + 1, f[k + 1] \o ss[(k + 1) + 1])
      BY <3>1, <3>3, FlatStep
    <3>5. QED
      BY <3>2, <3>4
  <2>5. n - 1 \in N
    <3>1. n - 1 \in Nat
      BY <1>1, <1>3
    <3> HIDE DEF N, n
    <3>2. QED
      BY <2>3, <2>4, <3>1, NatSetInduction
  <2>6. FlatUpTo(ss, n, f[n])
    <3>1. (n - 1) + 1 = n
      BY <1>1
    <3>2. QED
      BY <1>1, <2>5, <3>1
  <2>7. QED
    BY <1>3, <2>6, FlattenMeaning DEF f
<1>4. QED
  BY <1>2, <1>3

-----------------------------------------------------------------------------
(***************************************************************************)
(* Registration.                                                           *)
(***************************************************************************)
\* An exporter that has not panicked and has the descriptions it began with.
IsExp(e) ==
    /\ e = [descs |-> e.descs, out |-> e.out, panic |-> FALSE]
    /\ IsSeq(e.out)
    /\ \A n \in DOMAIN KnownDescs : n \in DOMAIN e.descs /\ e.descs[n] = KnownDescs[n]

\* Descriptions stay.
Keeps(e, f) == \A n \in DOMAIN e.descs : n \in DOMAIN f.descs /\ f.descs[n] = e.descs[n]

\* What tells two series apart.
KeyOf(s) == <<s.name, ValuesOf(s)>>
Apart(q) == \A a, b \in DOMAIN q : a < b => KeyOf(q[a]) # KeyOf(q[b])

\* x is a series made of one of the metrics.
Made(f, M, x) == \E m \in M : Fits(f, m) /\ x = Series(f, m)

\* The exporter f is e after the metrics M have been registered, each of them once.
Sends(e, f, M) ==
    /\ IsExp(f) /\ Keeps(e, f)
    /\ \A m \in M : Known(f, m.name) /\ IsSeq(m.values)
    /\ \A n \in DOMAIN f.descs : n \in DOMAIN e.descs \/ \E m \in M : m.name = n
    /\ \E q : /\ IsSeq(q) /\ f.out = e.out \o q /\ Apart(q)
              /\ \A x : x \in ToSet(q) <=> Made(f, M, x)

\* The metrics have different names or different values of their labels.
Different(ms) ==
    \A i, j \in DOMAIN ms : i < j => <<ms[i].name, ms[i].values>> # <<ms[j].name, ms[j].values>>

\* The key of a series is the name and the values it was made of.
LEMMA KeyOfSeries ==
    ASSUME NEW e, NEW m, IsSeq(m.values)
    PROVE  /\ Series(e, m).name = m.name /\ Series(e, m).val = m.val
           /\ Series(e, m).count = m.count /\ Series(e, m).dist = m.dist
           /\ ValuesOf(Series(e, m)) = m.values
           /\ KeyOf(Series(e, m)) = <<m.name, m.values>>
<1>1. m.values = [i \in DOMAIN m.values |-> m.values[i]]
  <2>1. m.values \in Seq(ToSet(m.values))
    BY DEF IsSeq
  <2>2. m.values = [i \in 1 .. Len(m.values) |-> m.values[i]] /\ DOMAIN m.values = 1 .. Len(m.values)
    BY <2>1, LenProperties
  <2>3. QED
    BY <2>2
<1>2. DOMAIN Series(e, m).lbls = DOMAIN m.values
      /\ \A i \in DOMAIN m.values : Series(e, m).lbls[i][2] = m.values[i]
  BY DEF Series, LabelsOf
<1>3. ValuesOf(Series(e, m)) = [i \in DOMAIN m.values |-> m.values[i]]
  BY <1>2, Zenon DEF ValuesOf
<1>4. QED
  BY <1>1, <1>3 DEF Series, KeyOf

\* What Sent makes of a sequence of metrics.
LEMMA SentFacts ==
    ASSUME NEW e, NEW ms, IsSeq(ms), \A i \in DOMAIN ms : IsSeq(ms[i].values), Different(ms)
    PROVE  /\ IsSeq(Sent(e, ms)) /\ Apart(Sent(e, ms))
           /\ \A x : x \in ToSet(Sent(e, ms)) <=> Made(e, ToSet(ms), x)
<1> DEFINE One(i) == If(Fits(e, ms[i]), <<Series(e, ms[i])>>)
           ss == [i \in DOMAIN ms |-> One(i)]
<1>1. Len(ms) \in Nat /\ DOMAIN ms = 1 .. Len(ms)
  BY SeqFacts
<1>2. ASSUME NEW i \in DOMAIN ms
      PROVE  /\ IsSeq(One(i))
             /\ \A x : x \in ToSet(One(i)) <=> Fits(e, ms[i]) /\ x = Series(e, ms[i])
             /\ \A c \in DOMAIN One(i) : c = 1 /\ One(i)[c] = Series(e, ms[i])
  <2> DEFINE y == Series(e, ms[i])
  <2> HIDE DEF y
  <2>1. IsSeq(<<y>>) /\ ToSet(<<y>>) = {y} /\ DOMAIN <<y>> = {1} /\ <<y>>[1] = y
    BY DEF IsSeq, ToSet
  <2>2. IsSeq(<<>>) /\ ToSet(<<>>) = {} /\ DOMAIN <<>> = {}
    BY DEF IsSeq, ToSet
  <2>3. QED
    BY <2>1, <2>2 DEF If, y
<1>3. IsSeq(ss) /\ Len(ss) = Len(ms) /\ DOMAIN ss = DOMAIN ms
  <2>1. DOMAIN ss = 1 .. Len(ms) /\ ss = [i \in 1 .. Len(ms) |-> ss[i]]
    BY <1>1
  <2> HIDE DEF ss
  <2>2. QED
    BY <1>1, <2>1, TableFacts
<1>4. \A i \in DOMAIN ms : ss[i] = One(i)
  OBVIOUS
<1> HIDE DEF ss, One
<1>5. \A i \in DOMAIN ss : IsSeq(ss[i])
  BY <1>2, <1>3, <1>4
<1>6. FlatUpTo(ss, Len(ms), FlattenSeq(ss))
  BY <1>3, <1>5, FlattenFacts
<1>7. FlattenSeq(ss) = Sent(e, ms)
  BY DEF ss, One, Sent
<1> DEFINE q == Sent(e, ms)
<1>8. IsSeq(q) /\ \A x : x \in ToSet(q) <=> \E i \in 1 .. Len(ms) : x \in ToSet(ss[i])
  BY <1>6, <1>7 DEF FlatUpTo
<1>9. ASSUME NEW x PROVE x \in ToSet(q) <=> Made(e, ToSet(ms), x)
  <2>1. x \in ToSet(q) <=> \E i \in DOMAIN ms : Fits(e, ms[i]) /\ x = Series(e, ms[i])
    BY <1>1, <1>2, <1>4, <1>8
  <2>2. QED
    BY <2>1, Zenon DEF Made, ToSet
<1>10. Apart(q)
  <2> SUFFICES ASSUME NEW a \in DOMAIN q, NEW b \in DOMAIN q, a < b PROVE KeyOf(q[a]) # KeyOf(q[b])
    BY DEF Apart
  <2>1. PICK i \in 1 .. Len(ms), j \in 1 .. Len(ms) : \E c, d \in Nat :
            /\ Place(ss, i, c, q[a]) /\ Place(ss, j, d, q[b])
            /\ i < j \/ (i = j /\ c < d)
    BY <1>6, <1>7 DEF FlatUpTo
  <2>2. i \in DOMAIN ms /\ j \in DOMAIN ms
    BY <1>1
  <2>3. i < j /\ q[a] = Series(e, ms[i]) /\ q[b] = Series(e, ms[j])
    BY <1>2, <1>4, <2>1, <2>2 DEF Place
  <2>4. <<ms[i].name, ms[i].values>> # <<ms[j].name, ms[j].values>>
    BY <2>2, <2>3 DEF Different
  <2>5. QED
    BY <2>2, <2>3, <2>4, KeyOfSeries
<1>11. QED
  BY <1>8, <1>9, <1>10

\* An exporter with more series, all of whose names are known, is one.
LEMMA MoreOut ==
    ASSUME NEW e, IsExp(e), NEW ms, IsSeq(ms), \A i \in DOMAIN ms : IsSeq(ms[i].values), Different(ms),
           \A i \in DOMAIN ms : Known(e, ms[i].name),
           NEW f, f = [descs |-> e.descs, out |-> e.out \o Sent(e, ms), panic |-> FALSE]
    PROVE  Sends(e, f, ToSet(ms)) /\ f.descs = e.descs
<1>1. IsSeq(Sent(e, ms)) /\ Apart(Sent(e, ms))
      /\ \A x : x \in ToSet(Sent(e, ms)) <=> Made(e, ToSet(ms), x)
  BY SentFacts
<1>2. f.descs = e.descs /\ f.out = e.out \o Sent(e, ms) /\ f.panic = FALSE
  OBVIOUS
<1>3. IsSeq(f.out)
  BY <1>1, <1>2, ConcatFacts DEF IsExp
<1>4. IsExp(f) /\ Keeps(e, f)
  BY <1>2, <1>3 DEF IsExp, Keeps
<1>5. \A x : Made(f, ToSet(ms), x) <=> Made(e, ToSet(ms), x)
  BY <1>2 DEF Made, Fits, Known, Series, LabelsOf
<1>6. \A m \in ToSet(ms) : Known(f, m.name) /\ IsSeq(m.values)
  BY <1>2 DEF Known, ToSet
<1>7. QED
  BY <1>1, <1>2, <1>4, <1>5, <1>6 DEF Sends

\* registerConstMetric with labels.
LEMMA LabelledFacts ==
    ASSUME NEW e, IsExp(e), NEW ms, IsSeq(ms), \A i \in DOMAIN ms : IsSeq(ms[i].values), Different(ms),
           \A i \in DOMAIN ms : Known(e, ms[i].name)
    PROVE  Sends(e, registerLabelled(e, ms), ToSet(ms)) /\ registerLabelled(e, ms).descs = e.descs
<1> DEFINE f == registerLabelled(e, ms)
<1>1. f = [descs |-> e.descs, out |-> e.out \o Sent(e, ms), panic |-> FALSE]
  <2>1. e.panic = FALSE
    BY DEF IsExp
  <2>2. (e.panic \/ \E i \in DOMAIN ms : ~Known(e, ms[i].name)) = FALSE
    BY <2>1
  <2>3. QED
    BY <2>2, Zenon DEF registerLabelled
<1> HIDE DEF f
<1>2. QED
  BY <1>1, MoreOut DEF f

\* registerConstSummary and registerConstHistogram.
LEMMA DistributionFacts ==
    ASSUME NEW e, IsExp(e), NEW ms, IsSeq(ms), \A i \in DOMAIN ms : IsSeq(ms[i].values), Different(ms),
           \A i \in DOMAIN ms : Fits(e, ms[i])
    PROVE  Sends(e, registerDistributions(e, ms), ToSet(ms)) /\ registerDistributions(e, ms).descs = e.descs
<1> DEFINE f == registerDistributions(e, ms)
<1>1. f = [descs |-> e.descs, out |-> e.out \o Sent(e, ms), panic |-> FALSE]
  <2>1. e.panic = FALSE
    BY DEF IsExp
  <2>2. (e.panic \/ \E i \in DOMAIN ms : ~Fits(e, ms[i])) = FALSE
    BY <2>1
  <2>3. QED
    BY <2>2, Zenon DEF registerDistributions
<1>2. \A i \in DOMAIN ms : Known(e, ms[i].name)
  BY DEF Fits
<1> HIDE DEF f
<1>3. QED
  BY <1>1, <1>2, MoreOut DEF f

\* New descriptions.
LEMMA CreateFacts ==
    ASSUME NEW e, IsExp(e), NEW names, NEW labels
    PROVE  LET f == createMetricDescriptions(e, names, labels)
           IN  /\ IsExp(f) /\ Keeps(e, f) /\ f.out = e.out
               /\ DOMAIN f.descs = DOMAIN e.descs \cup names
               /\ \A n \in names \ DOMAIN e.descs : f.descs[n] = labels
<1> DEFINE f == createMetricDescriptions(e, names, labels)
           d == [x \in DOMAIN e.descs \cup names |-> IF x \in DOMAIN e.descs THEN e.descs[x] ELSE labels]
<1>1. f = [descs |-> d, out |-> e.out, panic |-> FALSE]
  <2>1. e.panic = FALSE
    BY DEF IsExp
  <2>2. QED
    BY <2>1, Zenon DEF createMetricDescriptions
<1>2. /\ DOMAIN d = DOMAIN e.descs \cup names
      /\ \A n \in DOMAIN e.descs : n \in DOMAIN d /\ d[n] = e.descs[n]
      /\ \A n \in names \ DOMAIN e.descs : d[n] = labels
  OBVIOUS
<1> HIDE DEF d, f
<1>3. f.descs = d /\ f.out = e.out /\ f.panic = FALSE
  BY <1>1
<1>4. IsExp(f)
  BY <1>1, <1>2, <1>3 DEF IsExp
<1>5. QED
  BY <1>2, <1>3, <1>4 DEF Keeps, f

\* What is sent after descriptions were made is sent.
LEMMA CreatedThenSent ==
    ASSUME NEW e, NEW f, Keeps(e, f), f.out = e.out, NEW g, NEW M, Sends(f, g, M),
           \A n \in DOMAIN f.descs : n \in DOMAIN e.descs \/ \E m \in M : m.name = n
    PROVE  Sends(e, g, M)
BY DEF Sends, Keeps

\* A sequence of one metric.
LEMMA SingleFacts ==
    ASSUME NEW m, IsSeq(m.values)
    PROVE  /\ IsSeq(<<m>>) /\ DOMAIN <<m>> = {1} /\ <<m>>[1] = m /\ ToSet(<<m>>) = {m}
           /\ Different(<<m>>) /\ \A i \in DOMAIN <<m>> : IsSeq(<<m>>[i].values)
<1>1. IsSeq(<<m>>) /\ DOMAIN <<m>> = {1} /\ <<m>>[1] = m /\ ToSet(<<m>>) = {m}
  BY DEF IsSeq, ToSet
<1>2. Different(<<m>>)
  <2>1. \A i, j \in {1} : ~(i < j)
    OBVIOUS
  <2>2. QED
    BY <1>1, <2>1, Zenon DEF Different
<1>3. QED
  BY <1>1, <1>2

\* registerConstMetric without labels.
LEMMA PlainFacts ==
    ASSUME NEW e, IsExp(e), NEW name, NEW val
    PROVE  /\ Sends(e, registerPlain(e, name, val), {Metric(name, val, <<>>)})
           /\ DOMAIN registerPlain(e, name, val).descs = DOMAIN e.descs \cup {name}
           /\ name \notin DOMAIN e.descs => registerPlain(e, name, val).descs[name] = <<>>
<1> DEFINE m == Metric(name, val, <<>>)
           f == createMetricDescription(e, name, <<>>)
           g == registerLabelled(f, <<m>>)
<1>1. /\ IsExp(f) /\ Keeps(e, f) /\ f.out = e.out
      /\ DOMAIN f.descs = DOMAIN e.descs \cup {name}
      /\ name \notin DOMAIN e.descs => f.descs[name] = <<>>
  BY CreateFacts DEF createMetricDescription
<1>2. m.name = name /\ m.values = <<>> /\ IsSeq(m.values)
  BY DEF Metric, Distribution, IsSeq, ToSet
<1> HIDE DEF f, m
<1>3. Sends(f, g, {m}) /\ g.descs = f.descs
  <2>1. Known(f, m.name)
    BY <1>1, <1>2 DEF Known
  <2>2. /\ IsSeq(<<m>>) /\ ToSet(<<m>>) = {m} /\ Different(<<m>>)
        /\ \A i \in DOMAIN <<m>> : IsSeq(<<m>>[i].values)
        /\ \A i \in DOMAIN <<m>> : Known(f, <<m>>[i].name)
    BY <1>2, <2>1, SingleFacts
  <2> DEFINE ms == <<m>>
  <2> HIDE DEF ms
  <2>3. Sends(f, registerLabelled(f, ms), ToSet(ms)) /\ registerLabelled(f, ms).descs = f.descs
    BY <1>1, <2>2, LabelledFacts DEF ms
  <2>4. QED
    BY <2>2, <2>3 DEF ms
<1>4. Sends(e, g, {m})
  <2> HIDE DEF g
  <2>1. \A n \in DOMAIN f.descs : n \in DOMAIN e.descs \/ \E x \in {m} : x.name = n
    BY <1>1, <1>2
  <2>2. QED
    BY <1>1, <1>3, <2>1, CreatedThenSent
<1>5. registerPlain(e, name, val) = g
  BY DEF registerPlain, g, f, m
<1>6. QED
  BY <1>1, <1>3, <1>4, <1>5 DEF m

\* Two registrations after each other.
LEMMA SendsBoth ==
    ASSUME NEW e, IsExp(e), NEW f, NEW g, NEW M, NEW N, Sends(e, f, M), Sends(f, g, N),
           \A m \in M, n \in N : <<m.name, m.values>> # <<n.name, n.values>>
    PROVE  Sends(e, g, M \cup N)
<1>1. PICK q : /\ IsSeq(q) /\ f.out = e.out \o q /\ Apart(q)
               /\ \A x : x \in ToSet(q) <=> Made(f, M, x)
  BY DEF Sends
<1>2. PICK r : /\ IsSeq(r) /\ g.out = f.out \o r /\ Apart(r)
               /\ \A x : x \in ToSet(r) <=> Made(g, N, x)
  BY DEF Sends
<1>3. IsExp(g) /\ Keeps(e, g) /\ Keeps(f, g) /\ IsSeq(e.out)
  BY DEF Sends, Keeps, IsExp
<1>4. \A m \in M \cup N : Known(g, m.name) /\ IsSeq(m.values)
  BY <1>3 DEF Sends, Known, Keeps
<1>5. \A m \in M : Fits(f, m) <=> Fits(g, m)
  BY <1>3 DEF Sends, Known, Keeps, Fits
<1>6. \A m \in M : Series(f, m) = Series(g, m)
  BY <1>3 DEF Sends, Known, Keeps, Series, LabelsOf
<1>61. \A n \in DOMAIN g.descs : n \in DOMAIN e.descs \/ \E m \in M \cup N : m.name = n
  BY DEF Sends
<1>7. \A x : Made(g, M \cup N, x) <=> Made(f, M, x) \/ Made(g, N, x)
  BY <1>5, <1>6 DEF Made
<1> DEFINE p == q \o r
<1>8. /\ IsSeq(p) /\ ToSet(p) = ToSet(q) \cup ToSet(r)
      /\ Len(p) = Len(q) + Len(r) /\ Len(q) \in Nat /\ Len(r) \in Nat
      /\ \A i \in 1 .. Len(q) : p[i] = q[i]
      /\ \A i \in 1 .. Len(r) : p[Len(q) + i] = r[i]
  <2>1. IsSeq(q) /\ IsSeq(r)
    BY <1>1, <1>2
  <2>2. QED
    BY <2>1, ConcatFacts
<1>9. g.out = e.out \o p
  <2> DEFINE S == (ToSet(e.out) \cup ToSet(q)) \cup ToSet(r)
  <2>1. e.out \in Seq(S) /\ q \in Seq(S) /\ r \in Seq(S)
    <3>1. e.out \in Seq(ToSet(e.out)) /\ q \in Seq(ToSet(q)) /\ r \in Seq(ToSet(r))
      BY <1>1, <1>2, <1>3 DEF IsSeq
    <3>2. ToSet(e.out) \subseteq S /\ ToSet(q) \subseteq S /\ ToSet(r) \subseteq S
      OBVIOUS
    <3>3. QED
      BY <3>1, <3>2, SeqMonotonic
  <2> HIDE DEF S
  <2>2. (e.out \o q) \o r = e.out \o (q \o r)
    <3> DEFINE o == e.out
    <3>1. o \in Seq(S) /\ q \in Seq(S) /\ r \in Seq(S)
      BY <2>1
    <3> HIDE DEF o
    <3>2. (o \o q) \o r = o \o (q \o r)
      BY ONLY <3>1, ConcatAssociative
    <3>3. QED
      BY <3>2 DEF o
  <2>3. QED
    BY <1>1, <1>2, <2>2
<1>10. Apart(p)
  <2> HIDE DEF p
  <2> SUFFICES ASSUME NEW a \in DOMAIN p, NEW b \in DOMAIN p, a < b PROVE KeyOf(p[a]) # KeyOf(p[b])
    BY DEF Apart
  <2>1. a \in 1 .. Len(q) + Len(r) /\ b \in 1 .. Len(q) + Len(r)
        /\ DOMAIN q = 1 .. Len(q) /\ DOMAIN r = 1 .. Len(r)
    BY <1>1, <1>2, <1>8, SeqFacts
  <2>2. CASE b <= Len(q)
    <3>1. a \in DOMAIN q /\ b \in DOMAIN q /\ p[a] = q[a] /\ p[b] = q[b]
      BY <1>8, <2>1, <2>2
    <3>2. QED
      BY <1>1, <3>1 DEF Apart
  <2>3. CASE a > Len(q)
    <3> DEFINE c == a - Len(q)
               d == b - Len(q)
    <3>1. c \in 1 .. Len(r) /\ d \in 1 .. Len(r) /\ c < d /\ a = Len(q) + c /\ b = Len(q) + d
      BY <1>8, <2>1, <2>3
    <3> HIDE DEF c, d
    <3>2. p[a] = r[c] /\ p[b] = r[d]
      BY <1>8, <3>1
    <3>3. QED
      BY <1>2, <2>1, <3>1, <3>2 DEF Apart
  <2>4. CASE a <= Len(q) /\ b > Len(q)
    <3> DEFINE d == b - Len(q)
    <3>1. a \in 1 .. Len(q) /\ d \in 1 .. Len(r) /\ b = Len(q) + d
      BY <1>8, <2>1, <2>4
    <3> HIDE DEF d
    <3>2. p[a] \in ToSet(q) /\ p[b] \in ToSet(r)
      BY <1>1, <1>2, <1>8, <3>1, SeqFacts
    <3>3. Made(f, M, p[a]) /\ Made(g, N, p[b])
      BY <1>1, <1>2, <3>2
    <3>4. PICK m \in M, n \in N : p[a] = Series(f, m) /\ p[b] = Series(g, n)
      BY <3>3 DEF Made
    <3>5. QED
      BY <1>4, <3>4, KeyOfSeries
  <2>5. QED
    BY <1>8, <2>1, <2>2, <2>3, <2>4
<1>11. \A x : x \in ToSet(p) <=> Made(g, M \cup N, x)
  BY <1>1, <1>2, <1>7, <1>8
<1>12. QED
  BY <1>3, <1>4, <1>61, <1>8, <1>9, <1>10, <1>11 DEF Sends

\* Nothing is sent.
LEMMA SendsNothing ==
    ASSUME NEW e, IsExp(e)
    PROVE  Sends(e, e, {})
<1>1. IsSeq(<<>>) /\ ToSet(<<>>) = {} /\ DOMAIN <<>> = {}
  BY DEF IsSeq, ToSet
<1>2. e.out = e.out \o <<>>
  BY EmptySeq, ConcatEmptySeq DEF IsExp, IsSeq
<1>3. QED
  BY <1>1, <1>2, Zenon DEF Sends, Keeps, Apart, Made

\* Two sequences with the same elements in the same places.
LEMMA SameSeq ==
    ASSUME NEW s, IsSeq(s), NEW t, IsSeq(t), Len(s) = Len(t), \A i \in 1 .. Len(s) : s[i] = t[i]
    PROVE  s = t
<1>1. s = [i \in 1 .. Len(s) |-> s[i]] /\ t = [i \in 1 .. Len(t) |-> t[i]]
  BY LenProperties DEF IsSeq
<1>2. QED
  BY <1>1

\* Short sequences after each other.
LEMMA Concat11 ==
    ASSUME NEW a1, NEW b1
    PROVE  <<a1>> \o <<b1>> = <<a1, b1>>
<1> DEFINE s == <<a1>>
           t == <<b1>>
           u == <<a1, b1>>
<1>1. IsSeq(s) /\ IsSeq(t) /\ IsSeq(u) /\ Len(s) = 1 /\ Len(t) = 1 /\ Len(u) = 2
  BY DEF IsSeq, ToSet
<1>2. /\ s[1] = a1
      /\ t[1] = b1
      /\ u[1] = a1 /\ u[2] = b1
  OBVIOUS
<1> HIDE DEF s, t, u
<1>3. /\ IsSeq(s \o t) /\ Len(s \o t) = Len(s) + Len(t)
      /\ \A i \in 1 .. Len(s) : (s \o t)[i] = s[i]
      /\ \A i \in 1 .. Len(t) : (s \o t)[Len(s) + i] = t[i]
  <2>1. IsSeq(s) /\ IsSeq(t)
    BY <1>1
  <2>2. QED
    BY <2>1, ConcatFacts
<1>4. (s \o t)[1 + 1] = t[1]
  BY <1>1, <1>3
<1>5. \A i \in 1 .. 2 : (s \o t)[i] = u[i]
  BY <1>1, <1>2, <1>3, <1>4
<1>6. QED
  <2> DEFINE r == s \o t
  <2>1. IsSeq(r) /\ IsSeq(u) /\ Len(r) = Len(u) /\ \A i \in 1 .. Len(r) : r[i] = u[i]
    BY <1>1, <1>3, <1>5
  <2> HIDE DEF r
  <2>2. r = u
    BY <2>1, SameSeq
  <2>3. QED
    BY <2>2 DEF r, s, t, u

\* Two elements and one.
LEMMA Concat21 ==
    ASSUME NEW a1, NEW a2, NEW b1
    PROVE  <<a1, a2>> \o <<b1>> = <<a1, a2, b1>>
<1> DEFINE s == <<a1, a2>>
           t == <<b1>>
           u == <<a1, a2, b1>>
<1>1. IsSeq(s) /\ IsSeq(t) /\ IsSeq(u) /\ Len(s) = 2 /\ Len(t) = 1 /\ Len(u) = 3
  BY DEF IsSeq, ToSet
<1>2. /\ s[1] = a1 /\ s[2] = a2
      /\ t[1] = b1
      /\ u[1] = a1 /\ u[2] = a2 /\ u[3] = b1
  OBVIOUS
<1> HIDE DEF s, t, u
<1>3. /\ IsSeq(s \o t) /\ Len(s \o t) = Len(s) + Len(t)
      /\ \A i \in 1 .. Len(s) : (s \o t)[i] = s[i]
      /\ \A i \in 1 .. Len(t) : (s \o t)[Len(s) + i] = t[i]
  <2>1. IsSeq(s) /\ IsSeq(t)
    BY <1>1
  <2>2. QED
    BY <2>1, ConcatFacts
<1>4. (s \o t)[2 + 1] = t[1]
  BY <1>1, <1>3
<1>5. \A i \in 1 .. 3 : (s \o t)[i] = u[i]
  BY <1>1, <1>2, <1>3, <1>4
<1>6. QED
  <2> DEFINE r == s \o t
  <2>1. IsSeq(r) /\ IsSeq(u) /\ Len(r) = Len(u) /\ \A i \in 1 .. Len(r) : r[i] = u[i]
    BY <1>1, <1>3, <1>5
  <2> HIDE DEF r
  <2>2. r = u
    BY <2>1, SameSeq
  <2>3. QED
    BY <2>2 DEF r, s, t, u

\* Three elements and one.
LEMMA Concat31 ==
    ASSUME NEW a1, NEW a2, NEW a3, NEW b1
    PROVE  <<a1, a2, a3>> \o <<b1>> = <<a1, a2, a3, b1>>
<1> DEFINE s == <<a1, a2, a3>>
           t == <<b1>>
           u == <<a1, a2, a3, b1>>
<1>1. IsSeq(s) /\ IsSeq(t) /\ IsSeq(u) /\ Len(s) = 3 /\ Len(t) = 1 /\ Len(u) = 4
  BY DEF IsSeq, ToSet
<1>2. /\ s[1] = a1 /\ s[2] = a2 /\ s[3] = a3
      /\ t[1] = b1
      /\ u[1] = a1 /\ u[2] = a2 /\ u[3] = a3 /\ u[4] = b1
  OBVIOUS
<1> HIDE DEF s, t, u
<1>3. /\ IsSeq(s \o t) /\ Len(s \o t) = Len(s) + Len(t)
      /\ \A i \in 1 .. Len(s) : (s \o t)[i] = s[i]
      /\ \A i \in 1 .. Len(t) : (s \o t)[Len(s) + i] = t[i]
  <2>1. IsSeq(s) /\ IsSeq(t)
    BY <1>1
  <2>2. QED
    BY <2>1, ConcatFacts
<1>4. (s \o t)[3 + 1] = t[1]
  BY <1>1, <1>3
<1>5. \A i \in 1 .. 4 : (s \o t)[i] = u[i]
  BY <1>1, <1>2, <1>3, <1>4
<1>6. QED
  <2> DEFINE r == s \o t
  <2>1. IsSeq(r) /\ IsSeq(u) /\ Len(r) = Len(u) /\ \A i \in 1 .. Len(r) : r[i] = u[i]
    BY <1>1, <1>3, <1>5
  <2> HIDE DEF r
  <2>2. r = u
    BY <2>1, SameSeq
  <2>3. QED
    BY <2>2 DEF r, s, t, u

\* Two elements and two.
LEMMA Concat22 ==
    ASSUME NEW a1, NEW a2, NEW b1, NEW b2
    PROVE  <<a1, a2>> \o <<b1, b2>> = <<a1, a2, b1, b2>>
<1> DEFINE s == <<a1, a2>>
           t == <<b1, b2>>
           u == <<a1, a2, b1, b2>>
<1>1. IsSeq(s) /\ IsSeq(t) /\ IsSeq(u) /\ Len(s) = 2 /\ Len(t) = 2 /\ Len(u) = 4
  BY DEF IsSeq, ToSet
<1>2. /\ s[1] = a1 /\ s[2] = a2
      /\ t[1] = b1 /\ t[2] = b2
      /\ u[1] = a1 /\ u[2] = a2 /\ u[3] = b1 /\ u[4] = b2
  OBVIOUS
<1> HIDE DEF s, t, u
<1>3. /\ IsSeq(s \o t) /\ Len(s \o t) = Len(s) + Len(t)
      /\ \A i \in 1 .. Len(s) : (s \o t)[i] = s[i]
      /\ \A i \in 1 .. Len(t) : (s \o t)[Len(s) + i] = t[i]
  <2>1. IsSeq(s) /\ IsSeq(t)
    BY <1>1
  <2>2. QED
    BY <2>1, ConcatFacts
<1>4. (s \o t)[2 + 1] = t[1] /\ (s \o t)[2 + 2] = t[2]
  BY <1>1, <1>3
<1>5. \A i \in 1 .. 4 : (s \o t)[i] = u[i]
  BY <1>1, <1>2, <1>3, <1>4
<1>6. QED
  <2> DEFINE r == s \o t
  <2>1. IsSeq(r) /\ IsSeq(u) /\ Len(r) = Len(u) /\ \A i \in 1 .. Len(r) : r[i] = u[i]
    BY <1>1, <1>3, <1>5
  <2> HIDE DEF r
  <2>2. r = u
    BY <2>1, SameSeq
  <2>3. QED
    BY <2>2 DEF r, s, t, u

-----------------------------------------------------------------------------
(***************************************************************************)
(* What a field becomes.                                                   *)
(***************************************************************************)
\* The metrics parseAndRegisterConstMetric makes of a field, none or one.
FieldName(f) == LET name == IF f.k \in DOMAIN metricMap THEN metricMap[f.k] ELSE f.k
                IN  IF name = "latest_fork_usec" THEN "latest_fork_seconds" ELSE name
FieldValue(f) == IF FieldName(f) = "latest_fork_seconds" THEN Micro(ParseFloat(f.v)) ELSE Whole(ParseFloat(f.v))
FieldMetrics(f) ==
    IF includeMetric(f) /\ IsFloat(f.v) THEN {Metric(FieldName(f), FieldValue(f), <<>>)} ELSE {}

FieldNames ==
    {"uptime_in_seconds", "connected_slaves", "latest_fork_seconds", "keyspace_hits_total",
     "memory_used_bytes", "cluster_messages_sent_total", "tile38_num_hooks_total",
     "search_number_of_indexes", "db", "cmdstat_", "cluster_enabled", "cluster_state"}

\* The names under which registerField registers.
LEMMA FieldNameFacts ==
    ASSUME NEW f, includeMetric(f)
    PROVE  FieldName(f) \in FieldNames
<1>1. DOMAIN metricMap = {"uptime_in_seconds", "connected_slaves", "latest_fork_usec", "keyspace_hits",
                          "used_memory", "cluster_stats_messages_sent", "tile38_num_hooks",
                          "search_number_of_indexes"}
  BY DEF metricMap
<1>2. /\ metricMap["uptime_in_seconds"] = "uptime_in_seconds"
      /\ metricMap["connected_slaves"] = "connected_slaves"
      /\ metricMap["latest_fork_usec"] = "latest_fork_usec"
      /\ metricMap["keyspace_hits"] = "keyspace_hits_total"
      /\ metricMap["used_memory"] = "memory_used_bytes"
      /\ metricMap["cluster_stats_messages_sent"] = "cluster_messages_sent_total"
      /\ metricMap["tile38_num_hooks"] = "tile38_num_hooks_total"
      /\ metricMap["search_number_of_indexes"] = "search_number_of_indexes"
  BY DEF metricMap
<1>3. QED
  BY <1>1, <1>2 DEF includeMetric, FieldName, FieldNames, ClusterFields

\* The fields of a gauge or a counter.
LEMMA MetricFacts ==
    ASSUME NEW name, NEW val, NEW values
    PROVE  /\ Metric(name, val, values).name = name /\ Metric(name, val, values).val = val
           /\ Metric(name, val, values).values = values
           /\ Metric(name, val, values).count = 0 /\ Metric(name, val, values).dist = {}
BY DEF Metric, Distribution

\* What the loops over fields register.
LEMMA FieldFacts ==
    ASSUME NEW e, IsExp(e), NEW f
    PROVE  /\ Sends(e, registerField(e, f), FieldMetrics(f))
           /\ \A m \in FieldMetrics(f) : m.name \in FieldNames /\ m.values = <<>>
<1> DEFINE name == IF f.k \in DOMAIN metricMap THEN metricMap[f.k] ELSE f.k
<1>1. CASE ~(includeMetric(f) /\ IsFloat(f.v))
  <2>1. registerField(e, f) = e /\ FieldMetrics(f) = {}
    BY <1>1 DEF registerField, FieldMetrics, parseAndRegisterConstMetric
  <2>2. QED
    BY <2>1, SendsNothing
<1>2. CASE includeMetric(f) /\ IsFloat(f.v)
  <2>1. FieldMetrics(f) = {Metric(FieldName(f), FieldValue(f), <<>>)}
    BY <1>2 DEF FieldMetrics
  <2>2. registerField(e, f) = registerPlain(e, FieldName(f), FieldValue(f))
    <3>1. name # "latest_fork_seconds"
      <4>1. \A k \in DOMAIN metricMap : metricMap[k] # "latest_fork_seconds"
        BY DEF metricMap
      <4>2. QED
        BY <4>1, <1>2 DEF includeMetric, ClusterFields
    <3>2. QED
      BY <1>2, <3>1 DEF registerField, parseAndRegisterConstMetric, FieldName, FieldValue
  <2>3. QED
    BY <1>2, <2>1, <2>2, PlainFacts, FieldNameFacts, MetricFacts
<1>3. QED
  BY <1>1, <1>2

\* The table's names and the numbers of labels they have.
LEMMA KnownFacts ==
    /\ CmdMetrics \cup DbMetrics \cup MasterMetrics \cup ReplicaMetrics \cup SpikeMetrics
           \cup SentinelMetrics \cup PlainMetrics \cup LimitMetrics
           \cup {"config_key_value", "config_value", "sentinel_master_status", "errors_total", "slave_info",
                 "module_info"} = DOMAIN KnownDescs
    /\ \A n \in CmdMetrics : KnownDescs[n] = <<"cmd">>
    /\ \A n \in DbMetrics : KnownDescs[n] = <<"db">>
    /\ \A n \in MasterMetrics : KnownDescs[n] = <<"master_host", "master_port">>
    /\ \A n \in ReplicaMetrics : KnownDescs[n] = <<"slave_ip", "slave_port", "slave_state">>
    /\ KnownDescs["slave_info"] = <<"master_host", "master_port", "read_only">>
<1>1. CmdMetrics \cup DbMetrics \cup MasterMetrics \cup ReplicaMetrics \cup SpikeMetrics
           \cup SentinelMetrics \cup PlainMetrics \cup LimitMetrics
           \cup {"config_key_value", "config_value", "sentinel_master_status", "errors_total", "slave_info",
                 "module_info"} = DOMAIN KnownDescs
      /\ \A n \in DOMAIN KnownDescs : KnownDescs[n] = KnownLabels(n)
  BY Zenon DEF KnownDescs
<1>2. ASSUME NEW n \in CmdMetrics PROVE KnownLabels(n) = <<"cmd">>
  BY DEF KnownLabels, CmdMetrics, DbMetrics, MasterMetrics, ReplicaMetrics, SpikeMetrics, SentinelMetrics,
         LimitMetrics
<1>3. ASSUME NEW n \in DbMetrics PROVE KnownLabels(n) = <<"db">>
  BY DEF KnownLabels, CmdMetrics, DbMetrics, MasterMetrics, ReplicaMetrics, SpikeMetrics, SentinelMetrics,
         LimitMetrics
<1>4. ASSUME NEW n \in MasterMetrics PROVE KnownLabels(n) = <<"master_host", "master_port">>
  BY DEF KnownLabels, CmdMetrics, DbMetrics, MasterMetrics, ReplicaMetrics, SpikeMetrics, SentinelMetrics,
         LimitMetrics
<1>5. ASSUME NEW n \in ReplicaMetrics PROVE KnownLabels(n) = <<"slave_ip", "slave_port", "slave_state">>
  BY DEF KnownLabels, CmdMetrics, DbMetrics, MasterMetrics, ReplicaMetrics, SpikeMetrics, SentinelMetrics,
         LimitMetrics
<1>6. KnownLabels("slave_info") = <<"master_host", "master_port", "read_only">>
  BY DEF KnownLabels, CmdMetrics, DbMetrics, MasterMetrics, ReplicaMetrics, SpikeMetrics, SentinelMetrics,
         LimitMetrics
<1>7. QED
  BY <1>1, <1>2, <1>3, <1>4, <1>5, <1>6

-----------------------------------------------------------------------------
(***************************************************************************)
(* One line of INFO.                                                       *)
(***************************************************************************)
\* What handleMetricsServer and handleMetricsSentinel register.
ServerLineMetrics(f) ==
    CASE f.k = "uptime_in_seconds" /\ f.v[1].s = "" ->
             {Metric("start_time_seconds", Whole(Now - f.v[1].x), <<>>)}
      [] f.k \in {"hz", "configured_hz"} /\ f.v[1].s = "" -> {Metric(f.k, Whole(Atoi(f.v)), <<>>)}
      [] OTHER -> {}
SentinelLineMetrics(f) ==
    CASE f.k \in {"sentinel_masters", "sentinel_tilt"} -> {Metric(f.k, Whole(Atoi(f.v)), <<>>)}
      [] parseSentinelMasterString(f) -> ToSet(sentinelMetrics(f.v))
      [] OTHER -> {}

\* What a line becomes in the walk's state p.
LineMetrics(p, f) ==
    IF f.k = "#" THEN {}
    ELSE CASE p.cls = "Replication" ->
                  IF replicationMetrics(Seen(p, f), f) # <<>> THEN ToSet(replicationMetrics(Seen(p, f), f))
                  ELSE FieldMetrics(f)
           [] p.cls = "Server" -> ServerLineMetrics(f) \cup FieldMetrics(f)
           [] p.cls = "Commandstats" -> ToSet(commandMetrics(f))
           [] p.cls = "Latencystats" -> {}
           [] p.cls = "Errorstats" ->
                  IF f.k = "errorstat_" /\ Len(f.v) = 1 /\ extractVal(f.v[1])
                  THEN {Metric("errors_total", Whole(f.v[1].x), <<f.i>>)} ELSE {}
           [] p.cls = "Keyspace" ->
                  IF parseDBKeyspaceString(f) THEN ToSet(keyspaceMetrics(f)) ELSE FieldMetrics(f)
           [] p.cls = "Sentinel" -> SentinelLineMetrics(f) \cup FieldMetrics(f)
           [] OTHER -> FieldMetrics(f)

\* A sequence of metrics that can be registered as it stands.
Distinct(ms) ==
    /\ IsSeq(ms) /\ \A i \in DOMAIN ms : IsSeq(ms[i].values)
    /\ \A i, j \in DOMAIN ms : i # j => <<ms[i].name, ms[i].values>> # <<ms[j].name, ms[j].values>>

Registrable(ms) == Distinct(ms) /\ \A i \in DOMAIN ms : ms[i].name \in DOMAIN KnownDescs

\* Registering metrics of the table sends exactly them (metrics.go 84-99).
LEMMA RegistrableFacts ==
    ASSUME NEW e, IsExp(e), NEW ms, Registrable(ms)
    PROVE  Sends(e, registerLabelled(e, ms), ToSet(ms)) /\ registerLabelled(e, ms).descs = e.descs
<1>1. \A i, j \in DOMAIN ms : i < j => i # j
  <2>1. DOMAIN ms = 1 .. Len(ms) /\ Len(ms) \in Nat
    BY SeqFacts DEF Registrable, Distinct
  <2>2. QED
    BY <2>1
<1>2. /\ IsSeq(ms) /\ \A i \in DOMAIN ms : IsSeq(ms[i].values)
      /\ Different(ms) /\ \A i \in DOMAIN ms : Known(e, ms[i].name)
  BY <1>1 DEF Registrable, Distinct, Different, Known, IsExp
<1>3. QED
  BY <1>2, LabelledFacts

\* Labels are short sequences.
LEMMA ShortSeqs ==
    /\ IsSeq(<<>>) /\ Len(<<>>) = 0 /\ ToSet(<<>>) = {} /\ DOMAIN <<>> = {}
    /\ \A a : IsSeq(<<a>>) /\ Len(<<a>>) = 1 /\ ToSet(<<a>>) = {a}
    /\ \A a, b : IsSeq(<<a, b>>) /\ Len(<<a, b>>) = 2 /\ ToSet(<<a, b>>) = {a, b}
    /\ \A a, b, c : IsSeq(<<a, b, c>>) /\ Len(<<a, b, c>>) = 3 /\ ToSet(<<a, b, c>>) = {a, b, c}
    /\ \A a, b, c, d : IsSeq(<<a, b, c, d>>) /\ Len(<<a, b, c, d>>) = 4 /\ ToSet(<<a, b, c, d>>) = {a, b, c, d}
<1>1. IsSeq(<<>>) /\ Len(<<>>) = 0 /\ ToSet(<<>>) = {} /\ DOMAIN <<>> = {}
  BY DEF IsSeq, ToSet
<1>2. ASSUME NEW a PROVE IsSeq(<<a>>) /\ Len(<<a>>) = 1 /\ ToSet(<<a>>) = {a}
  BY DEF IsSeq, ToSet
<1>3. ASSUME NEW a, NEW b PROVE IsSeq(<<a, b>>) /\ Len(<<a, b>>) = 2 /\ ToSet(<<a, b>>) = {a, b}
  BY DEF IsSeq, ToSet
<1>4. ASSUME NEW a, NEW b, NEW c
      PROVE  IsSeq(<<a, b, c>>) /\ Len(<<a, b, c>>) = 3 /\ ToSet(<<a, b, c>>) = {a, b, c}
  BY DEF IsSeq, ToSet
<1>5. ASSUME NEW a, NEW b, NEW c, NEW d
      PROVE  IsSeq(<<a, b, c, d>>) /\ Len(<<a, b, c, d>>) = 4 /\ ToSet(<<a, b, c, d>>) = {a, b, c, d}
  BY DEF IsSeq, ToSet
<1>6. QED
  BY <1>1, <1>2, <1>3, <1>4, <1>5, Zenon

\* Up to four metrics of different names.
LEMMA Registrable0 == Registrable(<<>>)
BY ShortSeqs, Zenon DEF Registrable, Distinct

\* One metric of the table can be registered.
LEMMA Registrable1 ==
    ASSUME NEW a, IsSeq(a.values), a.name \in DOMAIN KnownDescs
    PROVE  Registrable(<<a>>)
<1>1. DOMAIN <<a>> = {1} /\ <<a>>[1] = a
  OBVIOUS
<1>2. QED
  BY <1>1, ShortSeqs, Zenon DEF Registrable, Distinct

\* Two with different names.
LEMMA Registrable2 ==
    ASSUME NEW a, NEW b, \A m \in {a, b} : IsSeq(m.values) /\ m.name \in DOMAIN KnownDescs,
           a.name # b.name
    PROVE  Registrable(<<a, b>>)
<1> DEFINE ms == <<a, b>>
<1>1. IsSeq(ms) /\ DOMAIN ms = {1, 2} /\ ms[1] = a /\ ms[2] = b
  BY ShortSeqs
<1> HIDE DEF ms
<1>2. Registrable(ms)
  BY <1>1 DEF Registrable, Distinct
<1>3. QED
  BY <1>2 DEF ms

\* Three with different names.
LEMMA Registrable3 ==
    ASSUME NEW a, NEW b, NEW c,
           \A m \in {a, b, c} : IsSeq(m.values) /\ m.name \in DOMAIN KnownDescs,
           a.name # b.name, a.name # c.name, b.name # c.name
    PROVE  Registrable(<<a, b, c>>)
<1> DEFINE ms == <<a, b, c>>
<1>1. IsSeq(ms) /\ DOMAIN ms = {1, 2, 3} /\ ms[1] = a /\ ms[2] = b /\ ms[3] = c
  BY ShortSeqs
<1> HIDE DEF ms
<1>2. Registrable(ms)
  BY <1>1 DEF Registrable, Distinct
<1>3. QED
  BY <1>2 DEF ms

\* Four with different names.
LEMMA Registrable4 ==
    ASSUME NEW a, NEW b, NEW c, NEW d,
           \A m \in {a, b, c, d} : IsSeq(m.values) /\ m.name \in DOMAIN KnownDescs,
           a.name # b.name, a.name # c.name, a.name # d.name, b.name # c.name, b.name # d.name,
           c.name # d.name
    PROVE  Registrable(<<a, b, c, d>>)
<1> DEFINE ms == <<a, b, c, d>>
<1>1. IsSeq(ms) /\ DOMAIN ms = {1, 2, 3, 4} /\ ms[1] = a /\ ms[2] = b /\ ms[3] = c /\ ms[4] = d
  BY ShortSeqs
<1> HIDE DEF ms
<1>2. Registrable(ms)
  BY <1>1 DEF Registrable, Distinct
<1>3. QED
  BY <1>2 DEF ms

\* Append makes a sequence that is one longer.
LEMMA AppendFacts ==
    ASSUME NEW s, IsSeq(s), NEW x
    PROVE  IsSeq(Append(s, x)) /\ Len(Append(s, x)) = Len(s) + 1 /\ Append(s, x) # <<>> /\ Len(s) \in Nat
<1> DEFINE S == ToSet(s) \cup {x}
<1>1. s \in Seq(S) /\ x \in S
  BY SeqMonotonic DEF IsSeq
<1> HIDE DEF S
<1>2. Append(s, x) \in Seq(S) /\ Len(Append(s, x)) = Len(s) + 1 /\ Len(s) \in Nat
  BY <1>1, AppendProperties, LenProperties
<1> DEFINE t == Append(s, x)
<1> HIDE DEF t
<1>3. IsSeq(t) /\ Len(t) = Len(s) + 1
  BY <1>2, SeqIsSeq DEF t
<1>4. t # <<>>
  BY <1>2, <1>3, SeqFacts
<1>5. QED
  BY <1>2, <1>3, <1>4 DEF t

\* Nothing appended changes nothing.
LEMMA ConcatNothing ==
    /\ \A a : <<a>> \o <<>> = <<a>>
    /\ \A a, b : <<a, b>> \o <<>> = <<a, b>>
    /\ \A a, b, c : <<a, b, c>> \o <<>> = <<a, b, c>>
    /\ \A a, b, c, d : <<a, b, c, d>> \o <<>> = <<a, b, c, d>>
<1>1. ASSUME NEW a PROVE <<a>> \o <<>> = <<a>>
  OBVIOUS
<1>2. ASSUME NEW a, NEW b PROVE <<a, b>> \o <<>> = <<a, b>>
  OBVIOUS
<1>3. ASSUME NEW a, NEW b, NEW c PROVE <<a, b, c>> \o <<>> = <<a, b, c>>
  OBVIOUS
<1>4. ASSUME NEW a, NEW b, NEW c, NEW d PROVE <<a, b, c, d>> \o <<>> = <<a, b, c, d>>
  OBVIOUS
<1>5. QED
  BY <1>1, <1>2, <1>3, <1>4, Zenon

\* The metrics of a database.
LEMMA KeyspaceMetricsFacts ==
    ASSUME NEW f
    PROVE  LET v == f.v
               cached == Len(v) > 3 /\ v[4].x > -1
               ttl == Len(v) > 2 /\ v[3].x > -1
           IN  /\ Registrable(keyspaceMetrics(f))
               /\ ToSet(keyspaceMetrics(f)) =
                     {Metric("db_keys", Whole(v[1].x), <<f.i>>), Metric("db_keys_expiring", Whole(v[2].x), <<f.i>>)}
                     \cup (IF cached THEN {Metric("db_keys_cached", Whole(v[4].x), <<f.i>>)} ELSE {})
                     \cup (IF ttl THEN {Metric("db_avg_ttl_seconds", Milli(v[3].x), <<f.i>>)} ELSE {})
<1> DEFINE v == f.v
           cached == Len(v) > 3 /\ v[4].x > -1
           ttl == Len(v) > 2 /\ v[3].x > -1
           a == Metric("db_keys", Whole(v[1].x), <<f.i>>)
           b == Metric("db_keys_expiring", Whole(v[2].x), <<f.i>>)
           c == Metric("db_keys_cached", Whole(v[4].x), <<f.i>>)
           d == Metric("db_avg_ttl_seconds", Milli(v[3].x), <<f.i>>)
           k == keyspaceMetrics(f)
<1>1. k = (<<a, b>> \o If(cached, <<c>>)) \o If(ttl, <<d>>)
  BY DEF keyspaceMetrics
<1>2. /\ a.name = "db_keys" /\ b.name = "db_keys_expiring" /\ c.name = "db_keys_cached"
      /\ d.name = "db_avg_ttl_seconds"
      /\ \A m \in {a, b, c, d} : IsSeq(m.values)
  BY MetricFacts, ShortSeqs
<1>3. \A m \in {a, b, c, d} : m.name \in DOMAIN KnownDescs
  BY <1>2, KnownFacts DEF DbMetrics
<1> HIDE DEF a, b, c, d, k, cached, ttl
<1>4. /\ Registrable(k)
      /\ ToSet(k) = {a, b} \cup (IF cached THEN {c} ELSE {}) \cup (IF ttl THEN {d} ELSE {})
  <2>1. CASE cached /\ ttl
    <3>1. k = <<a, b, c, d>>
      <4>1. <<a, b>> \o <<c>> = <<a, b, c>> /\ <<a, b, c>> \o <<d>> = <<a, b, c, d>>
        BY Concat21, Concat31
      <4>2. QED
        BY <1>1, <2>1, <4>1 DEF If
    <3>2. Registrable(<<a, b, c, d>>)
      BY <1>2, <1>3, Registrable4
    <3>3. QED
      BY <2>1, <3>1, <3>2, ShortSeqs
  <2>2. CASE cached /\ ~ttl
    <3>1. k = <<a, b, c>>
      BY <1>1, <2>2, Concat21, ConcatNothing DEF If
    <3>2. Registrable(<<a, b, c>>)
      BY <1>2, <1>3, Registrable3
    <3>3. QED
      BY <2>2, <3>1, <3>2, ShortSeqs
  <2>3. CASE ~cached /\ ttl
    <3>1. k = <<a, b, d>>
      BY <1>1, <2>3, Concat21, ConcatNothing DEF If
    <3>2. Registrable(<<a, b, d>>)
      BY <1>2, <1>3, Registrable3
    <3>3. QED
      BY <2>3, <3>1, <3>2, ShortSeqs
  <2>4. CASE ~cached /\ ~ttl
    <3>1. k = <<a, b>>
      BY <1>1, <2>4, ConcatNothing DEF If
    <3>2. Registrable(<<a, b>>)
      BY <1>2, <1>3, Registrable2
    <3>3. QED
      BY <2>4, <3>1, <3>2, ShortSeqs
  <2>5. QED
    BY <2>1, <2>2, <2>3, <2>4
<1>5. QED
  BY <1>4 DEF a, b, c, d, k, cached, ttl

\* The metrics of a command.
LEMMA CommandMetricsFacts ==
    ASSUME NEW f
    PROVE  /\ Registrable(commandMetrics(f))
           /\ ToSet(commandMetrics(f)) =
                 IF ~StatsParse(f) THEN {}
                 ELSE {Metric("commands_total", Whole(f.v[1].x), <<f.i>>),
                       Metric("commands_duration_seconds_total", Micro(f.v[2].x), <<f.i>>)}
                      \cup (IF Len(f.v) >= 5
                            THEN {Metric("commands_rejected_calls_total", Whole(f.v[4].x), <<f.i>>),
                                  Metric("commands_failed_calls_total", Whole(f.v[5].x), <<f.i>>)}
                            ELSE {})
<1> DEFINE a == Metric("commands_total", Whole(f.v[1].x), <<f.i>>)
           b == Metric("commands_duration_seconds_total", Micro(f.v[2].x), <<f.i>>)
           c == Metric("commands_rejected_calls_total", Whole(f.v[4].x), <<f.i>>)
           d == Metric("commands_failed_calls_total", Whole(f.v[5].x), <<f.i>>)
           k == commandMetrics(f)
           long == Len(f.v) >= 5
<1>1. k = IF ~StatsParse(f) THEN <<>> ELSE <<a, b>> \o If(long, <<c, d>>)
  BY DEF commandMetrics
<1>2. /\ a.name = "commands_total" /\ b.name = "commands_duration_seconds_total"
      /\ c.name = "commands_rejected_calls_total" /\ d.name = "commands_failed_calls_total"
      /\ \A m \in {a, b, c, d} : IsSeq(m.values)
  BY MetricFacts, ShortSeqs
<1>3. \A m \in {a, b, c, d} : m.name \in DOMAIN KnownDescs
  BY <1>2, KnownFacts DEF CmdMetrics
<1> HIDE DEF a, b, c, d, k, long
<1>4. /\ Registrable(k)
      /\ ToSet(k) = IF ~StatsParse(f) THEN {} ELSE {a, b} \cup (IF long THEN {c, d} ELSE {})
  <2>1. CASE ~StatsParse(f)
    BY <1>1, <2>1, Registrable0, ShortSeqs
  <2>2. CASE StatsParse(f) /\ long
    <3>1. k = <<a, b, c, d>>
      BY <1>1, <2>2, Concat22 DEF If
    <3>2. Registrable(<<a, b, c, d>>)
      BY <1>2, <1>3, Registrable4
    <3>3. QED
      BY <2>2, <3>1, <3>2, ShortSeqs
  <2>3. CASE StatsParse(f) /\ ~long
    <3>1. k = <<a, b>>
      BY <1>1, <2>3, ConcatNothing DEF If
    <3>2. Registrable(<<a, b>>)
      BY <1>2, <1>3, Registrable2
    <3>3. QED
      BY <2>3, <3>1, <3>2, ShortSeqs
  <2>4. QED
    BY <2>1, <2>2, <2>3
<1>5. QED
  BY <1>4 DEF a, b, c, d, k, long

\* The metrics of a replica.
LEMMA ReplicaMetricsFacts ==
    ASSUME NEW v
    PROVE  LET who == <<Get(v, "ip").s, Get(v, "port").s, Get(v, "state").s>>
           IN  /\ Registrable(replicaMetrics(v)) /\ replicaMetrics(v) # <<>>
               /\ ToSet(replicaMetrics(v)) =
                     {Metric("connected_slave_offset_bytes", Whole(Get(v, "offset").x), who)}
                     \cup (IF Has(v, "lag") /\ Get(v, "lag").x > -1
                           THEN {Metric("connected_slave_lag_seconds", Whole(Get(v, "lag").x), who)}
                           ELSE {})
<1> DEFINE who == <<Get(v, "ip").s, Get(v, "port").s, Get(v, "state").s>>
           a == Metric("connected_slave_offset_bytes", Whole(Get(v, "offset").x), who)
           b == Metric("connected_slave_lag_seconds", Whole(Get(v, "lag").x), who)
           lag == Has(v, "lag") /\ Get(v, "lag").x > -1
           k == replicaMetrics(v)
<1>1. k = <<a>> \o If(lag, <<b>>)
  BY DEF replicaMetrics
<1>2. /\ a.name = "connected_slave_offset_bytes" /\ b.name = "connected_slave_lag_seconds"
      /\ \A m \in {a, b} : IsSeq(m.values)
  BY MetricFacts, ShortSeqs
<1>3. \A m \in {a, b} : m.name \in DOMAIN KnownDescs
  BY <1>2, KnownFacts DEF ReplicaMetrics
<1> HIDE DEF a, b, k, lag
<1>4. Registrable(k) /\ k # <<>> /\ ToSet(k) = {a} \cup (IF lag THEN {b} ELSE {})
  <2>1. CASE lag
    <3>1. k = <<a, b>>
      BY <1>1, <2>1, Concat11 DEF If
    <3>2. Registrable(<<a, b>>)
      BY <1>2, <1>3, Registrable2
    <3>3. QED
      BY <2>1, <3>1, <3>2, ShortSeqs
  <2>2. CASE ~lag
    <3>1. k = <<a>>
      BY <1>1, <2>2, ConcatNothing DEF If
    <3>2. Registrable(<<a>>)
      BY <1>2, <1>3, Registrable1
    <3>3. QED
      BY <2>2, <3>1, <3>2, ShortSeqs
  <2>3. QED
    BY <2>1, <2>2
<1>5. QED
  BY <1>4 DEF a, b, k, lag

\* The metrics of a sentinel's master.
LEMMA SentinelMetricsFacts ==
    ASSUME NEW v
    PROVE  /\ Registrable(sentinelMetrics(v))
           /\ \A m \in ToSet(sentinelMetrics(v)) :
                 m.name \in SentinelMetrics \cup {"sentinel_master_status"} /\ m.values # <<>>
<1> DEFINE at == <<Get(v, "name").s, Get(v, "address").s>>
           status == Get(v, "status").s
           a == Metric("sentinel_master_status", Whole(IF status = "ok" THEN 1 ELSE 0), Append(at, status))
           b == Metric("sentinel_master_slaves", Whole(Get(v, "slaves").x), at)
           c == Metric("sentinel_master_sentinels", Whole(Get(v, "sentinels").x), at)
<1>1. sentinelMetrics(v) = <<a, b, c>>
  BY DEF sentinelMetrics
<1>2. IsSeq(Append(at, status)) /\ Append(at, status) # <<>> /\ IsSeq(at) /\ at # <<>>
  <2>1. IsSeq(at) /\ Len(at) = 2
    BY ShortSeqs
  <2> HIDE DEF at, status
  <2>2. QED
    <3>1. IsSeq(at) /\ at # <<>>
      BY <2>1, SeqFacts
    <3>2. QED
      BY <3>1, AppendFacts
<1>3. /\ a.name = "sentinel_master_status" /\ b.name = "sentinel_master_slaves"
      /\ c.name = "sentinel_master_sentinels"
      /\ \A m \in {a, b, c} : IsSeq(m.values) /\ m.values # <<>>
  <2> HIDE DEF at, status
  <2>1. a.values = Append(at, status) /\ b.values = at /\ c.values = at
    BY DEF Metric, Distribution
  <2> DEFINE ap == Append(at, status)
  <2> HIDE DEF ap
  <2>2. QED
    BY <1>2, <2>1, MetricFacts DEF ap
<1>4. \A m \in {a, b, c} : m.name \in DOMAIN KnownDescs
  BY <1>3, KnownFacts DEF SentinelMetrics
<1> HIDE DEF a, b, c
<1>5. Registrable(<<a, b, c>>) /\ ToSet(<<a, b, c>>) = {a, b, c}
  BY <1>3, <1>4, Registrable3, ShortSeqs
<1>6. QED
  BY <1>1, <1>3, <1>5 DEF SentinelMetrics

\* The metrics of a line on replication.
MasterKeys == {"master_link_status", "master_last_io_seconds_ago", "master_sync_in_progress",
               "slave_repl_offset"}

\* What handleMetricsReplication registers for each kind of line (info.go 331-372).
LEMMA ReplicationMetricsFacts ==
    ASSUME NEW p, NEW f
    PROVE  LET ms == replicationMetrics(p, f)
               master == <<p.host, p.port>>
           IN  /\ Registrable(ms)
               /\ \A m \in ToSet(ms) : m.name \in MasterMetrics \cup ReplicaMetrics
               /\ f.k = "master_link_status" =>
                     ms # <<>> /\ ToSet(ms) = {Metric("master_link_up", Whole(IF f.v[1].s = "up" THEN 1 ELSE 0), master)}
               /\ f.k \in MasterKeys \ {"master_link_status"} =>
                     ms # <<>> /\ ToSet(ms) = {Metric(f.k, Whole(Atoi(f.v)), master)}
               /\ f.k \notin MasterKeys /\ parseConnectedSlaveString(f) => ms = replicaMetrics(f.v)
               /\ f.k \notin MasterKeys /\ ~parseConnectedSlaveString(f) => ms = <<>>
<1> DEFINE ms == replicationMetrics(p, f)
           master == <<p.host, p.port>>
           a == Metric("master_link_up", Whole(IF f.v[1].s = "up" THEN 1 ELSE 0), master)
           b == Metric(f.k, Whole(Atoi(f.v)), master)
<1>1. /\ a.name = "master_link_up" /\ a.values = master /\ b.name = f.k /\ b.values = master
      /\ IsSeq(master)
  BY MetricFacts, ShortSeqs
<1>2. CASE f.k = "master_link_status"
  <2>1. ms = <<a>>
    BY <1>2 DEF replicationMetrics, parseConnectedSlaveString
  <2>2. a.name \in MasterMetrics /\ a.name \in DOMAIN KnownDescs
    BY <1>1, KnownFacts DEF MasterMetrics
  <2> HIDE DEF a, ms, master
  <2>3. Registrable(<<a>>) /\ ToSet(<<a>>) = {a} /\ <<a>> # <<>>
    BY <1>1, <2>2, Registrable1, ShortSeqs
  <2>4. Registrable(ms) /\ ToSet(ms) = {a} /\ ms # <<>>
    BY <2>1, <2>3
  <2>5. QED
    BY <1>2, <2>2, <2>4 DEF a, ms, MasterKeys, master
<1>3. CASE f.k \in MasterKeys \ {"master_link_status"}
  <2>1. ms = <<b>>
    BY <1>3 DEF replicationMetrics, MasterKeys, parseConnectedSlaveString
  <2>2. b.name \in MasterMetrics /\ b.name \in DOMAIN KnownDescs
    BY <1>1, <1>3, KnownFacts DEF MasterMetrics, MasterKeys
  <2> HIDE DEF b, ms, master
  <2>3. Registrable(<<b>>) /\ ToSet(<<b>>) = {b} /\ <<b>> # <<>>
    BY <1>1, <2>2, Registrable1, ShortSeqs
  <2>4. Registrable(ms) /\ ToSet(ms) = {b} /\ ms # <<>>
    BY <2>1, <2>3
  <2>5. QED
    BY <1>3, <2>2, <2>4 DEF b, ms, master
<1>4. CASE f.k \notin MasterKeys /\ parseConnectedSlaveString(f)
  <2>1. ms = replicaMetrics(f.v)
    BY <1>4 DEF replicationMetrics, MasterKeys
  <2>2. Registrable(replicaMetrics(f.v))
    BY ReplicaMetricsFacts
  <2>3. \A m \in ToSet(replicaMetrics(f.v)) : m.name \in ReplicaMetrics
    <3> DEFINE v == f.v
               who == <<Get(v, "ip").s, Get(v, "port").s, Get(v, "state").s>>
               x == Metric("connected_slave_offset_bytes", Whole(Get(v, "offset").x), who)
               y == Metric("connected_slave_lag_seconds", Whole(Get(v, "lag").x), who)
    <3>1. ToSet(replicaMetrics(v)) \subseteq {x, y}
      BY ReplicaMetricsFacts
    <3>2. x.name \in ReplicaMetrics /\ y.name \in ReplicaMetrics
      BY MetricFacts DEF ReplicaMetrics
    <3>3. QED
      BY <3>1, <3>2
  <2>4. QED
    BY <1>4, <2>1, <2>2, <2>3 DEF MasterKeys
<1>5. CASE f.k \notin MasterKeys /\ ~parseConnectedSlaveString(f)
  <2>1. ms = <<>>
    BY <1>5 DEF replicationMetrics, MasterKeys
  <2>2. QED
    BY <1>5, <2>1, Registrable0, ShortSeqs DEF MasterKeys
<1>6. QED
  BY <1>2, <1>3, <1>4, <1>5 DEF MasterKeys

\* What each line of INFO sends.
LEMMA LineSends ==
    ASSUME IsExp(exp), InfoLine
    PROVE  Sends(exp, exp', LineMetrics(parse, Head(todo)))
<1> DEFINE f == Head(todo)
           M == LineMetrics(parse, f)
<1>1. CASE HeaderLine
  <2>1. M = {} /\ exp' = exp
    BY <1>1 DEF HeaderLine, LineMetrics
  <2>2. QED
    BY <2>1, SendsNothing
<1>2. CASE ReplicationLine
  <2> DEFINE p == Seen(parse, f)
             ms == replicationMetrics(p, f)
  <2>1. /\ exp' = IF ms # <<>> THEN registerLabelled(exp, ms) ELSE registerField(exp, f)
        /\ f.k # "#" /\ parse.cls = "Replication"
    BY <1>2 DEF ReplicationLine, InClass
  <2>2. M = IF ms # <<>> THEN ToSet(ms) ELSE FieldMetrics(f)
    BY <2>1 DEF LineMetrics
  <2>3. Registrable(ms)
    BY ReplicationMetricsFacts
  <2> HIDE DEF ms, M, f
  <2>4. Sends(exp, exp', M)
    BY <2>1, <2>2, <2>3, RegistrableFacts, FieldFacts
  <2>5. QED
    BY <2>4 DEF M, f
<1>3. CASE ServerLine
  <2> DEFINE g == handleMetricsServer(exp, f)
             N == ServerLineMetrics(f)
  <2>1. exp' = registerField(g, f) /\ f.k # "#" /\ parse.cls = "Server"
    BY <1>3 DEF ServerLine, InClass
  <2>2. M = N \cup FieldMetrics(f)
    BY <2>1 DEF LineMetrics
  <2>3. Sends(exp, g, N) /\ \A m \in N : m.name \in {"start_time_seconds", "hz", "configured_hz"}
    <3>1. CASE f.k = "uptime_in_seconds" /\ f.v[1].s = ""
      <4>1. /\ g = registerPlain(exp, "start_time_seconds", Whole(Now - f.v[1].x))
            /\ N = {Metric("start_time_seconds", Whole(Now - f.v[1].x), <<>>)}
        BY <3>1 DEF handleMetricsServer, ServerLineMetrics
      <4>2. QED
        BY <4>1, PlainFacts, MetricFacts
    <3>2. CASE f.k \in {"hz", "configured_hz"} /\ f.v[1].s = ""
      <4>1. /\ g = registerPlain(exp, f.k, Whole(Atoi(f.v)))
            /\ N = {Metric(f.k, Whole(Atoi(f.v)), <<>>)}
        BY <3>2 DEF handleMetricsServer, ServerLineMetrics
      <4>2. Sends(exp, g, N)
        BY <4>1, PlainFacts
      <4>3. ASSUME NEW m \in N PROVE m.name \in {"start_time_seconds", "hz", "configured_hz"}
        <5>1. m.name = f.k
          BY <4>1, MetricFacts
        <5>2. QED
          BY <3>2, <5>1
      <4>4. QED
        BY <4>2, <4>3
    <3>3. CASE ~(f.k = "uptime_in_seconds" /\ f.v[1].s = "") /\ ~(f.k \in {"hz", "configured_hz"} /\ f.v[1].s = "")
      <4>1. g = exp /\ N = {}
        BY <3>3 DEF handleMetricsServer, ServerLineMetrics
      <4>2. QED
        BY <4>1, SendsNothing
    <3>4. QED
      BY <3>1, <3>2, <3>3
  <2> HIDE DEF g, N, f, M
  <2>4. IsExp(g)
    BY <2>3 DEF Sends
  <2>5. /\ Sends(g, exp', FieldMetrics(f))
        /\ \A m \in FieldMetrics(f) : m.name \in FieldNames
    BY <2>1, <2>4, FieldFacts
  <2>6. \A m \in N, n \in FieldMetrics(f) : m.name # n.name
    BY <2>3, <2>5 DEF FieldNames
  <2>7. Sends(exp, exp', N \cup FieldMetrics(f))
    BY <2>3, <2>5, <2>6, SendsBoth
  <2>8. QED
    BY <2>2, <2>7 DEF M, f
<1>4. CASE CommandstatsLine
  <2>1. exp' = registerLabelled(exp, commandMetrics(f)) /\ f.k # "#" /\ parse.cls = "Commandstats"
    BY <1>4 DEF CommandstatsLine, InClass
  <2>2. M = ToSet(commandMetrics(f))
    BY <2>1 DEF LineMetrics
  <2>3. QED
    BY <2>1, <2>2, CommandMetricsFacts, RegistrableFacts
<1>5. CASE LatencystatsLine
  <2>1. exp' = exp /\ f.k # "#" /\ parse.cls = "Latencystats"
    BY <1>5 DEF LatencystatsLine, InClass
  <2>2. M = {}
    BY <2>1 DEF LineMetrics
  <2>3. QED
    BY <2>1, <2>2, SendsNothing
<1>6. CASE ErrorstatsLine
  <2> DEFINE good == f.k = "errorstat_" /\ Len(f.v) = 1 /\ extractVal(f.v[1])
             a == Metric("errors_total", Whole(f.v[1].x), <<f.i>>)
  <2>1. /\ exp' = IF good THEN registerLabelled(exp, <<a>>) ELSE exp
        /\ f.k # "#" /\ parse.cls = "Errorstats"
    BY <1>6 DEF ErrorstatsLine, InClass
  <2>2. M = IF good THEN {a} ELSE {}
    BY <2>1 DEF LineMetrics
  <2>3. IsSeq(a.values) /\ a.name \in DOMAIN KnownDescs
    BY MetricFacts, ShortSeqs, KnownFacts
  <2> HIDE DEF good, a, M, f
  <2>4. Registrable(<<a>>) /\ ToSet(<<a>>) = {a}
    BY <2>3, Registrable1, ShortSeqs
  <2>5. Sends(exp, registerLabelled(exp, <<a>>), {a})
    <3> DEFINE ms == <<a>>
    <3>1. Registrable(ms) /\ ToSet(ms) = {a}
      BY <2>4
    <3> HIDE DEF ms
    <3>2. QED
      BY <3>1, RegistrableFacts DEF ms
  <2>6. Sends(exp, exp', M)
    BY <2>1, <2>2, <2>5, SendsNothing
  <2>7. QED
    BY <2>6 DEF M, f
<1>7. CASE KeyspaceLine
  <2>1. /\ exp' = IF parseDBKeyspaceString(f) THEN registerLabelled(exp, keyspaceMetrics(f))
                  ELSE registerField(exp, f)
        /\ f.k # "#" /\ parse.cls = "Keyspace"
    BY <1>7 DEF KeyspaceLine, InClass
  <2>2. M = IF parseDBKeyspaceString(f) THEN ToSet(keyspaceMetrics(f)) ELSE FieldMetrics(f)
    BY <2>1 DEF LineMetrics
  <2>3. Registrable(keyspaceMetrics(f))
    BY KeyspaceMetricsFacts
  <2> HIDE DEF f, M
  <2>4. Sends(exp, exp', M)
    BY <2>1, <2>2, <2>3, RegistrableFacts, FieldFacts
  <2>5. QED
    BY <2>4 DEF M, f
<1>8. CASE SentinelLine
  <2> DEFINE g == handleMetricsSentinel(exp, f)
             N == SentinelLineMetrics(f)
  <2>1. exp' = registerField(g, f) /\ f.k # "#" /\ parse.cls = "Sentinel"
    BY <1>8 DEF SentinelLine, InClass
  <2>2. M = N \cup FieldMetrics(f)
    BY <2>1 DEF LineMetrics
  <2>3. /\ Sends(exp, g, N)
        /\ \A m \in N : m.name \in SentinelMetrics \cup {"sentinel_master_status", "sentinel_masters", "sentinel_tilt"}
    <3>1. CASE f.k \in {"sentinel_masters", "sentinel_tilt"}
      <4>1. /\ g = registerPlain(exp, f.k, Whole(Atoi(f.v)))
            /\ N = {Metric(f.k, Whole(Atoi(f.v)), <<>>)}
        BY <3>1 DEF handleMetricsSentinel, SentinelLineMetrics, parseSentinelMasterString
      <4>2. QED
        BY <3>1, <4>1, PlainFacts, MetricFacts
    <3>2. CASE f.k \notin {"sentinel_masters", "sentinel_tilt"} /\ parseSentinelMasterString(f)
      <4>1. g = registerLabelled(exp, sentinelMetrics(f.v)) /\ N = ToSet(sentinelMetrics(f.v))
        BY <3>2 DEF handleMetricsSentinel, SentinelLineMetrics
      <4>2. QED
        BY <4>1, SentinelMetricsFacts, RegistrableFacts
    <3>3. CASE f.k \notin {"sentinel_masters", "sentinel_tilt"} /\ ~parseSentinelMasterString(f)
      <4>1. g = exp /\ N = {}
        BY <3>3 DEF handleMetricsSentinel, SentinelLineMetrics
      <4>2. QED
        BY <4>1, SendsNothing
    <3>4. QED
      BY <3>1, <3>2, <3>3
  <2> HIDE DEF g, N, f, M
  <2>4. IsExp(g)
    BY <2>3 DEF Sends
  <2>5. /\ Sends(g, exp', FieldMetrics(f))
        /\ \A m \in FieldMetrics(f) : m.name \in FieldNames
    BY <2>1, <2>4, FieldFacts
  <2>6. \A m \in N, n \in FieldMetrics(f) : m.name # n.name
    BY <2>3, <2>5 DEF FieldNames, SentinelMetrics
  <2>7. Sends(exp, exp', N \cup FieldMetrics(f))
    BY <2>3, <2>5, <2>6, SendsBoth
  <2>8. QED
    BY <2>2, <2>7 DEF M, f
<1>9. CASE OtherLine
  <2>1. exp' = registerField(exp, f) /\ M = FieldMetrics(f)
    BY <1>9 DEF OtherLine, LineMetrics
  <2>2. QED
    BY <2>1, FieldFacts
<1>10. QED
  BY <1>1, <1>2, <1>3, <1>4, <1>5, <1>6, <1>7, <1>8, <1>9 DEF InfoLine

\* Which lines make which of the labelled metrics.
LEMMA LineNames ==
    ASSUME NEW p, NEW f, NEW m \in LineMetrics(p, f)
    PROVE  /\ f.k # "#"
           /\ m.name \in DbMetrics =>
                 p.cls = "Keyspace" /\ parseDBKeyspaceString(f) /\ m \in ToSet(keyspaceMetrics(f))
           /\ m.name \in CmdMetrics =>
                 p.cls = "Commandstats" /\ StatsParse(f) /\ m \in ToSet(commandMetrics(f))
           /\ m.name \in MasterMetrics \cup ReplicaMetrics =>
                 p.cls = "Replication" /\ m \in ToSet(replicationMetrics(Seen(p, f), f))
           /\ m.name \in DbMetrics \cup CmdMetrics \cup MasterMetrics \cup ReplicaMetrics \cup SentinelMetrics
                         \cup FieldNames
                         \cup {"sentinel_master_status", "sentinel_masters", "sentinel_tilt", "errors_total",
                               "start_time_seconds", "hz", "configured_hz"}
<1>1. f.k # "#"
  BY DEF LineMetrics
<1>2. CASE m \in FieldMetrics(f)
  <2>1. m.name \in FieldNames
    BY <1>2, FieldNameFacts, MetricFacts DEF FieldMetrics
  <2>2. QED
    BY <1>1, <2>1 DEF FieldNames, DbMetrics, CmdMetrics, MasterMetrics, ReplicaMetrics
<1>3. CASE p.cls = "Replication" /\ m \in ToSet(replicationMetrics(Seen(p, f), f))
  <2>1. m.name \in MasterMetrics \cup ReplicaMetrics
    BY <1>3, ReplicationMetricsFacts
  <2>2. QED
    BY <1>1, <1>3, <2>1 DEF DbMetrics, CmdMetrics, MasterMetrics, ReplicaMetrics
<1>4. CASE m \in ServerLineMetrics(f)
  <2>1. m.name \in {"start_time_seconds", "hz", "configured_hz"}
    <3>1. CASE f.k = "uptime_in_seconds" /\ f.v[1].s = ""
      <4>1. ServerLineMetrics(f) = {Metric("start_time_seconds", Whole(Now - f.v[1].x), <<>>)}
        BY <3>1 DEF ServerLineMetrics
      <4>2. QED
        BY <1>4, <4>1, MetricFacts
    <3>2. CASE f.k \in {"hz", "configured_hz"} /\ f.v[1].s = ""
      <4>1. ServerLineMetrics(f) = {Metric(f.k, Whole(Atoi(f.v)), <<>>)}
        BY <3>2 DEF ServerLineMetrics
      <4>2. m.name = f.k
        BY <1>4, <4>1, MetricFacts
      <4>3. QED
        BY <3>2, <4>2
    <3>3. QED
      BY <1>4, <3>1, <3>2 DEF ServerLineMetrics
  <2>2. QED
    BY <1>1, <2>1 DEF DbMetrics, CmdMetrics, MasterMetrics, ReplicaMetrics
<1>5. CASE p.cls = "Commandstats" /\ m \in ToSet(commandMetrics(f))
  <2>1. StatsParse(f) /\ m.name \in CmdMetrics
    <3>1. StatsParse(f)
      BY <1>5, CommandMetricsFacts
    <3> DEFINE a == Metric("commands_total", Whole(f.v[1].x), <<f.i>>)
               b == Metric("commands_duration_seconds_total", Micro(f.v[2].x), <<f.i>>)
               c == Metric("commands_rejected_calls_total", Whole(f.v[4].x), <<f.i>>)
               d == Metric("commands_failed_calls_total", Whole(f.v[5].x), <<f.i>>)
    <3>2. m \in {a, b, c, d}
      BY <1>5, <3>1, CommandMetricsFacts
    <3>3. QED
      BY <3>1, <3>2, MetricFacts DEF CmdMetrics
  <2>2. QED
    BY <1>1, <1>5, <2>1 DEF DbMetrics, CmdMetrics, MasterMetrics, ReplicaMetrics
<1>6. CASE m = Metric("errors_total", Whole(f.v[1].x), <<f.i>>)
  BY <1>1, <1>6, MetricFacts DEF DbMetrics, CmdMetrics, MasterMetrics, ReplicaMetrics
<1>7. CASE p.cls = "Keyspace" /\ parseDBKeyspaceString(f) /\ m \in ToSet(keyspaceMetrics(f))
  <2>1. m.name \in DbMetrics
    <3> DEFINE a == Metric("db_keys", Whole(f.v[1].x), <<f.i>>)
               b == Metric("db_keys_expiring", Whole(f.v[2].x), <<f.i>>)
               c == Metric("db_keys_cached", Whole(f.v[4].x), <<f.i>>)
               d == Metric("db_avg_ttl_seconds", Milli(f.v[3].x), <<f.i>>)
    <3>1. m \in {a, b, c, d}
      BY <1>7, KeyspaceMetricsFacts
    <3>2. QED
      BY <3>1, MetricFacts DEF DbMetrics
  <2>2. QED
    BY <1>1, <1>7, <2>1 DEF DbMetrics, CmdMetrics, MasterMetrics, ReplicaMetrics
<1>8. CASE m \in SentinelLineMetrics(f)
  <2>1. m.name \in SentinelMetrics \cup {"sentinel_master_status", "sentinel_masters", "sentinel_tilt"}
    <3>1. CASE f.k \in {"sentinel_masters", "sentinel_tilt"}
      <4>1. m.name = f.k
        BY <1>8, <3>1, MetricFacts DEF SentinelLineMetrics, parseSentinelMasterString
      <4>2. QED
        BY <3>1, <4>1
    <3>2. CASE f.k \notin {"sentinel_masters", "sentinel_tilt"}
      BY <1>8, <3>2, SentinelMetricsFacts DEF SentinelLineMetrics
    <3>3. QED
      BY <3>1, <3>2
  <2>2. QED
    BY <1>1, <2>1 DEF DbMetrics, CmdMetrics, MasterMetrics, ReplicaMetrics, SentinelMetrics
<1>9. QED
  <2>1. CASE p.cls \in {"Replication", "Server", "Commandstats", "Latencystats"}
    BY <1>1, <1>2, <1>3, <1>4, <1>5, <2>1 DEF LineMetrics
  <2>2. CASE p.cls \in {"Errorstats", "Keyspace", "Sentinel"}
    BY <1>1, <1>2, <1>6, <1>7, <1>8, <2>2 DEF LineMetrics
  <2>3. CASE p.cls \notin {"Replication", "Server", "Commandstats", "Latencystats", "Errorstats", "Keyspace",
                           "Sentinel"}
    BY <1>1, <1>2, <2>3 DEF LineMetrics
  <2>4. QED
    BY <2>1, <2>2, <2>3

-----------------------------------------------------------------------------
(***************************************************************************)
(* The other sections.                                                     *)
(***************************************************************************)
\* Two groups of metrics that share no key.
LEMMA DistinctBoth ==
    ASSUME NEW a, Distinct(a), NEW b, Distinct(b),
           \A m \in ToSet(a), n \in ToSet(b) : <<m.name, m.values>> # <<n.name, n.values>>
    PROVE  Distinct(a \o b) /\ ToSet(a \o b) = ToSet(a) \cup ToSet(b)
<1> DEFINE c == a \o b
<1>1. IsSeq(a) /\ IsSeq(b)
  BY DEF Distinct
<1>2. /\ IsSeq(c) /\ Len(c) = Len(a) + Len(b) /\ Len(a) \in Nat /\ Len(b) \in Nat
      /\ \A i \in 1 .. Len(a) : c[i] = a[i]
      /\ \A i \in 1 .. Len(b) : c[Len(a) + i] = b[i]
      /\ ToSet(c) = ToSet(a) \cup ToSet(b)
  BY <1>1, ConcatFacts
<1> HIDE DEF c
<1>3. DOMAIN a = 1 .. Len(a) /\ DOMAIN b = 1 .. Len(b) /\ DOMAIN c = 1 .. Len(a) + Len(b)
  BY <1>1, <1>2, SeqFacts
<1>4. \A i \in DOMAIN c : \/ i \in DOMAIN a /\ c[i] = a[i] /\ a[i] \in ToSet(a)
                          \/ i - Len(a) \in DOMAIN b /\ c[i] = b[i - Len(a)] /\ b[i - Len(a)] \in ToSet(b)
  <2> SUFFICES ASSUME NEW i \in DOMAIN c
               PROVE  \/ i \in DOMAIN a /\ c[i] = a[i] /\ a[i] \in ToSet(a)
                      \/ i - Len(a) \in DOMAIN b /\ c[i] = b[i - Len(a)] /\ b[i - Len(a)] \in ToSet(b)
    OBVIOUS
  <2>1. CASE i <= Len(a)
    BY <1>1, <1>2, <1>3, <2>1, SeqFacts
  <2>2. CASE ~(i <= Len(a))
    <3>1. i - Len(a) \in 1 .. Len(b) /\ i = Len(a) + (i - Len(a))
      BY <1>2, <1>3, <2>2
    <3>2. QED
      BY <1>1, <1>2, <1>3, <3>1, SeqFacts
  <2>3. QED
    BY <2>1, <2>2
<1>5. \A i \in DOMAIN c : IsSeq(c[i].values)
  BY <1>4 DEF Distinct
<1>6. ASSUME NEW i \in DOMAIN c, NEW j \in DOMAIN c, i # j
      PROVE  <<c[i].name, c[i].values>> # <<c[j].name, c[j].values>>
  <2>1. CASE i \in DOMAIN a /\ c[i] = a[i] /\ a[i] \in ToSet(a)
             /\ j \in DOMAIN a /\ c[j] = a[j] /\ a[j] \in ToSet(a)
    BY <1>6, <2>1 DEF Distinct
  <2>2. CASE (c[i] \in ToSet(a) /\ c[j] \in ToSet(b)) \/ (c[j] \in ToSet(a) /\ c[i] \in ToSet(b))
    BY <2>2
  <2>3. CASE /\ i - Len(a) \in DOMAIN b /\ c[i] = b[i - Len(a)]
             /\ j - Len(a) \in DOMAIN b /\ c[j] = b[j - Len(a)]
    <3>1. i - Len(a) # j - Len(a)
      BY <1>2, <1>3, <1>6
    <3>2. QED
      BY <2>3, <3>1 DEF Distinct
  <2>4. QED
    BY <1>4, <2>1, <2>2, <2>3
<1>7. QED
  BY <1>2, <1>5, <1>6 DEF Distinct, c

\* Two lists of metrics without a common series can be registered together.
LEMMA RegistrableBoth ==
    ASSUME NEW a, Registrable(a), NEW b, Registrable(b),
           \A m \in ToSet(a), n \in ToSet(b) : <<m.name, m.values>> # <<n.name, n.values>>
    PROVE  Registrable(a \o b) /\ ToSet(a \o b) = ToSet(a) \cup ToSet(b)
<1> DEFINE c == a \o b
<1>1. Distinct(c) /\ ToSet(c) = ToSet(a) \cup ToSet(b)
  BY DistinctBoth DEF Registrable
<1> HIDE DEF c
<1>2. \A m \in ToSet(a) \cup ToSet(b) : m.name \in DOMAIN KnownDescs
  BY DEF Registrable, ToSet
<1>3. \A i \in DOMAIN c : c[i] \in ToSet(c)
  BY DEF ToSet
<1>4. QED
  BY <1>1, <1>2, <1>3 DEF Registrable, c

\* Flattening one sequence, or none.
LEMMA FlattenOne ==
    ASSUME NEW q
    PROVE  FlattenSeq(<<q>>) = q
<1> DEFINE ss == <<q>>
           f == CHOOSE f : Flattens(ss, Len(ss), f)
<1>1. Len(ss) = 1 /\ ss[1] = q
  OBVIOUS
<1> HIDE DEF ss
<1>2. \E g : Flattens(ss, Len(ss), g)
  BY <1>1, FlattensExists
<1>3. Flattens(ss, Len(ss), f)
  BY <1>2, Zenon
<1>4. FlattenSeq(ss) = f[Len(ss)]
  <2>1. Len(ss) # 0
    BY <1>1
  <2>2. QED
    BY <2>1, FlattenMeaning, Zenon DEF f
<1> HIDE DEF f
<1>5. f = [i \in 1 .. Len(ss) |-> IF i = 1 THEN ss[i] ELSE f[i - 1] \o ss[i]]
  BY <1>3, Zenon DEF Flattens
<1>6. f[1] = ss[1]
  BY <1>1, <1>5
<1>7. QED
  BY <1>1, <1>4, <1>6 DEF ss

\* Nothing flattened is nothing.
LEMMA FlattenNone == FlattenSeq(<<>>) = <<>>
BY DEF FlattenSeq

\* CONFIG GET.
DatabasesLine == Field("databases", "", <<Num("", Databases)>>)
MaxmemoryLine == Field("maxmemory", "", <<Num("", 9)>>)
PassLine == Field("requirepass", "", <<Txt("", "pw")>>)
LimitLine == Field("client-output-buffer-limit", "", <<Txt("", "normal"), Num("", 1), Num("", 2), Num("", 3)>>)

\* The four lines of CONFIG GET.
LEMMA ConfigTextFacts ==
    ConfigText = <<DatabasesLine, MaxmemoryLine, PassLine, LimitLine>>
<1>1. ConfigText = ((<<DatabasesLine>> \o <<MaxmemoryLine>>) \o <<PassLine>>) \o <<LimitLine>>
  BY DEF ConfigText, Line, DatabasesLine, MaxmemoryLine, PassLine, LimitLine
<1>2. /\ <<DatabasesLine>> \o <<MaxmemoryLine>> = <<DatabasesLine, MaxmemoryLine>>
      /\ <<DatabasesLine, MaxmemoryLine>> \o <<PassLine>> = <<DatabasesLine, MaxmemoryLine, PassLine>>
      /\ <<DatabasesLine, MaxmemoryLine, PassLine>> \o <<LimitLine>>
           = <<DatabasesLine, MaxmemoryLine, PassLine, LimitLine>>
  BY Concat11, Concat21, Concat31
<1>3. QED
  BY <1>1, <1>2

ConfigMetrics(f) ==
    ToSet(settingMetrics(f)) \cup ToSet(limitMetrics(f))
    \cup (IF f.k = "maxmemory" THEN {Metric("config_maxmemory", Whole(Atoi(f.v)), <<>>)} ELSE {})

\* A setting's metrics carry the setting's name as their first label (exporter.go 703-727).
LEMMA SettingFacts ==
    ASSUME NEW f
    PROVE  /\ Registrable(settingMetrics(f))
           /\ \A m \in ToSet(settingMetrics(f)) :
                 \/ m.name = "config_key_value" /\ Len(m.values) = 2 /\ m.values[1] = f.k
                 \/ m.name = "config_value" /\ m.values = <<f.k>>
<1> DEFINE p == f.v[1]
           w == IF p.s = "" THEN Itoa(p.x) ELSE p.s
           a == Metric("config_key_value", Whole(1), <<f.k, w>>)
           b == Metric("config_value", Whole(p.x), <<f.k>>)
           c == opts.config /\ (f.k \notin Redacted \/ ~opts.redact)
           s == settingMetrics(f)
<1>1. s = If(c, <<a>> \o If(Len(f.v) = 1 /\ p.s = "", <<b>>))
  BY DEF settingMetrics
<1>2. /\ a.name = "config_key_value" /\ a.values = <<f.k, w>> /\ b.name = "config_value" /\ b.values = <<f.k>>
      /\ IsSeq(a.values) /\ IsSeq(b.values) /\ Len(a.values) = 2 /\ a.values[1] = f.k
  <2> HIDE DEF w
  <2>1. QED
    BY MetricFacts, ShortSeqs
<1>3. a.name \in DOMAIN KnownDescs /\ b.name \in DOMAIN KnownDescs
  BY <1>2, KnownFacts
<1> HIDE DEF a, b, c, s
<1>4. s = <<>> \/ s = <<a>> \/ s = <<a, b>>
  BY <1>1, Concat11, ConcatNothing DEF If
<1>5. Registrable(s) /\ ToSet(s) \subseteq {a, b}
  <2>1. CASE s = <<>>
    BY <2>1, Registrable0, ShortSeqs
  <2>2. CASE s = <<a>>
    <3>1. Registrable(<<a>>)
      BY <1>2, <1>3, Registrable1
    <3>2. QED
      BY <2>2, <3>1, ShortSeqs
  <2>3. CASE s = <<a, b>>
    <3>1. Registrable(<<a, b>>)
      BY <1>2, <1>3, Registrable2
    <3>2. QED
      BY <2>3, <3>1, ShortSeqs
  <2>4. QED
    BY <1>4, <2>1, <2>2, <2>3
<1>6. QED
  BY <1>2, <1>5 DEF s

\* Only the line of the output buffer limits gives limits.
LEMMA LimitFacts ==
    ASSUME NEW f \in ToSet(ConfigText)
    PROVE  /\ Registrable(limitMetrics(f))
           /\ \A m \in ToSet(limitMetrics(f)) : m.name \in LimitMetrics /\ f.k = "client-output-buffer-limit"
<1>1. f \in {DatabasesLine, MaxmemoryLine, PassLine, LimitLine}
  BY ConfigTextFacts, ShortSeqs
<1>2. CASE f.k # "client-output-buffer-limit"
  <2>1. limitMetrics(f) = <<>>
    BY <1>2 DEF limitMetrics, If
  <2>2. QED
    BY <2>1, Registrable0, ShortSeqs
<1>3. CASE f.k = "client-output-buffer-limit"
  <2>1. Len(f.v) = 4
    <3>1. f = LimitLine
      <4>1. DatabasesLine.k = "databases" /\ MaxmemoryLine.k = "maxmemory" /\ PassLine.k = "requirepass"
        BY DEF DatabasesLine, MaxmemoryLine, PassLine, Field
      <4>2. QED
        BY <1>1, <1>3, <4>1
    <3>2. f.v = <<Txt("", "normal"), Num("", 1), Num("", 2), Num("", 3)>>
      BY <3>1 DEF LimitLine, Field
    <3>3. QED
      BY <3>2, ShortSeqs
  <2> DEFINE V(j) == SubSeq(f.v, 4 * j - 3, 4 * j)
             A(v) == Metric("config_client_output_buffer_limit_bytes", Whole(v[2].x), <<v[1].s, "hard">>)
             B(v) == Metric("config_client_output_buffer_limit_bytes", Whole(v[3].x), <<v[1].s, "soft">>)
             C(v) == Metric("config_client_output_buffer_limit_overcome_seconds", Whole(v[4].x),
                            <<v[1].s, "soft">>)
             ss == [j \in 1 .. Len(f.v) \div 4 |-> <<A(V(j)), B(V(j)), C(V(j))>>]
             a == A(V(1))
             b == B(V(1))
             c == C(V(1))
  <2>2. limitMetrics(f) = FlattenSeq(ss)
    BY <1>3 DEF limitMetrics, If
  <2>3. ss = <<<<a, b, c>>>>
    <3>1. Len(f.v) \div 4 = 1
      BY <2>1
    <3>2. ss = [j \in 1 .. 1 |-> <<A(V(j)), B(V(j)), C(V(j))>>]
      BY <3>1
    <3> HIDE DEF A, B, C, V, ss
    <3>3. QED
      BY <3>2
  <2>4. FlattenSeq(ss) = <<a, b, c>>
    <3> HIDE DEF a, b, c, ss
    <3>1. QED
      BY <2>3, FlattenOne
  <2>5. /\ a.name = "config_client_output_buffer_limit_bytes" /\ b.name = a.name
        /\ c.name = "config_client_output_buffer_limit_overcome_seconds"
        /\ \A m \in {a, b, c} : IsSeq(m.values)
        /\ a.values # b.values
    <3> HIDE DEF V
    <3>1. a.values = <<V(1)[1].s, "hard">> /\ b.values = <<V(1)[1].s, "soft">> /\ c.values = b.values
      BY MetricFacts
    <3> HIDE DEF A, B, C
    <3>2. IsSeq(a.values) /\ IsSeq(b.values) /\ a.values # b.values
      <4> DEFINE x == V(1)[1].s
      <4> HIDE DEF x
      <4>1. IsSeq(<<x, "hard">>) /\ IsSeq(<<x, "soft">>) /\ <<x, "hard">> # <<x, "soft">>
        BY ShortSeqs
      <4> HIDE DEF a, b, c
      <4>2. QED
        BY <3>1, <4>1 DEF x
    <3>3. QED
      BY <3>1, <3>2, MetricFacts DEF A, B, C
  <2>6. \A m \in {a, b, c} : m.name \in LimitMetrics /\ m.name \in DOMAIN KnownDescs
    BY <2>5, KnownFacts DEF LimitMetrics
  <2> HIDE DEF a, b, c, ss
  <2>7. Registrable(<<a, b, c>>) /\ ToSet(<<a, b, c>>) = {a, b, c}
    <3> DEFINE ms == <<a, b, c>>
    <3>1. IsSeq(ms) /\ DOMAIN ms = {1, 2, 3} /\ ms[1] = a /\ ms[2] = b /\ ms[3] = c /\ ToSet(ms) = {a, b, c}
      BY ShortSeqs
    <3> HIDE DEF ms
    <3>2. Registrable(ms)
      BY <2>5, <2>6, <3>1 DEF Registrable, Distinct
    <3>3. QED
      BY <3>1, <3>2 DEF ms
  <2>8. QED
    BY <1>3, <2>2, <2>4, <2>6, <2>7
<1>4. QED
  BY <1>2, <1>3

\* What a step of extractConfigMetrics sends.
LEMMA ConfigSends ==
    ASSUME IsExp(exp), extractConfigMetrics, Head(todo) \in ToSet(ConfigText)
    PROVE  Sends(exp, exp', ConfigMetrics(Head(todo)))
<1> DEFINE f == Head(todo)
           S == settingMetrics(f)
           L == limitMetrics(f)
           e == registerLabelled(exp, S \o L)
           N == IF f.k = "maxmemory" THEN {Metric("config_maxmemory", Whole(Atoi(f.v)), <<>>)} ELSE {}
<1>1. exp' = IF f.k = "maxmemory" THEN registerPlain(e, "config_maxmemory", Whole(Atoi(f.v))) ELSE e
  BY DEF extractConfigMetrics
<1>2. /\ Registrable(S) /\ Registrable(L)
      /\ \A m \in ToSet(S) : m.name \in {"config_key_value", "config_value"}
      /\ \A m \in ToSet(L) : m.name \in LimitMetrics
  BY SettingFacts, LimitFacts
<1>3. ConfigMetrics(f) = (ToSet(S) \cup ToSet(L)) \cup N
  BY DEF ConfigMetrics
<1>4. IF f.k = "maxmemory" THEN N = {Metric("config_maxmemory", Whole(Atoi(f.v)), <<>>)} ELSE N = {}
  OBVIOUS
<1> HIDE DEF f, S, L, N
<1>5. Registrable(S \o L) /\ ToSet(S \o L) = ToSet(S) \cup ToSet(L)
  <2>1. \A m \in ToSet(S), n \in ToSet(L) : m.name # n.name
    BY <1>2 DEF LimitMetrics
  <2>2. QED
    BY <1>2, <2>1, RegistrableBoth
<1>6. Sends(exp, e, ToSet(S) \cup ToSet(L)) /\ IsExp(e)
  <2> DEFINE q == S \o L
  <2> HIDE DEF q
  <2>1. Sends(exp, registerLabelled(exp, q), ToSet(q))
    BY <1>5, RegistrableFacts DEF q
  <2>2. QED
    BY <1>5, <2>1 DEF q, Sends
<1> HIDE DEF e
<1>7. Sends(e, exp', N) /\ \A m \in N : m.name = "config_maxmemory"
  <2>1. CASE f.k = "maxmemory"
    <3>1. /\ exp' = registerPlain(e, "config_maxmemory", Whole(Atoi(f.v)))
          /\ N = {Metric("config_maxmemory", Whole(Atoi(f.v)), <<>>)}
      BY <1>1, <1>4, <2>1
    <3>2. QED
      BY <1>6, <3>1, PlainFacts, MetricFacts
  <2>2. CASE f.k # "maxmemory"
    <3>1. exp' = e /\ N = {}
      BY <1>1, <1>4, <2>2
    <3>2. QED
      BY <1>6, <3>1, SendsNothing
  <2>3. QED
    BY <2>1, <2>2
<1>8. \A m \in ToSet(S) \cup ToSet(L), n \in N : m.name # n.name
  BY <1>2, <1>7 DEF LimitMetrics
<1>9. Sends(exp, exp', (ToSet(S) \cup ToSet(L)) \cup N)
  BY <1>6, <1>7, <1>8, SendsBoth
<1>10. QED
  BY <1>3, <1>9 DEF f

\* SetToSeq lists each element of a finite set once.
LEMMA SetToSeqFacts ==
    ASSUME NEW S, IsFiniteSet(S)
    PROVE  /\ IsSeq(SetToSeq(S)) /\ ToSet(SetToSeq(S)) = S
           /\ \A i, j \in DOMAIN SetToSeq(S) : i # j => SetToSeq(S)[i] # SetToSeq(S)[j]
<1> DEFINE n == Cardinality(S)
           f == SetToSeq(S)
<1>1. n \in Nat /\ ExistsBijection(1 .. n, S)
  BY FS_CardinalityType
<1>2. PICK g : g \in Bijection(1 .. n, S)
  BY <1>1 DEF ExistsBijection
<1>3. g \in [1 .. n -> S] /\ IsInjective(g)
  BY <1>2 DEF Bijection, Injection
<1>4. f \in [1 .. n -> S] /\ IsInjective(f)
  BY <1>3 DEF SetToSeq
<1>5. f \in Injection(1 .. n, S)
  BY <1>4 DEF Injection
<1>6. IsFiniteSet(1 .. n) /\ Cardinality(1 .. n) = n
  BY <1>1, FS_Interval
<1>7. f \in Surjection(1 .. n, S)
  BY <1>5, <1>6, FS_Injection
<1>8. \A x \in S : \E i \in 1 .. n : f[i] = x
  BY <1>7 DEF Surjection
<1>9. IsSeq(f)
  <2> HIDE DEF f, n
  <2>1. f \in Seq(S)
    BY <1>1, <1>4
  <2>2. QED
    BY <2>1, SeqIsSeq
<1>10. ToSet(f) = S
  <2> HIDE DEF f, n
  <2>1. QED
    BY <1>4, <1>8 DEF ToSet
<1>11. \A i, j \in DOMAIN f : i # j => f[i] # f[j]
  BY <1>4 DEF IsInjective
<1>12. QED
  BY <1>9, <1>10, <1>11

\* A sequence made of another one, element by element.
LEMMA MapFacts ==
    ASSUME NEW s, IsSeq(s), NEW t, DOMAIN t = DOMAIN s, t = [i \in DOMAIN s |-> t[i]]
    PROVE  IsSeq(t) /\ Len(t) = Len(s) /\ DOMAIN t = 1 .. Len(s) /\ Len(s) \in Nat
<1>1. Len(s) \in Nat /\ DOMAIN s = 1 .. Len(s)
  BY SeqFacts
<1>2. DOMAIN t = 1 .. Len(s) /\ t = [i \in 1 .. Len(s) |-> t[i]]
  BY <1>1
<1>3. QED
  BY <1>1, <1>2, TableFacts

\* The summaries of the commands.
Summary(p, c) ==
    Distribution("latency_percentiles_usec", Whole(p.stats[c].usec), <<c>>, p.stats[c].calls, p.lat[c])
Summaries(p) == {Summary(p, c) : c \in DOMAIN p.lat \cap DOMAIN p.stats}

\* The fields of a command's summary.
LEMMA SummaryFields ==
    ASSUME NEW p, NEW c
    PROVE  /\ Summary(p, c).name = "latency_percentiles_usec" /\ Summary(p, c).values = <<c>>
           /\ Summary(p, c).val = Whole(p.stats[c].usec) /\ Summary(p, c).count = p.stats[c].calls
           /\ Summary(p, c).dist = p.lat[c]
BY DEF Summary, Distribution

\* generateCommandLatencySummaries sends one summary per command that both sections list.
LEMMA SummarySends ==
    ASSUME NEW e, IsExp(e), NEW p, IsFiniteSet(DOMAIN p.lat)
    PROVE  Sends(e, generateCommandLatencySummaries(e, p), Summaries(p))
<1> DEFINE C == DOMAIN p.lat \cap DOMAIN p.stats
           cs == SetToSeq(C)
           ms == [i \in DOMAIN cs |-> Summary(p, cs[i])]
           d == createMetricDescription(e, "latency_percentiles_usec", <<"cmd">>)
           g == registerDistributions(d, ms)
<1>1. generateCommandLatencySummaries(e, p) = g
  BY DEF generateCommandLatencySummaries, Summary
<1>2. IsFiniteSet(C)
  BY FS_Subset
<1> HIDE DEF C
<1>3. IsSeq(cs) /\ ToSet(cs) = C /\ \A i, j \in DOMAIN cs : i # j => cs[i] # cs[j]
  BY <1>2, SetToSeqFacts
<1> HIDE DEF cs
<1>4. DOMAIN ms = DOMAIN cs /\ ms = [i \in DOMAIN cs |-> ms[i]] /\ \A i \in DOMAIN cs : ms[i] = Summary(p, cs[i])
  OBVIOUS
<1> HIDE DEF ms
<1>5. IsSeq(ms) /\ DOMAIN ms = 1 .. Len(cs) /\ Len(cs) \in Nat
  BY <1>3, <1>4, MapFacts
<1>6. /\ IsExp(d) /\ Keeps(e, d) /\ d.out = e.out
      /\ DOMAIN d.descs = DOMAIN e.descs \cup {"latency_percentiles_usec"}
  BY CreateFacts DEF createMetricDescription
<1>7. "latency_percentiles_usec" \in DOMAIN e.descs /\ d.descs["latency_percentiles_usec"] = <<"cmd">>
  <2>1. "latency_percentiles_usec" \in CmdMetrics
    BY DEF CmdMetrics
  <2>2. QED
    BY <1>6, <2>1, KnownFacts DEF IsExp
<1> HIDE DEF d
<1>8. \A i \in DOMAIN ms : ms[i].name = "latency_percentiles_usec" /\ ms[i].values = <<cs[i]>>
  BY <1>4, SummaryFields
<1>9. \A i \in DOMAIN ms : IsSeq(ms[i].values) /\ Fits(d, ms[i])
  <2>1. \A i \in DOMAIN ms : Len(ms[i].values) = 1 /\ IsSeq(ms[i].values)
    BY <1>8, ShortSeqs
  <2>2. Len(<<"cmd">>) = 1
    OBVIOUS
  <2>3. QED
    BY <1>6, <1>7, <1>8, <2>1, <2>2 DEF Fits, Known
<1>10. Different(ms)
  <2> SUFFICES ASSUME NEW i \in DOMAIN ms, NEW j \in DOMAIN ms, i < j
               PROVE  <<ms[i].name, ms[i].values>> # <<ms[j].name, ms[j].values>>
    BY DEF Different
  <2>1. i # j
    BY <1>5
  <2>2. <<cs[i]>> # <<cs[j]>>
    BY <1>3, <1>4, <2>1
  <2>3. QED
    BY <1>8, <2>2
<1>11. Sends(d, g, ToSet(ms))
  BY <1>5, <1>6, <1>9, <1>10, DistributionFacts
<1>12. Sends(e, g, ToSet(ms))
  <2>1. DOMAIN d.descs = DOMAIN e.descs
    BY <1>6, <1>7
  <2> HIDE DEF g
  <2>2. QED
    BY <1>6, <1>11, <2>1, CreatedThenSent
<1>13. ToSet(ms) = Summaries(p)
  <2>1. ToSet(ms) = {Summary(p, cs[i]) : i \in DOMAIN cs}
    BY <1>4 DEF ToSet
  <2>2. C = {cs[i] : i \in DOMAIN cs}
    BY <1>3 DEF ToSet
  <2>3. QED
    BY <2>1, <2>2 DEF Summaries, C
<1>14. QED
  BY <1>1, <1>12, <1>13

\* The databases that are not listed.
Unlisted(p) == {Itoa(d) : d \in 0 .. dbCount - 1} \ p.handled
Pads(p) == {Metric("db_keys", Whole(0), <<n>>) : n \in Unlisted(p)}
           \cup {Metric("db_keys_expiring", Whole(0), <<n>>) : n \in Unlisted(p)}

\* One metric of value 0 for each of several names.
LEMMA PadRow ==
    ASSUME NEW name \in DbMetrics, NEW s, IsSeq(s), \A i, j \in DOMAIN s : i # j => s[i] # s[j]
    PROVE  LET ms == Each(LAMBDA i : Metric(name, Whole(0), <<s[i]>>), Len(s))
           IN  Registrable(ms) /\ ToSet(ms) = {Metric(name, Whole(0), <<n>>) : n \in ToSet(s)}
<1> DEFINE F(i) == Metric(name, Whole(0), <<s[i]>>)
           ms == Each(F, Len(s))
<1>1. ms = [i \in 1 .. Len(s) |-> F(i)]
  BY DEF Each
<1>2. Len(s) \in Nat /\ DOMAIN s = 1 .. Len(s)
  BY SeqFacts
<1>3. DOMAIN ms = 1 .. Len(s) /\ ms = [i \in 1 .. Len(s) |-> ms[i]] /\ \A i \in 1 .. Len(s) : ms[i] = F(i)
  <2> HIDE DEF F, ms
  <2>1. QED
    BY <1>1
<1>4. \A i \in 1 .. Len(s) : ms[i].name = name /\ ms[i].values = <<s[i]>>
  <2>1. \A i \in 1 .. Len(s) : F(i).name = name /\ F(i).values = <<s[i]>>
    BY MetricFacts
  <2> HIDE DEF ms, F
  <2>2. QED
    BY <1>3, <2>1
<1>5. ToSet(ms) = {F(i) : i \in DOMAIN s}
  <2> HIDE DEF F, ms
  <2>1. QED
    BY <1>2, <1>3 DEF ToSet
<1>6. ToSet(ms) = {Metric(name, Whole(0), <<n>>) : n \in ToSet(s)}
  <2>1. ToSet(s) = {s[i] : i \in DOMAIN s}
    BY DEF ToSet
  <2>2. QED
    BY <1>5, <2>1
<1>7. Registrable(ms)
  <2> HIDE DEF F, ms
  <2>1. IsSeq(ms)
    BY <1>2, <1>3, TableFacts
  <2>2. \A i \in DOMAIN ms : IsSeq(ms[i].values) /\ ms[i].name \in DOMAIN KnownDescs
    <3>1. name \in DOMAIN KnownDescs
      BY KnownFacts
    <3>2. \A i \in DOMAIN ms : IsSeq(<<s[i]>>)
      BY ShortSeqs
    <3>3. QED
      BY <1>3, <1>4, <3>1, <3>2
  <2>3. ASSUME NEW i \in DOMAIN ms, NEW j \in DOMAIN ms, i # j
        PROVE  <<ms[i].name, ms[i].values>> # <<ms[j].name, ms[j].values>>
    <3>1. <<s[i]>> # <<s[j]>>
      BY <1>2, <1>3, <2>3
    <3>2. QED
      BY <1>3, <1>4, <3>1
  <2>4. QED
    BY <2>1, <2>2, <2>3 DEF Registrable, Distinct
<1>8. QED
  BY <1>6, <1>7

\* padDatabases sends a 0 for every database that is not listed.
LEMMA PadSends ==
    ASSUME NEW e, IsExp(e), NEW p, dbCount \in Nat
    PROVE  Sends(e, padDatabases(e, p), Pads(p))
<1> DEFINE S == Unlisted(p)
           s == SetToSeq(S)
           a == Each(LAMBDA i : Metric("db_keys", Whole(0), <<s[i]>>), Len(s))
           b == Each(LAMBDA i : Metric("db_keys_expiring", Whole(0), <<s[i]>>), Len(s))
<1>1. padDatabases(e, p) = registerLabelled(e, a \o b)
  BY DEF padDatabases, Unlisted
<1>2. IsFiniteSet(S)
  <2>1. IsFiniteSet(0 .. dbCount - 1)
    <3>1. dbCount - 1 \in Int
      OBVIOUS
    <3>2. QED
      BY <3>1, FS_Interval
  <2>2. IsFiniteSet({Itoa(d) : d \in 0 .. dbCount - 1})
    <3> DEFINE D == 0 .. dbCount - 1
               I == {Itoa(d) : d \in D}
               g == [d \in D |-> Itoa(d)]
    <3>1. g \in [D -> I] /\ \A x \in I : \E d \in D : g[d] = x
      OBVIOUS
    <3>2. g \in Surjection(D, I)
      BY <3>1 DEF Surjection
    <3> HIDE DEF D, I, g
    <3>3. QED
      BY <2>1, <3>2, FS_Surjection DEF D, I
  <2>3. QED
    BY <2>2, FS_Subset DEF Unlisted
<1> HIDE DEF S
<1>3. IsSeq(s) /\ ToSet(s) = S /\ \A i, j \in DOMAIN s : i # j => s[i] # s[j]
  BY <1>2, SetToSeqFacts
<1> HIDE DEF s
<1>4. "db_keys" \in DbMetrics /\ "db_keys_expiring" \in DbMetrics
  BY DEF DbMetrics
<1>5. /\ Registrable(a) /\ ToSet(a) = {Metric("db_keys", Whole(0), <<n>>) : n \in S}
      /\ Registrable(b) /\ ToSet(b) = {Metric("db_keys_expiring", Whole(0), <<n>>) : n \in S}
  BY <1>3, <1>4, PadRow
<1> HIDE DEF a, b
<1>6. \A m \in ToSet(a), n \in ToSet(b) : m.name = "db_keys" /\ n.name = "db_keys_expiring"
  <2>1. /\ \A n \in S : Metric("db_keys", Whole(0), <<n>>).name = "db_keys"
        /\ \A n \in S : Metric("db_keys_expiring", Whole(0), <<n>>).name = "db_keys_expiring"
    BY MetricFacts
  <2>2. QED
    BY <1>5, <2>1
<1>7. Registrable(a \o b) /\ ToSet(a \o b) = ToSet(a) \cup ToSet(b)
  BY <1>5, <1>6, RegistrableBoth
<1> DEFINE q == a \o b
<1> HIDE DEF q
<1>8. Sends(e, registerLabelled(e, q), ToSet(q))
  BY <1>7, RegistrableFacts DEF q
<1>9. QED
  BY <1>1, <1>5, <1>7, <1>8 DEF q, Pads, S

\* The labels of the instance.
InstanceMetric(kv) == Metric("instance_info", Whole(1), instanceValues(kv))
SlaveMetric(kv) ==
    Metric("slave_info", Whole(1), <<Value(kv, "master_host"), Value(kv, "master_port"),
                                     Value(kv, "slave_read_only")>>)
InstanceMetrics(kv) ==
    {InstanceMetric(kv)} \cup (IF Value(kv, "role") = "slave" THEN {SlaveMetric(kv)} ELSE {})

\* The ten labels that every instance has.
LEMMA BaseLabelFacts == IsSeq(BaseLabels) /\ Len(BaseLabels) = 10 /\ DOMAIN BaseLabels = 1 .. 10
<1>1. DOMAIN BaseLabels = 1 .. 10 /\ BaseLabels = [i \in 1 .. 10 |-> BaseLabels[i]]
  BY DEF BaseLabels
<1>2. QED
  BY <1>1, TableFacts

IfSeq(b, x) == If(b, <<x>>)
\* A sequence of one element or of none.
LEMMA IfSeqFacts ==
    ASSUME NEW b, NEW x
    PROVE  /\ IsSeq(IfSeq(b, x)) /\ Len(IfSeq(b, x)) = IF b THEN 1 ELSE 0
           /\ b => IfSeq(b, x)[1] = x
<1>1. <<x>>[1] = x
  OBVIOUS
<1>2. QED
  BY <1>1, ShortSeqs DEF IfSeq, If

\* Ten labels that every server has and up to two more.
More1(kv) == "valkey_version" \in DOMAIN kv
More2(kv) == "valkey_release_stage" \in DOMAIN kv
More(kv) == IF More1(kv) THEN 11 ELSE 10
WithMore(kv, base, x, y) == (base \o IfSeq(More1(kv), x)) \o IfSeq(More2(kv), y)

\* Ten elements and up to two more, and where these are.
LEMMA TwoMore ==
    ASSUME NEW kv, NEW base, IsSeq(base), Len(base) = 10, NEW x, NEW y, NEW q, q = WithMore(kv, base, x, y)
    PROVE  /\ IsSeq(q) /\ Len(q) = (IF More2(kv) THEN More(kv) + 1 ELSE More(kv))
           /\ \A i \in 1 .. 10 : q[i] = base[i]
           /\ More1(kv) => q[11] = x
           /\ More2(kv) => q[More(kv) + 1] = y
<1> DEFINE a == More1(kv)
           b == More2(kv)
           n == More(kv)
           s == IfSeq(a, x)
           t == IfSeq(b, y)
           p == base \o s
<1>1. /\ IsSeq(s) /\ Len(s) = IF a THEN 1 ELSE 0
      /\ a => s[1] = x
  BY IfSeqFacts
<1>2. /\ IsSeq(t) /\ Len(t) = IF b THEN 1 ELSE 0
      /\ b => t[1] = y
  BY IfSeqFacts
<1> HIDE DEF s, t
<1>3. /\ IsSeq(p) /\ Len(p) = Len(base) + Len(s)
      /\ \A i \in 1 .. Len(base) : p[i] = base[i]
      /\ \A i \in 1 .. Len(s) : p[Len(base) + i] = s[i]
  <2>1. IsSeq(base) /\ IsSeq(s)
    BY <1>1
  <2>2. QED
    BY ONLY <2>1, ConcatFacts
<1> HIDE DEF p
<1>4. /\ IsSeq(q) /\ Len(q) = Len(p) + Len(t)
      /\ \A i \in 1 .. Len(p) : q[i] = p[i]
      /\ \A i \in 1 .. Len(t) : q[Len(p) + i] = t[i]
  <2>1. IsSeq(p) /\ IsSeq(t) /\ q = p \o t
    BY <1>2, <1>3 DEF p, s, t, WithMore
  <2>2. QED
    BY ONLY <2>1, ConcatFacts
<1>5. Len(p) = n /\ n \in {10, 11}
  BY <1>1, <1>3 DEF More
<1>6. Len(q) = (IF b THEN n + 1 ELSE n)
  BY <1>2, <1>4, <1>5
<1>7. \A i \in 1 .. 10 : q[i] = base[i]
  <2>1. \A i \in 1 .. 10 : i \in 1 .. Len(p) /\ i \in 1 .. Len(base)
    BY <1>1, <1>5
  <2>2. QED
    BY <1>3, <1>4, <2>1
<1>8. ASSUME a PROVE q[11] = x
  <2>1. Len(base) = 10 /\ Len(s) = 1 /\ Len(p) = 11 /\ s[1] = x
    BY <1>1, <1>5, <1>8 DEF More
  <2>2. p[10 + 1] = s[1]
    BY <1>3, <2>1
  <2>3. q[11] = p[11]
    BY <1>4, <2>1
  <2>4. QED
    BY <2>1, <2>2, <2>3
<1>9. ASSUME b PROVE q[n + 1] = y
  <2>1. Len(t) = 1 /\ Len(p) = n /\ t[1] = y
    BY <1>2, <1>5, <1>9
  <2>2. q[Len(p) + 1] = t[1]
    BY <1>4, <2>1
  <2>3. QED
    BY <2>1, <2>2
<1>10. QED
  BY <1>4, <1>6, <1>7, <1>8, <1>9

\* The labels of instance_info and their values, place by place (info.go 172-197).
LEMMA InstanceFacts ==
    ASSUME NEW kv
    PROVE  LET n == More(kv)
               len == IF More2(kv) THEN n + 1 ELSE n
               l == instanceLabels(kv)
               v == instanceValues(kv)
           IN  /\ IsSeq(l) /\ IsSeq(v) /\ Len(l) = len /\ Len(v) = len
               /\ \A i \in 1 .. 10 : l[i] = BaseLabels[i] /\ v[i] = Value(kv, BaseLabels[i])
               /\ More1(kv) => l[11] = "valkey_version" /\ v[11] = Value(kv, "valkey_version")
               /\ More2(kv) => l[n + 1] = "valkey_release_stage" /\ v[n + 1] = Value(kv, "valkey_release_stage")
<1> DEFINE base == [i \in DOMAIN BaseLabels |-> Value(kv, BaseLabels[i])]
           l == instanceLabels(kv)
           v == instanceValues(kv)
<1>1. IsSeq(base) /\ Len(base) = 10 /\ \A i \in 1 .. 10 : base[i] = Value(kv, BaseLabels[i])
  <2>1. DOMAIN base = DOMAIN BaseLabels /\ base = [i \in DOMAIN BaseLabels |-> base[i]]
        /\ \A i \in DOMAIN BaseLabels : base[i] = Value(kv, BaseLabels[i])
    OBVIOUS
  <2> HIDE DEF base
  <2>2. QED
    BY <2>1, BaseLabelFacts, MapFacts
<1>2. l = WithMore(kv, BaseLabels, "valkey_version", "valkey_release_stage")
  BY DEF instanceLabels, IfSeq, WithMore, More1, More2
<1>3. v = WithMore(kv, base, Value(kv, "valkey_version"), Value(kv, "valkey_release_stage"))
  BY DEF instanceValues, IfSeq, WithMore, More1, More2
<1> HIDE DEF base, l, v
<1>4. /\ IsSeq(l) /\ Len(l) = (IF More2(kv) THEN More(kv) + 1 ELSE More(kv))
      /\ \A i \in 1 .. 10 : l[i] = BaseLabels[i]
      /\ More1(kv) => l[11] = "valkey_version"
      /\ More2(kv) => l[More(kv) + 1] = "valkey_release_stage"
  BY <1>2, BaseLabelFacts, TwoMore
<1>5. /\ IsSeq(v) /\ Len(v) = (IF More2(kv) THEN More(kv) + 1 ELSE More(kv))
      /\ \A i \in 1 .. 10 : v[i] = base[i]
      /\ More1(kv) => v[11] = Value(kv, "valkey_version")
      /\ More2(kv) => v[More(kv) + 1] = Value(kv, "valkey_release_stage")
  BY <1>1, <1>3, TwoMore
<1>6. QED
  BY <1>1, <1>4, <1>5 DEF l, v

\* registerInstance sends one or two metrics and describes instance_info if nothing did before.
LEMMA InstanceSends ==
    ASSUME NEW e, IsExp(e), NEW kv
    PROVE  LET g == registerInstance(e, kv)
           IN  /\ Sends(e, g, InstanceMetrics(kv))
               /\ DOMAIN g.descs = DOMAIN e.descs \cup {"instance_info"}
               /\ "instance_info" \notin DOMAIN e.descs => g.descs["instance_info"] = instanceLabels(kv)
<1> DEFINE slave == Value(kv, "role") = "slave"
           a == InstanceMetric(kv)
           b == SlaveMetric(kv)
           d == createMetricDescription(e, "instance_info", instanceLabels(kv))
           ms == <<a>> \o If(slave, <<b>>)
           g == registerLabelled(d, ms)
<1>1. registerInstance(e, kv) = g
  BY DEF registerInstance, InstanceMetric, SlaveMetric
<1>2. InstanceMetrics(kv) = {a} \cup (IF slave THEN {b} ELSE {})
  BY DEF InstanceMetrics
<1>3. /\ IsExp(d) /\ Keeps(e, d) /\ d.out = e.out
      /\ DOMAIN d.descs = DOMAIN e.descs \cup {"instance_info"}
      /\ "instance_info" \notin DOMAIN e.descs => d.descs["instance_info"] = instanceLabels(kv)
  BY CreateFacts DEF createMetricDescription
<1>4. /\ a.name = "instance_info" /\ b.name = "slave_info" /\ IsSeq(a.values) /\ IsSeq(b.values)
  <2>1. IsSeq(instanceValues(kv))
    BY InstanceFacts
  <2>2. QED
    BY <2>1, MetricFacts, ShortSeqs DEF InstanceMetric, SlaveMetric
<1> HIDE DEF a, b, d, slave
<1>5. Known(d, a.name) /\ Known(d, b.name)
  BY <1>3, <1>4, KnownFacts DEF Known, IsExp
<1>6. /\ IsSeq(ms) /\ ToSet(ms) = {a} \cup (IF slave THEN {b} ELSE {}) /\ Different(ms)
      /\ \A i \in DOMAIN ms : IsSeq(ms[i].values) /\ Known(d, ms[i].name)
  <2>1. CASE slave
    <3>1. ms = <<a, b>>
      BY <2>1, Concat11 DEF If
    <3> HIDE DEF ms
    <3>2. IsSeq(ms) /\ DOMAIN ms = {1, 2} /\ ms[1] = a /\ ms[2] = b /\ ToSet(ms) = {a, b}
      BY <3>1, ShortSeqs
    <3>3. QED
      BY <1>4, <1>5, <2>1, <3>2 DEF Different
  <2>2. CASE ~slave
    <3>1. ms = <<a>>
      BY <2>2, ConcatNothing DEF If
    <3> HIDE DEF ms
    <3>2. IsSeq(ms) /\ DOMAIN ms = {1} /\ ms[1] = a /\ ToSet(ms) = {a}
      BY <3>1, ShortSeqs
    <3>3. QED
      BY <1>4, <1>5, <2>2, <3>2 DEF Different
  <2>3. QED
    BY <2>1, <2>2
<1> HIDE DEF ms
<1>7. Sends(d, g, ToSet(ms)) /\ g.descs = d.descs
  BY <1>3, <1>6, LabelledFacts
<1> HIDE DEF g
<1>8. Sends(e, g, ToSet(ms))
  <2>1. \A n \in DOMAIN d.descs : n \in DOMAIN e.descs \/ \E m \in ToSet(ms) : m.name = n
    BY <1>3, <1>4, <1>6
  <2>2. QED
    BY <1>3, <1>7, <2>1, CreatedThenSent
<1>9. QED
  BY <1>1, <1>2, <1>3, <1>6, <1>7, <1>8

\* The end of INFO.
DoneMetrics(pad) == Summaries(parse) \cup (IF pad THEN Pads(parse) ELSE {}) \cup InstanceMetrics(parse.kv)

\* What the end of extractInfoMetrics sends.
LEMMA DoneSends ==
    ASSUME IsExp(exp), NEW pad, InfoDone(pad), dbCount \in Nat, IsFiniteSet(DOMAIN parse.lat)
    PROVE  /\ Sends(exp, exp', DoneMetrics(pad))
           /\ "instance_info" \notin DOMAIN exp.descs => exp'.descs["instance_info"] = instanceLabels(parse.kv)
<1> DEFINE e == generateCommandLatencySummaries(exp, parse)
           g == IF pad THEN padDatabases(e, parse) ELSE e
           A == Summaries(parse)
           B == IF pad THEN Pads(parse) ELSE {}
           C == InstanceMetrics(parse.kv)
<1>1. exp' = registerInstance(g, parse.kv)
  BY DEF InfoDone
<1>2. Sends(exp, e, A) /\ IsExp(e)
  BY SummarySends DEF Sends
<1> HIDE DEF e
<1>3. Sends(e, g, B) /\ IsExp(g)
  <2>1. CASE pad
    BY <1>2, <2>1, PadSends, ZenonT(60) DEF Sends
  <2>2. CASE ~pad
    BY <1>2, <2>2, SendsNothing
  <2>3. QED
    BY <2>1, <2>2
<1> HIDE DEF g
<1>4. /\ Sends(g, exp', C)
      /\ "instance_info" \notin DOMAIN g.descs => exp'.descs["instance_info"] = instanceLabels(parse.kv)
  BY <1>1, <1>3, InstanceSends
<1>5. \A m \in A : m.name = "latency_percentiles_usec"
  BY SummaryFields DEF Summaries
<1>6. \A m \in B : m.name \in {"db_keys", "db_keys_expiring"}
  <2>1. \A n : /\ Metric("db_keys", Whole(0), <<n>>).name = "db_keys"
               /\ Metric("db_keys_expiring", Whole(0), <<n>>).name = "db_keys_expiring"
    BY MetricFacts
  <2>2. QED
    BY <2>1 DEF Pads
<1>7. \A m \in C : m.name \in {"instance_info", "slave_info"}
  BY MetricFacts DEF InstanceMetrics, InstanceMetric, SlaveMetric
<1> HIDE DEF A, B, C
<1>8. Sends(exp, g, A \cup B)
  BY <1>2, <1>3, <1>5, <1>6, SendsBoth
<1>9. Sends(exp, exp', (A \cup B) \cup C)
  BY <1>4, <1>5, <1>6, <1>7, <1>8, SendsBoth
<1>10. "instance_info" \notin DOMAIN exp.descs => "instance_info" \notin DOMAIN g.descs
  BY <1>5, <1>6, <1>8 DEF Sends
<1>11. QED
  BY <1>4, <1>9, <1>10 DEF DoneMetrics, A, B, C

\* LATENCY LATEST.
SpikeSet ==
    IF opts.latency /\ "LATENCY" \notin sv.denied
    THEN {Metric("latency_spike_last", Whole(6), <<"fork">>),
          Metric("latency_spike_duration_seconds", Milli(8), <<"fork">>)}
    ELSE {}

\* What extractLatencyLatestMetrics sends.
LEMMA LatestSends ==
    ASSUME IsExp(exp), extractLatencyLatestMetrics
    PROVE  Sends(exp, exp', SpikeSet)
<1> DEFINE asked == opts.latency /\ "LATENCY" \notin sv.denied
           spikes == If(asked, LatestAnswer)
           Q(r) == <<Metric("latency_spike_last", Whole(r.last), <<r.event>>),
                     Metric("latency_spike_duration_seconds", Milli(r.duration), <<r.event>>)>>
           ss == [i \in DOMAIN spikes |-> Q(spikes[i])]
           a == Metric("latency_spike_last", Whole(6), <<"fork">>)
           b == Metric("latency_spike_duration_seconds", Milli(8), <<"fork">>)
           ms == FlattenSeq(ss)
<1>1. exp' = registerLabelled(exp, ms)
  BY DEF extractLatencyLatestMetrics
<1>2. Registrable(ms) /\ ToSet(ms) = SpikeSet
  <2>1. CASE ~asked
    <3>1. spikes = <<>>
      BY <2>1 DEF If
    <3>2. ss = <<>>
      BY <3>1
    <3>3. ms = <<>>
      BY <3>2, FlattenNone
    <3>4. QED
      BY <2>1, <3>3, Registrable0, ShortSeqs DEF SpikeSet
  <2>2. CASE asked
    <3> DEFINE r == [event |-> "fork", last |-> 6, duration |-> 8]
    <3>1. spikes = <<r>>
      BY <2>2 DEF If, LatestAnswer
    <3>2. Q(r) = <<a, b>>
      OBVIOUS
    <3>3. ss = <<Q(r)>>
      <4> HIDE DEF Q, r, spikes
      <4>1. QED
        BY <3>1
    <3>4. ms = <<a, b>>
      <4> HIDE DEF Q, ss, a, b, r
      <4>1. QED
        BY <3>2, <3>3, FlattenOne
    <3>5. /\ a.name = "latency_spike_last" /\ b.name = "latency_spike_duration_seconds"
          /\ IsSeq(a.values) /\ IsSeq(b.values)
      BY MetricFacts, ShortSeqs
    <3>6. a.name \in DOMAIN KnownDescs /\ b.name \in DOMAIN KnownDescs
      BY <3>5, KnownFacts DEF SpikeMetrics
    <3>7. SpikeSet = {a, b}
      BY <2>2 DEF SpikeSet
    <3> HIDE DEF a, b, ms
    <3>8. Registrable(<<a, b>>) /\ ToSet(<<a, b>>) = {a, b}
      BY <3>5, <3>6, Registrable2, ShortSeqs
    <3>9. QED
      BY <3>4, <3>7, <3>8
  <2>3. QED
    BY <2>1, <2>2
<1> HIDE DEF ms
<1>3. QED
  BY <1>1, <1>2, RegistrableFacts

\* LATENCY HISTOGRAM.
Histogram(h) ==
    Distribution("commands_latencies_usec", Whole(extractTotalUsecForCommand(h.cmd)), <<h.cmd>>, h.calls, h.buckets)

\* The fields of a command's histogram.
LEMMA HistogramFields ==
    ASSUME NEW h
    PROVE  /\ Histogram(h).name = "commands_latencies_usec" /\ Histogram(h).values = <<h.cmd>>
           /\ Histogram(h).val = Whole(extractTotalUsecForCommand(h.cmd)) /\ Histogram(h).count = h.calls
BY DEF Histogram, Distribution

HistogramSet(h) == IF h.scans THEN {Histogram(h)} ELSE {}

\* What one entry of LATENCY HISTOGRAM sends.
LEMMA HistogramSends ==
    ASSUME IsExp(exp), extractLatencyHistogramMetrics
    PROVE  Sends(exp, exp', HistogramSet(Head(todo)))
<1> DEFINE h == Head(todo)
           e == createMetricDescription(exp, "commands_latencies_usec", <<"cmd">>)
           m == Histogram(h)
           g == registerDistributions(e, <<m>>)
<1>1. CASE ~h.scans
  BY <1>1, SendsNothing DEF extractLatencyHistogramMetrics, HistogramSet
<1>2. CASE h.scans
  <2>1. exp' = g
    BY <1>2 DEF extractLatencyHistogramMetrics, Histogram
  <2>2. /\ IsExp(e) /\ Keeps(exp, e) /\ e.out = exp.out
        /\ DOMAIN e.descs = DOMAIN exp.descs \cup {"commands_latencies_usec"}
    BY CreateFacts DEF createMetricDescription
  <2>3. "commands_latencies_usec" \in DOMAIN exp.descs /\ e.descs["commands_latencies_usec"] = <<"cmd">>
    <3>1. "commands_latencies_usec" \in CmdMetrics
      BY DEF CmdMetrics
    <3>2. QED
      BY <2>2, <3>1, KnownFacts DEF IsExp
  <2>4. m.name = "commands_latencies_usec" /\ m.values = <<h.cmd>> /\ IsSeq(m.values) /\ Len(m.values) = 1
    <3>1. m.name = "commands_latencies_usec" /\ m.values = <<h.cmd>>
      BY HistogramFields
    <3>2. IsSeq(<<h.cmd>>) /\ Len(<<h.cmd>>) = 1
      BY ShortSeqs
    <3>3. QED
      BY <3>1, <3>2
  <2> HIDE DEF e, m, h
  <2>5. Fits(e, m)
    <3>1. Len(<<"cmd">>) = 1
      OBVIOUS
    <3>2. QED
      BY <2>2, <2>3, <2>4, <3>1 DEF Fits, Known
  <2> DEFINE ms == <<m>>
  <2>6. /\ IsSeq(ms) /\ DOMAIN ms = {1} /\ ms[1] = m /\ ToSet(ms) = {m}
        /\ Different(ms) /\ \A i \in DOMAIN ms : IsSeq(ms[i].values)
    BY <2>4, SingleFacts
  <2>7. g = registerDistributions(e, ms)
    OBVIOUS
  <2> HIDE DEF ms, g
  <2>8. Sends(e, g, {m})
    BY <2>2, <2>5, <2>6, <2>7, DistributionFacts
  <2>9. Sends(exp, g, {m})
    <3>1. DOMAIN e.descs = DOMAIN exp.descs
      BY <2>2, <2>3
    <3>2. QED
      BY <2>2, <2>8, <3>1, CreatedThenSent
  <2>10. QED
    BY <1>2, <2>1, <2>9 DEF HistogramSet, m, h
<1>3. QED
  BY <1>1, <1>2

\* The modules.
ModuleSet(f) == IF f.k = "module" THEN ToSet(moduleMetrics(f)) ELSE FieldMetrics(f)

\* A module gives one metric when it has seven properties, none otherwise.
LEMMA ModuleMetricsFacts ==
    ASSUME NEW f
    PROVE  /\ Registrable(moduleMetrics(f))
           /\ \A m \in ToSet(moduleMetrics(f)) :
                 Len(f.v) = 7 /\ m.name = "module_info" /\ m.values = [i \in 1 .. 6 |-> f.v[i].s]
<1> DEFINE w == [i \in 1 .. 6 |-> f.v[i].s]
           a == Metric("module_info", Whole(1), w)
<1>1. moduleMetrics(f) = If(Len(f.v) = 7, <<a>>)
  BY DEF moduleMetrics
<1>2. IsSeq(w)
  <2>1. DOMAIN w = 1 .. 6 /\ w = [i \in 1 .. 6 |-> w[i]]
    OBVIOUS
  <2> HIDE DEF w
  <2>2. QED
    BY <2>1, TableFacts
<1>3. a.name = "module_info" /\ a.values = w /\ a.name \in DOMAIN KnownDescs
  <2> HIDE DEF w
  <2>1. QED
    BY MetricFacts, KnownFacts
<1> HIDE DEF a, w
<1>4. CASE Len(f.v) = 7
  <2>1. moduleMetrics(f) = <<a>>
    BY <1>1, <1>4 DEF If
  <2>2. Registrable(<<a>>) /\ ToSet(<<a>>) = {a}
    BY <1>2, <1>3, Registrable1, ShortSeqs
  <2>3. QED
    BY <1>3, <1>4, <2>1, <2>2 DEF w
<1>5. CASE Len(f.v) # 7
  <2>1. moduleMetrics(f) = <<>>
    BY <1>1, <1>5 DEF If
  <2>2. QED
    BY <2>1, Registrable0, ShortSeqs
<1>6. QED
  BY <1>4, <1>5

\* What one line of INFO MODULES sends.
LEMMA ModuleSends ==
    ASSUME IsExp(exp), extractModulesMetrics
    PROVE  Sends(exp, exp', ModuleSet(Head(todo)))
<1> DEFINE f == Head(todo)
<1>1. exp' = IF f.k = "module" THEN registerLabelled(exp, moduleMetrics(f)) ELSE registerField(exp, f)
  BY DEF extractModulesMetrics
<1>2. Registrable(moduleMetrics(f))
  BY ModuleMetricsFacts
<1> HIDE DEF f
<1>3. Sends(exp, exp', ModuleSet(f))
  BY <1>1, <1>2, RegistrableFacts, FieldFacts DEF ModuleSet
<1>4. QED
  BY <1>3 DEF f

\* CLIENT LIST: the names and the order of a client's metrics.
ClientNames == ToSet(ClientMetrics) \cup {"connected_client_shard_channel_subscriptions_count",
                                          "connected_client_shard_channel_watched_keys"}

\* The names of a client's ten numbers are different, and none is in the table.
LEMMA ClientMetricsFacts ==
    /\ IsSeq(ClientMetrics) /\ Len(ClientMetrics) = 10 /\ DOMAIN ClientMetrics = 1 .. 10
    /\ \A i, j \in 1 .. 10 : i # j => ClientMetrics[i] # ClientMetrics[j]
    /\ \A n \in ToSet(ClientMetrics) :
          n \notin DOMAIN KnownDescs
          /\ n \notin {"connected_client_shard_channel_subscriptions_count",
                       "connected_client_shard_channel_watched_keys", "connected_client_info"}
<1>1. DOMAIN ClientMetrics = 1 .. 10 /\ ClientMetrics = [i \in 1 .. 10 |-> ClientMetrics[i]]
  BY DEF ClientMetrics
<1>2. IsSeq(ClientMetrics) /\ Len(ClientMetrics) = 10
  BY <1>1, TableFacts
<1>3. \A i, j \in 1 .. 10 : i # j => ClientMetrics[i] # ClientMetrics[j]
  <2>1. \A i \in 1 .. 10 : i \in {1, 2, 3, 4, 5, 6, 7, 8, 9, 10}
    OBVIOUS
  <2>2. QED
    BY <2>1 DEF ClientMetrics
<1>4. ToSet(ClientMetrics) =
      {"connected_client_output_buffer_memory_usage_bytes", "connected_client_total_memory_consumed_bytes",
      "connected_client_created_at_timestamp", "connected_client_idle_since_timestamp",
      "connected_client_channel_subscriptions_count", "connected_client_pattern_matching_subscriptions_count",
      "connected_client_query_buffer_length_bytes", "connected_client_query_buffer_free_space_bytes",
      "connected_client_output_buffer_length_bytes", "connected_client_output_list_length"}
  BY DEF ClientMetrics, ToSet
<1>5. \A n \in ToSet(ClientMetrics) :
          n \notin {"connected_client_shard_channel_subscriptions_count",
                       "connected_client_shard_channel_watched_keys", "connected_client_info"}
  BY <1>4
<1>6. \A n \in ToSet(ClientMetrics) : n \notin DOMAIN KnownDescs
  BY <1>4, KnownFacts DEF CmdMetrics, DbMetrics, MasterMetrics, ReplicaMetrics, SpikeMetrics, SentinelMetrics,
                          PlainMetrics, LimitMetrics
<1>7. QED
  BY <1>1, <1>2, <1>3, <1>5, <1>6

\* One or no metric.
LEMMA DistinctIf ==
    ASSUME NEW b, NEW m, IsSeq(m.values)
    PROVE  Distinct(If(b, <<m>>)) /\ ToSet(If(b, <<m>>)) = IF b THEN {m} ELSE {}
<1>1. CASE b
  <2> DEFINE ms == <<m>>
  <2>1. IsSeq(ms) /\ DOMAIN ms = {1} /\ ms[1] = m /\ ToSet(ms) = {m}
    BY SingleFacts
  <2>2. If(b, <<m>>) = ms
    BY <1>1 DEF If
  <2> HIDE DEF ms
  <2>3. Distinct(ms)
    BY <2>1 DEF Distinct
  <2>4. QED
    BY <1>1, <2>1, <2>2, <2>3
<1>2. CASE ~b
  <2>1. If(b, <<m>>) = <<>>
    BY <1>2 DEF If
  <2>2. Distinct(<<>>) /\ ToSet(<<>>) = {}
    BY Registrable0, ShortSeqs DEF Registrable
  <2>3. QED
    BY <1>2, <2>1, <2>2
<1>3. QED
  BY <1>1, <1>2

\* A client's numbers carry its id and its name (clients.go 168-249).
LEMMA ClientNumbersSent ==
    ASSUME NEW v
    PROVE  /\ Distinct(clientMetrics(v))
           /\ \A m \in ToSet(clientMetrics(v)) :
                 m.name \in ClientNames /\ m.values = <<Text(v, "id"), Text(v, "name")>>
<1> DEFINE who == <<Text(v, "id"), Text(v, "name")>>
           F(j) == Metric(ClientMetrics[j], Whole(ClientNumber(v, ClientNumbers[j])), who)
           q == [j \in DOMAIN ClientMetrics |-> F(j)]
           x == Metric("connected_client_shard_channel_subscriptions_count", Whole(Get(v, "ssub").x), who)
           y == Metric("connected_client_shard_channel_watched_keys", Whole(Get(v, "watch").x), who)
           s == If(Has(v, "ssub"), <<x>>)
           t == If(Has(v, "watch"), <<y>>)
<1>1. clientMetrics(v) = (q \o s) \o t
  BY DEF clientMetrics
<1>2. IsSeq(who)
  BY ShortSeqs
<1> HIDE DEF who
<1>3. /\ x.name = "connected_client_shard_channel_subscriptions_count" /\ x.values = who
      /\ y.name = "connected_client_shard_channel_watched_keys" /\ y.values = who
  BY MetricFacts
<1>4. Distinct(s) /\ ToSet(s) \subseteq {x} /\ Distinct(t) /\ ToSet(t) \subseteq {y}
  <2> HIDE DEF x, y
  <2>1. Distinct(s) /\ ToSet(s) \subseteq {x}
    BY <1>2, <1>3, DistinctIf
  <2>2. Distinct(t) /\ ToSet(t) \subseteq {y}
    BY <1>2, <1>3, DistinctIf
  <2>3. QED
    BY <2>1, <2>2
<1>5. \A j \in 1 .. 10 : F(j).name = ClientMetrics[j] /\ F(j).values = who
  BY MetricFacts
<1>6. DOMAIN q = 1 .. 10 /\ q = [j \in 1 .. 10 |-> q[j]] /\ \A j \in 1 .. 10 : q[j] = F(j)
  <2> HIDE DEF F
  <2>1. QED
    BY ClientMetricsFacts
<1> HIDE DEF F, q, s, t, x, y
<1>7. Distinct(q) /\ \A m \in ToSet(q) : m.name \in ToSet(ClientMetrics) /\ m.values = who
  <2>1. IsSeq(q) /\ Len(q) = 10
    BY <1>6, TableFacts
  <2>2. \A j \in DOMAIN q : q[j].name = ClientMetrics[j] /\ q[j].values = who
    BY <1>5, <1>6
  <2>3. \A i, j \in DOMAIN q : i # j => q[i].name # q[j].name
    BY <1>6, <2>2, ClientMetricsFacts
  <2>4. Distinct(q)
    BY <1>2, <2>1, <2>2, <2>3 DEF Distinct
  <2>5. \A m \in ToSet(q) : m.name \in ToSet(ClientMetrics) /\ m.values = who
    <3>1. \A j \in DOMAIN q : ClientMetrics[j] \in ToSet(ClientMetrics)
      BY <1>6, ClientMetricsFacts DEF ToSet
    <3>2. QED
      BY <2>2, <3>1 DEF ToSet
  <2>6. QED
    BY <2>4, <2>5
<1>8. Distinct(q \o s) /\ ToSet(q \o s) = ToSet(q) \cup ToSet(s)
  <2>1. \A m \in ToSet(q), n \in ToSet(s) : m.name # n.name
    BY <1>3, <1>4, <1>7, ClientMetricsFacts
  <2>2. QED
    BY <1>4, <1>7, <2>1, DistinctBoth
<1> DEFINE p == q \o s
<1> HIDE DEF p
<1>9. Distinct(p \o t) /\ ToSet(p \o t) = ToSet(p) \cup ToSet(t)
  <2>1. \A m \in ToSet(p), n \in ToSet(t) : m.name # n.name
    BY <1>3, <1>4, <1>7, <1>8, ClientMetricsFacts DEF p
  <2>2. QED
    BY <1>4, <1>8, <2>1, DistinctBoth DEF p
<1>10. \A m \in ToSet(p \o t) : m.name \in ClientNames /\ m.values = who
  BY <1>3, <1>4, <1>7, <1>8, <1>9 DEF p, ClientNames
<1>11. QED
  BY <1>1, <1>9, <1>10 DEF p, who

\* Registering different metrics that have descriptions sends exactly them.
LEMMA DistinctFacts ==
    ASSUME NEW e, IsExp(e), NEW ms, Distinct(ms), \A m \in ToSet(ms) : Known(e, m.name)
    PROVE  Sends(e, registerLabelled(e, ms), ToSet(ms)) /\ registerLabelled(e, ms).descs = e.descs
<1>1. \A i, j \in DOMAIN ms : i < j => i # j
  <2>1. DOMAIN ms = 1 .. Len(ms) /\ Len(ms) \in Nat
    BY SeqFacts DEF Distinct
  <2>2. QED
    BY <2>1
<1>2. /\ IsSeq(ms) /\ \A i \in DOMAIN ms : IsSeq(ms[i].values)
      /\ Different(ms) /\ \A i \in DOMAIN ms : Known(e, ms[i].name)
  BY <1>1 DEF Distinct, Different, ToSet
<1>3. QED
  BY <1>2, LabelledFacts

\* Names and values in step: the pairs are in S.
Zips(a, b, S) ==
    /\ IsSeq(a) /\ IsSeq(b) /\ Len(a) = Len(b)
    /\ \A i \in 1 .. Len(a) : <<a[i], b[i]>> \in S

\* Labels and values stay in step when both grow alike.
LEMMA ZipMore ==
    ASSUME NEW a, NEW b, NEW S, Zips(a, b, S), NEW s, NEW t, NEW R, Zips(s, t, R)
    PROVE  /\ Zips(a \o s, b \o t, S \cup R)
           /\ Len(a \o s) = Len(a) + Len(s) /\ Len(a) \in Nat /\ Len(s) \in Nat
<1> DEFINE p == a \o s
           q == b \o t
<1>3. IsSeq(a) /\ IsSeq(b) /\ Len(a) = Len(b) /\ Len(a) \in Nat
  BY SeqFacts DEF Zips
<1>2. IsSeq(s) /\ IsSeq(t) /\ Len(s) = Len(t) /\ Len(s) \in Nat
  BY SeqFacts DEF Zips
<1>4. /\ IsSeq(p) /\ Len(p) = Len(a) + Len(s)
      /\ \A i \in 1 .. Len(a) : p[i] = a[i]
      /\ \A i \in 1 .. Len(s) : p[Len(a) + i] = s[i]
  <2>1. IsSeq(a) /\ IsSeq(s)
    BY <1>2, <1>3
  <2>2. QED
    BY ONLY <2>1, ConcatFacts
<1>5. /\ IsSeq(q) /\ Len(q) = Len(b) + Len(t)
      /\ \A i \in 1 .. Len(b) : q[i] = b[i]
      /\ \A i \in 1 .. Len(t) : q[Len(b) + i] = t[i]
  <2>1. IsSeq(b) /\ IsSeq(t)
    BY <1>2, <1>3
  <2>2. QED
    BY ONLY <2>1, ConcatFacts
<1> HIDE DEF p, q
<1>6. ASSUME NEW i \in 1 .. Len(p) PROVE <<p[i], q[i]>> \in S \cup R
  <2>1. CASE i <= Len(a)
    <3>1. i \in 1 .. Len(a) /\ i \in 1 .. Len(b)
      BY <1>3, <2>1
    <3>2. p[i] = a[i] /\ q[i] = b[i] /\ <<a[i], b[i]>> \in S
      BY <1>4, <1>5, <3>1 DEF Zips
    <3>3. QED
      BY <3>2
  <2>2. CASE i > Len(a)
    <3> DEFINE j == i - Len(a)
    <3>1. j \in 1 .. Len(s) /\ j \in 1 .. Len(t) /\ i = Len(a) + j /\ i = Len(b) + j
      BY <1>2, <1>3, <1>4, <2>2
    <3> HIDE DEF j
    <3>2. p[i] = s[j] /\ q[i] = t[j] /\ <<s[j], t[j]>> \in R
      BY <1>4, <1>5, <3>1 DEF Zips
    <3>3. QED
      BY <3>2
  <2>3. QED
    BY <1>3, <2>1, <2>2
<1>7. Len(p) = Len(q) /\ Len(p) = Len(a) + Len(s)
  BY <1>2, <1>3, <1>4, <1>5
<1>8. QED
  BY <1>2, <1>3, <1>4, <1>5, <1>6, <1>7 DEF Zips, p, q

\* One label and one value are in step.
LEMMA ZipOne ==
    /\ Zips(<<>>, <<>>, {}) /\ Len(<<>>) = 0
    /\ \A x, y : Zips(<<x>>, <<y>>, {<<x, y>>}) /\ Len(<<x>>) = 1
<1>1. Zips(<<>>, <<>>, {}) /\ Len(<<>>) = 0
  BY ShortSeqs DEF Zips
<1>2. ASSUME NEW x, NEW y PROVE Zips(<<x>>, <<y>>, {<<x, y>>}) /\ Len(<<x>>) = 1
  <2>1. IsSeq(<<x>>) /\ IsSeq(<<y>>) /\ Len(<<x>>) = 1 /\ Len(<<y>>) = 1
    BY ShortSeqs
  <2>2. \A i \in 1 .. 1 : i = 1
    OBVIOUS
  <2>3. <<x>>[1] = x /\ <<y>>[1] = y
    OBVIOUS
  <2>4. QED
    BY <2>1, <2>2, <2>3 DEF Zips
<1>3. QED
  BY <1>1, <1>2

\* The labels of a client and their values.
HasUser(v) == Text(v, "user") # ""
HasResp(v) == Text(v, "resp") # ""
PortPairs(v) == IF opts.inclPort THEN {<<"port", Itoa(Get(v, "addr").x)>>} ELSE {}
UserPairs(v) == IF HasUser(v) THEN {<<"user", Text(v, "user")>>} ELSE {}
RespPairs(v) == IF HasResp(v) THEN {<<"resp", Text(v, "resp")>>} ELSE {}
ClientPairs(v) ==
    (({<<"id", Text(v, "id")>>, <<"name", Text(v, "name")>>, <<"flags", Text(v, "flags")>>,
       <<"db", Text(v, "db")>>, <<"host", Text(v, "addr")>>} \cup PortPairs(v)) \cup UserPairs(v))
    \cup RespPairs(v)

\* The labels of connected_client_info and their values are in step, the id first.
LEMMA ClientLabelFacts ==
    ASSUME NEW v
    PROVE  /\ Zips(clientLabels(v), clientValues(v), ClientPairs(v))
           /\ Len(clientLabels(v)) = ((5 + (IF opts.inclPort THEN 1 ELSE 0)) + (IF HasUser(v) THEN 1 ELSE 0))
                                     + (IF HasResp(v) THEN 1 ELSE 0)
           /\ clientLabels(v)[1] = "id" /\ clientValues(v)[1] = Text(v, "id")
<1> DEFINE l0 == <<"id", "name", "flags", "db", "host">>
           w0 == <<Text(v, "id"), Text(v, "name"), Text(v, "flags"), Text(v, "db"), Text(v, "addr")>>
           S0 == {<<"id", Text(v, "id")>>, <<"name", Text(v, "name")>>, <<"flags", Text(v, "flags")>>,
                  <<"db", Text(v, "db")>>, <<"host", Text(v, "addr")>>}
           la == If(opts.inclPort, <<"port">>)
           wa == If(opts.inclPort, <<Itoa(Get(v, "addr").x)>>)
           lb == If(Text(v, "user") # "", <<"user">>)
           wb == If(Text(v, "user") # "", <<Text(v, "user")>>)
           lc == If(Text(v, "resp") # "", <<"resp">>)
           wc == If(Text(v, "resp") # "", <<Text(v, "resp")>>)
           l1 == l0 \o la
           w1 == w0 \o wa
           l2 == l1 \o lb
           w2 == w1 \o wb
           l3 == l2 \o lc
           w3 == w2 \o wc
           S1 == S0 \cup PortPairs(v)
           S2 == S1 \cup UserPairs(v)
           S3 == S2 \cup RespPairs(v)
<1>1. clientLabels(v) = l3 /\ clientValues(v) = w3 /\ ClientPairs(v) = S3
  BY DEF clientLabels, clientValues, ClientPairs
<1>2. Zips(l0, w0, S0) /\ Len(l0) = 5 /\ l0[1] = "id" /\ w0[1] = Text(v, "id")
  <2> DEFINE A == Text(v, "id")
             B == Text(v, "name")
             C == Text(v, "flags")
             D == Text(v, "db")
             E == Text(v, "addr")
  <2> HIDE DEF A, B, C, D, E
  <2>1. IsSeq(<<"id", "name", "flags", "db", "host">>) /\ Len(<<"id", "name", "flags", "db", "host">>) = 5
    BY DEF IsSeq, ToSet
  <2>2. IsSeq(<<A, B, C, D, E>>) /\ Len(<<A, B, C, D, E>>) = 5
    BY DEF IsSeq, ToSet
  <2>3. \A i \in 1 .. 5 : <<<<"id", "name", "flags", "db", "host">>[i], <<A, B, C, D, E>>[i]>>
                          \in {<<"id", A>>, <<"name", B>>, <<"flags", C>>, <<"db", D>>, <<"host", E>>}
    <3>1. \A i \in 1 .. 5 : i \in {1, 2, 3, 4, 5}
      OBVIOUS
    <3>2. QED
      BY <3>1
  <2>4. w0 = <<A, B, C, D, E>> /\ S0 = {<<"id", A>>, <<"name", B>>, <<"flags", C>>, <<"db", D>>, <<"host", E>>}
    BY DEF A, B, C, D, E
  <2>6. <<A, B, C, D, E>>[1] = A
    OBVIOUS
  <2> HIDE DEF w0, S0
  <2>5. QED
    BY <2>1, <2>2, <2>3, <2>4, <2>6 DEF Zips, A
<1>a. Zips(la, wa, PortPairs(v)) /\ Len(la) = IF opts.inclPort THEN 1 ELSE 0
  BY ZipOne DEF PortPairs, If
<1>b. Zips(lb, wb, UserPairs(v)) /\ Len(lb) = IF HasUser(v) THEN 1 ELSE 0
  <2>1. CASE HasUser(v)
    BY <2>1, ZipOne DEF UserPairs, HasUser, If
  <2>2. CASE ~HasUser(v)
    <3>1. lb = <<>> /\ wb = <<>>
      BY <2>2 DEF HasUser, If
    <3>2. UserPairs(v) = {}
      BY <2>2 DEF UserPairs
    <3>4. (IF HasUser(v) THEN 1 ELSE 0) = 0
      BY <2>2
    <3> HIDE DEF lb, wb
    <3>3. QED
      BY <3>1, <3>2, <3>4, ZipOne
  <2>3. QED
    BY <2>1, <2>2
<1>c. Zips(lc, wc, RespPairs(v)) /\ Len(lc) = IF HasResp(v) THEN 1 ELSE 0
  <2>1. CASE HasResp(v)
    BY <2>1, ZipOne DEF RespPairs, HasResp, If
  <2>2. CASE ~HasResp(v)
    <3>1. lc = <<>> /\ wc = <<>>
      BY <2>2 DEF HasResp, If
    <3>2. RespPairs(v) = {}
      BY <2>2 DEF RespPairs
    <3>4. (IF HasResp(v) THEN 1 ELSE 0) = 0
      BY <2>2
    <3> HIDE DEF lc, wc
    <3>3. QED
      BY <3>1, <3>2, <3>4, ZipOne
  <2>3. QED
    BY <2>1, <2>2
<1> HIDE DEF l0, w0, S0, la, wa, lb, wb, lc, wc
<1>3. Zips(l1, w1, S1) /\ Len(l1) = 5 + Len(la)
  BY <1>2, <1>a, ZipMore
<1> HIDE DEF l1, w1, S1
<1>4. Zips(l2, w2, S2) /\ Len(l2) = Len(l1) + Len(lb)
  BY <1>3, <1>b, ZipMore
<1> HIDE DEF l2, w2, S2
<1>5. Zips(l3, w3, S3) /\ Len(l3) = Len(l2) + Len(lc)
  BY <1>4, <1>c, ZipMore
<1>7. l3[1] = "id" /\ w3[1] = Text(v, "id")
  <2>1. IsSeq(l0) /\ IsSeq(la) /\ IsSeq(w0) /\ IsSeq(wa) /\ IsSeq(l1) /\ IsSeq(lb) /\ IsSeq(w1) /\ IsSeq(wb)
        /\ IsSeq(l2) /\ IsSeq(lc) /\ IsSeq(w2) /\ IsSeq(wc)
    BY <1>2, <1>3, <1>4, <1>a, <1>b, <1>c DEF Zips
  <2>2. Len(l0) = 5 /\ Len(w0) = 5 /\ Len(l1) >= 1 /\ Len(w1) >= 1 /\ Len(l2) >= 1 /\ Len(w2) >= 1
    <3>1. Len(la) \in Nat /\ Len(lb) \in Nat
      BY <2>1, SeqFacts
    <3>2. QED
      BY <3>1, <1>2, <1>3, <1>4 DEF Zips
  <2>3. \A i \in 1 .. Len(l0) : l1[i] = l0[i]
    BY ONLY <2>1, ConcatFacts DEF l1
  <2>4. \A i \in 1 .. Len(w0) : w1[i] = w0[i]
    BY ONLY <2>1, ConcatFacts DEF w1
  <2>5. \A i \in 1 .. Len(l1) : l2[i] = l1[i]
    BY ONLY <2>1, ConcatFacts DEF l2
  <2>6. \A i \in 1 .. Len(w1) : w2[i] = w1[i]
    BY ONLY <2>1, ConcatFacts DEF w2
  <2>7. \A i \in 1 .. Len(l2) : l3[i] = l2[i]
    BY ONLY <2>1, ConcatFacts
  <2>8. \A i \in 1 .. Len(w2) : w3[i] = w2[i]
    BY ONLY <2>1, ConcatFacts
  <2>9. Len(l1) \in Nat /\ Len(w1) \in Nat /\ Len(l2) \in Nat /\ Len(w2) \in Nat
    BY <2>1, SeqFacts
  <2> HIDE DEF l3, w3
  <2>10. l1[1] = l0[1] /\ w1[1] = w0[1] /\ l2[1] = l1[1] /\ w2[1] = w1[1] /\ l3[1] = l2[1] /\ w3[1] = w2[1]
    BY <2>2, <2>3, <2>4, <2>5, <2>6, <2>7, <2>8, <2>9
  <2>11. QED
    BY <2>10, <1>2
<1> HIDE DEF l3, w3, S3
<1>6. QED
  BY <1>1, <1>3, <1>4, <1>5, <1>7, <1>a, <1>b, <1>c

\* What one client becomes.
ClientMetric(v) == Metric("connected_client_info", Whole(1), clientValues(v))
ClientSet(v) == IF parseClientListString(v) THEN {ClientMetric(v)} \cup ToSet(clientMetrics(v)) ELSE {}

\* registerClient sends the client's metrics and describes connected_client_info if nothing did
\* before.
LEMMA RegisterClientSends ==
    ASSUME NEW e, IsExp(e), NEW v
    PROVE  /\ Sends(e, registerClient(e, v), {ClientMetric(v)} \cup ToSet(clientMetrics(v)))
           /\ "connected_client_info" \notin DOMAIN e.descs
                 => registerClient(e, v).descs["connected_client_info"] = clientLabels(v)
<1> DEFINE ms == clientMetrics(v)
           names == {ms[j].name : j \in DOMAIN ms}
           m == ClientMetric(v)
           e1 == createMetricDescriptions(e, {"connected_client_info"}, clientLabels(v))
           e2 == registerLabelled(e1, <<m>>)
           e3 == createMetricDescriptions(e2, names, <<"id", "name">>)
           g == registerLabelled(e3, ms)
<1>1. registerClient(e, v) = g
  BY DEF registerClient, createMetricDescription, ClientMetric
<1>2. /\ IsExp(e1) /\ Keeps(e, e1) /\ e1.out = e.out
      /\ DOMAIN e1.descs = DOMAIN e.descs \cup {"connected_client_info"}
      /\ "connected_client_info" \notin DOMAIN e.descs => e1.descs["connected_client_info"] = clientLabels(v)
  BY CreateFacts
<1>3. m.name = "connected_client_info" /\ m.values = clientValues(v)
  BY MetricFacts DEF ClientMetric
<1>4. IsSeq(m.values)
  BY <1>3, ClientLabelFacts DEF Zips
<1> HIDE DEF m, e1
<1>5. Sends(e1, e2, {m}) /\ e2.descs = e1.descs
  <2>1. /\ IsSeq(<<m>>) /\ DOMAIN <<m>> = {1} /\ <<m>>[1] = m /\ ToSet(<<m>>) = {m}
        /\ Different(<<m>>) /\ \A i \in DOMAIN <<m>> : IsSeq(<<m>>[i].values)
    BY <1>4, SingleFacts
  <2>2. \A i \in DOMAIN <<m>> : Known(e1, <<m>>[i].name)
    BY <2>1, <1>2, <1>3 DEF Known
  <2>3. QED
    BY <2>1, <2>2, <1>2, LabelledFacts, SMTT(30)
<1>6. Sends(e, e2, {m})
  BY <1>2, <1>3, <1>5, CreatedThenSent
<1>7. IsExp(e2)
  BY <1>6 DEF Sends
<1> HIDE DEF e2
<1>8. /\ IsExp(e3) /\ Keeps(e2, e3) /\ e3.out = e2.out /\ DOMAIN e3.descs = DOMAIN e2.descs \cup names
  BY <1>7, CreateFacts
<1>9. /\ Distinct(ms)
      /\ \A x \in ToSet(ms) : x.name \in ClientNames /\ x.values = <<Text(v, "id"), Text(v, "name")>>
  BY ClientNumbersSent
<1> HIDE DEF ms, e3
<1>10. names = {x.name : x \in ToSet(ms)}
  BY DEF ToSet
<1>11. \A x \in ToSet(ms) : Known(e3, x.name)
  BY <1>8, <1>10 DEF Known
<1> HIDE DEF names
<1>12. Sends(e3, g, ToSet(ms)) /\ g.descs = e3.descs
  BY <1>8, <1>9, <1>11, DistinctFacts
<1> HIDE DEF g
<1>13. Sends(e2, g, ToSet(ms))
  <2>1. \A n \in DOMAIN e3.descs : n \in DOMAIN e2.descs \/ \E x \in ToSet(ms) : x.name = n
    BY <1>8, <1>10
  <2>2. QED
    BY <1>8, <1>12, <2>1, CreatedThenSent
<1>14. "connected_client_info" \notin ClientNames
  BY ClientMetricsFacts DEF ClientNames
<1>15. Sends(e, g, {m} \cup ToSet(ms))
  <2>1. \A a \in {m}, b \in ToSet(ms) : <<a.name, a.values>> # <<b.name, b.values>>
    BY <1>3, <1>9, <1>14
  <2>2. QED
    BY <1>6, <1>13, <2>1, SendsBoth
<1>16. "connected_client_info" \notin DOMAIN e.descs => g.descs["connected_client_info"] = clientLabels(v)
  BY <1>2, <1>5, <1>8, <1>12 DEF Keeps
<1>17. QED
  BY <1>1, <1>15, <1>16 DEF m, ms

\* What one line of CLIENT LIST sends.
LEMMA ClientSends ==
    ASSUME IsExp(exp), parseConnectedClientMetrics
    PROVE  /\ Sends(exp, exp', ClientSet(Head(todo).v))
           /\ "connected_client_info" \in DOMAIN exp'.descs \ DOMAIN exp.descs
                 => exp'.descs["connected_client_info"] = clientLabels(Head(todo).v)
<1> DEFINE v == Head(todo).v
<1>1. exp' = IF parseClientListString(v) THEN registerClient(exp, v) ELSE exp
  BY DEF parseConnectedClientMetrics
<1> HIDE DEF v
<1>2. CASE parseClientListString(v)
  BY <1>1, <1>2, RegisterClientSends DEF ClientSet, v
<1>3. CASE ~parseClientListString(v)
  BY <1>1, <1>3, SendsNothing DEF ClientSet, v
<1>4. QED
  BY <1>2, <1>3

-----------------------------------------------------------------------------
(***************************************************************************)
(* The text of INFO.  Every line gets a mark: the master, the replica, the *)
(* command or the database it is about, by its number, or 0.               *)
(***************************************************************************)
MasterRow == <<"master_host", "master_port", "master_link_status", "master_last_io_seconds_ago",
               "master_sync_in_progress", "slave_repl_offset">>
Numbered(n) == IF n = 1 THEN "" ELSE Itoa(n - 1)

VersionLine(s) == Field("redis_version", "", <<Txt("", s.kind)>>)
ValkeyLine(s) == Field("valkey_version", "", <<Txt("", s.kind)>>)
StageLine == Field("valkey_release_stage", "", <<Txt("", "ga")>>)
UptimeLine == Field("uptime_in_seconds", "", <<Num("", 5)>>)
HzLine == Field("hz", "", <<Num("", 10)>>)
ForkLine == Field("latest_fork_usec", "", <<Num("", 7)>>)
SentinelsLine == Field("sentinel_masters", "", <<Num("", 1)>>)
RoleLine(s) == Field("role", "", <<Txt("", IF s.masters = <<>> THEN "master" ELSE "slave")>>)
ReadOnlyLine == Field("slave_read_only", "", <<Txt("", "1")>>)
SlavesLine(s) == Field("connected_slaves", "", <<Num("", Len(s.replicas))>>)
ErrorLine == Field("errorstat_", "ERR", <<Num("count", 4)>>)
ClusterLine(s) == Field("cluster_enabled", "", <<Num("", IF s.cluster THEN 1 ELSE 0)>>)

\* The sections of the lines, and their order.
Home(k) ==
    CASE k \in {"redis_version", "valkey_version", "valkey_release_stage", "uptime_in_seconds", "hz"} -> "Server"
      [] k = "latest_fork_usec" -> "Stats"
      [] k \in {"sentinel_masters", "master"} -> "Sentinel"
      [] k = "cmdstat_" -> "Commandstats"
      [] k = "errorstat_" -> "Errorstats"
      [] k = "latency_percentiles_usec_" -> "Latencystats"
      [] k = "cluster_enabled" -> "Cluster"
      [] k = "db" -> "Keyspace"
      [] OTHER -> "Replication"

Rank(k) ==
    CASE k = "redis_version" -> 1
      [] k = "valkey_version" -> 2
      [] k = "valkey_release_stage" -> 3
      [] k = "uptime_in_seconds" -> 4
      [] k = "hz" -> 5
      [] k = "latest_fork_usec" -> 6
      [] k = "sentinel_masters" -> 7
      [] k = "master" -> 8
      [] k = "role" -> 9
      [] k = "slave_read_only" -> 11
      [] k = "connected_slaves" -> 12
      [] k = "slave" -> 13
      [] k = "cmdstat_" -> 14
      [] k = "errorstat_" -> 15
      [] k = "latency_percentiles_usec_" -> 16
      [] k = "cluster_enabled" -> 17
      [] k = "db" -> 18
      [] OTHER -> 10

SingleKeys == {"redis_version", "valkey_version", "valkey_release_stage", "uptime_in_seconds", "hz",
               "latest_fork_usec", "sentinel_masters", "master", "role", "slave_read_only",
               "connected_slaves", "errorstat_", "cluster_enabled"}
MasterBlock == {"master_host", "master_port", "master_link_status", "master_last_io_seconds_ago",
                "master_sync_in_progress", "slave_repl_offset"}
ManyKeys == {"slave", "cmdstat_", "latency_percentiles_usec_", "db"}

\* A line is the one its name and its mark ask for.
LineOk(s, f, o) ==
    /\ f.k \in {"#"} \cup SingleKeys \cup MasterBlock \cup ManyKeys
    /\ f.k \in {"#"} \cup SingleKeys => o = 0
    /\ f.k = "redis_version" => f = VersionLine(s)
    /\ f.k = "valkey_version" => s.kind \in Valkey /\ f = ValkeyLine(s)
    /\ f.k = "valkey_release_stage" => s.kind = "valkey8" /\ f = StageLine
    /\ f.k = "uptime_in_seconds" => f = UptimeLine
    /\ f.k = "hz" => f = HzLine
    /\ f.k = "latest_fork_usec" => f = ForkLine
    /\ f.k = "sentinel_masters" => s.sentinel /\ f = SentinelsLine
    /\ f.k = "master" => s.sentinel /\ f = MasterOfSentinel
    /\ f.k = "role" => ~s.sentinel /\ f = RoleLine(s)
    /\ f.k = "slave_read_only" => s.masters # <<>> /\ f = ReadOnlyLine
    /\ f.k = "connected_slaves" => f = SlavesLine(s)
    /\ f.k = "errorstat_" => f = ErrorLine
    /\ f.k = "cluster_enabled" => f = ClusterLine(s)
    /\ f.k = "slave" => o \in DOMAIN s.replicas /\ f = ReplicaField(s, s.replicas[o], Itoa(o - 1))
    /\ f.k = "cmdstat_" => o \in DOMAIN s.cmds /\ f = CommandField(s, s.cmds[o])
    /\ f.k = "latency_percentiles_usec_" =>
          s.kind \in Since70 /\ o \in DOMAIN s.cmds /\ f = PercentileField(s.cmds[o])
    /\ f.k = "db" => o \in DOMAIN s.dbs /\ f = KeyspaceField(s, s.dbs[o])
    /\ f.k \in MasterBlock =>
          o \in DOMAIN s.masters
          /\ \E c \in 1 .. 6 : f.k = MasterRow[c] /\ f = MasterFields(s.masters[o], Numbered(o))[c]

Class(f) == IF f.k = "#" THEN f.i ELSE Home(f.k)
Follows(x, y) == y.k # "#" => Class(x) = Class(y)
Continues(x, y) == \E c \in 2 .. 6 : x.k = MasterRow[c - 1] /\ y.k = MasterRow[c]

IsText(s, X, O) ==
    /\ IsSeq(X) /\ IsSeq(O) /\ Len(O) = Len(X)
    /\ \A a \in 1 .. Len(X) : LineOk(s, X[a], O[a])
    /\ \A a, b \in 1 .. Len(X) :
          a < b /\ X[a].k # "#" /\ X[b].k # "#" => <<X[a].k, O[a]>> # <<X[b].k, O[b]>>
    /\ \A a \in 1 .. Len(X) - 1 : Follows(X[a], X[a + 1])
    /\ \A a \in 1 .. Len(X) :
          X[a].k \in MasterBlock \ {"master_host"} => a > 1 /\ O[a - 1] = O[a] /\ Continues(X[a - 1], X[a])

Cover(X, O) == {<<X[a].k, O[a]>> : a \in {b \in 1 .. Len(X) : X[b].k # "#"}}

Meets(X, P) == Len(X) > 0 /\ Len(P) > 0 => Follows(X[Len(X)], P[1])

\* Two texts about different things that fit together are one text.
LEMMA JoinText ==
    ASSUME NEW s, NEW X, NEW O, NEW P, NEW Q, IsText(s, X, O), IsText(s, P, Q),
           Cover(X, O) \cap Cover(P, Q) = {}, Meets(X, P)
    PROVE  IsText(s, X \o P, O \o Q) /\ Cover(X \o P, O \o Q) = Cover(X, O) \cup Cover(P, Q)
<1> DEFINE Y == X \o P
           R == O \o Q
           n == Len(X)
           m == Len(P)
<1>1. IsSeq(X) /\ IsSeq(O) /\ IsSeq(P) /\ IsSeq(Q) /\ Len(O) = n /\ Len(Q) = m
  BY DEF IsText
<1>2. /\ IsSeq(Y) /\ Len(Y) = n + m /\ n \in Nat /\ m \in Nat
      /\ \A i \in 1 .. n : Y[i] = X[i]
      /\ \A i \in 1 .. m : Y[n + i] = P[i]
  <2>1. IsSeq(X) /\ IsSeq(P)
    BY <1>1
  <2>2. /\ IsSeq(Y) /\ Len(Y) = Len(X) + Len(P)
        /\ \A i \in 1 .. Len(X) : Y[i] = X[i]
        /\ \A i \in 1 .. Len(P) : Y[Len(X) + i] = P[i]
    BY ONLY <2>1, ConcatFacts
  <2>4. Len(X) \in Nat /\ Len(P) \in Nat
    BY <2>1, SeqFacts
  <2> HIDE DEF Y
  <2>3. QED
    BY <2>2, <2>4
<1>3. /\ IsSeq(R) /\ Len(R) = Len(O) + Len(Q)
      /\ \A i \in 1 .. Len(O) : R[i] = O[i]
      /\ \A i \in 1 .. Len(Q) : R[Len(O) + i] = Q[i]
  <2>1. IsSeq(O) /\ IsSeq(Q)
    BY <1>1
  <2>2. QED
    BY ONLY <2>1, ConcatFacts
<1>4. Len(R) = n + m /\ (\A i \in 1 .. n : R[i] = O[i]) /\ (\A i \in 1 .. m : R[n + i] = Q[i])
  BY <1>1, <1>3
<1> HIDE DEF Y, R, n, m
<1>5. ASSUME NEW a \in 1 .. Len(Y)
      PROVE  \/ a \in 1 .. n /\ Y[a] = X[a] /\ R[a] = O[a]
             \/ a - n \in 1 .. m /\ a > n /\ Y[a] = P[a - n] /\ R[a] = Q[a - n]
  <2>1. CASE a <= n
    BY <2>1, <1>2, <1>4
  <2>2. CASE a > n
    <3> DEFINE i == a - n
    <3>1. i \in 1 .. m /\ a = n + i
      BY <2>2, <1>2
    <3> HIDE DEF i
    <3>2. Y[a] = P[i] /\ R[a] = Q[i]
      BY <3>1, <1>2, <1>4
    <3>3. QED
      BY <3>1, <3>2, <2>2, <1>2 DEF i
  <2>3. QED
    BY <1>2, <2>1, <2>2
<1>6. \A a \in 1 .. Len(Y) : LineOk(s, Y[a], R[a])
  BY <1>5 DEF IsText, n, m
<1>7. ASSUME NEW a \in 1 .. Len(Y), NEW b \in 1 .. Len(Y), a < b, Y[a].k # "#", Y[b].k # "#"
      PROVE  <<Y[a].k, R[a]>> # <<Y[b].k, R[b]>>
  <2>1. CASE b \in 1 .. n /\ Y[b] = X[b] /\ R[b] = O[b]
    <3>1. a \in 1 .. n /\ Y[a] = X[a] /\ R[a] = O[a]
      BY <2>1, <1>2, <1>4, <1>7
    <3>2. QED
      BY <2>1, <3>1, <1>7 DEF IsText, n
  <2>2. CASE b - n \in 1 .. m /\ b > n /\ Y[b] = P[b - n] /\ R[b] = Q[b - n]
    <3>1. <<Y[b].k, R[b]>> \in Cover(P, Q)
      BY <2>2, <1>7 DEF Cover, m
    <3>2. CASE a \in 1 .. n /\ Y[a] = X[a] /\ R[a] = O[a]
      <4>1. <<Y[a].k, R[a]>> \in Cover(X, O)
        BY <3>2, <1>7 DEF Cover, n
      <4>2. QED
        BY <4>1, <3>1
    <3>3. CASE a - n \in 1 .. m /\ Y[a] = P[a - n] /\ R[a] = Q[a - n]
      <4> DEFINE i == a - n
                 j == b - n
      <4>1. i \in 1 .. m /\ j \in 1 .. m /\ i < j
        BY <2>2, <3>3, <1>2, <1>7
      <4>2. Y[a] = P[i] /\ R[a] = Q[i] /\ Y[b] = P[j] /\ R[b] = Q[j]
        BY <2>2, <3>3
      <4> HIDE DEF i, j
      <4>3. QED
        BY <4>1, <4>2, <1>7 DEF IsText, m
    <3>4. QED
      BY <1>5, <3>2, <3>3
  <2>3. QED
    BY <1>5, <2>1, <2>2
<1>8. ASSUME NEW a \in 1 .. Len(Y) - 1 PROVE Follows(Y[a], Y[a + 1])
  <2>1. CASE a < n
    <3>1. a \in 1 .. n - 1 /\ a \in 1 .. n /\ a + 1 \in 1 .. n
      BY <2>1, <1>2
    <3>2. Y[a] = X[a] /\ Y[a + 1] = X[a + 1]
      BY <3>1, <1>2
    <3>3. QED
      BY <3>1, <3>2 DEF IsText, n
  <2>2. CASE a = n
    <3>1. n \in 1 .. n /\ 1 \in 1 .. m /\ n > 0 /\ m > 0
      BY <2>2, <1>2
    <3>2. Y[a] = X[n] /\ Y[a + 1] = P[1]
      BY <3>1, <2>2, <1>2
    <3>3. QED
      BY <3>1, <3>2 DEF n, m, Meets
  <2>3. CASE a > n
    <3> DEFINE i == a - n
    <3>1. i \in 1 .. m - 1 /\ i \in 1 .. m /\ i + 1 \in 1 .. m /\ a = n + i /\ a + 1 = n + (i + 1)
      BY <2>3, <1>2
    <3> HIDE DEF i
    <3>2. Y[a] = P[i] /\ Y[a + 1] = P[i + 1]
      BY <3>1, <1>2
    <3>3. QED
      BY <3>1, <3>2 DEF IsText, m
  <2>4. QED
    BY <2>1, <2>2, <2>3, <1>2
<1>9. ASSUME NEW a \in 1 .. Len(Y), Y[a].k \in MasterBlock \ {"master_host"}
      PROVE  a > 1 /\ R[a - 1] = R[a] /\ Continues(Y[a - 1], Y[a])
  <2>1. CASE a \in 1 .. n /\ Y[a] = X[a] /\ R[a] = O[a]
    <3>1. a > 1 /\ O[a - 1] = O[a] /\ Continues(X[a - 1], X[a])
      BY <2>1, <1>9 DEF IsText, n
    <3>2. a - 1 \in 1 .. n
      BY <3>1, <2>1, <1>2
    <3>3. QED
      BY <2>1, <3>1, <3>2, <1>2, <1>4
  <2>2. CASE a - n \in 1 .. m /\ a > n /\ Y[a] = P[a - n] /\ R[a] = Q[a - n]
    <3> DEFINE i == a - n
    <3>1. i \in 1 .. m /\ a = n + i /\ Y[a] = P[i] /\ R[a] = Q[i]
      BY <2>2, <1>2
    <3> HIDE DEF i
    <3>2. i > 1 /\ Q[i - 1] = Q[i] /\ Continues(P[i - 1], P[i])
      BY <3>1, <1>9 DEF IsText, m
    <3>3. i - 1 \in 1 .. m /\ a - 1 = n + (i - 1) /\ a > 1
      <4>1. n \in Nat /\ m \in Nat /\ i \in 1 .. m /\ a = n + i /\ i > 1
        BY <1>2, <3>1, <3>2
      <4>2. QED
        BY ONLY <4>1
    <3>4. Y[a - 1] = P[i - 1] /\ R[a - 1] = Q[i - 1]
      BY <3>3, <1>2, <1>4
    <3>5. QED
      BY <3>1, <3>2, <3>3, <3>4
  <2>3. QED
    BY <1>5, <2>1, <2>2
<1>10. IsText(s, Y, R)
  <2>1. Len(R) = Len(Y)
    BY <1>2, <1>4
  <2>2. QED
    BY <1>2, <1>3, <1>6, <1>7, <1>8, <1>9, <2>1 DEF IsText
<1>11. Cover(Y, R) = Cover(X, O) \cup Cover(P, Q)
  <2>1. ASSUME NEW a \in 1 .. Len(Y), Y[a].k # "#" PROVE <<Y[a].k, R[a]>> \in Cover(X, O) \cup Cover(P, Q)
    BY <1>5, <2>1 DEF Cover, n, m
  <2>2. ASSUME NEW a \in 1 .. n, X[a].k # "#" PROVE <<X[a].k, O[a]>> \in Cover(Y, R)
    <3>1. a \in 1 .. Len(Y) /\ Y[a] = X[a] /\ R[a] = O[a]
      BY <1>2, <1>4
    <3>2. QED
      BY <2>2, <3>1 DEF Cover
  <2>3. ASSUME NEW i \in 1 .. m, P[i].k # "#" PROVE <<P[i].k, Q[i]>> \in Cover(Y, R)
    <3>1. n + i \in 1 .. Len(Y) /\ Y[n + i] = P[i] /\ R[n + i] = Q[i]
      BY <1>2, <1>4
    <3>2. QED
      BY <2>3, <3>1 DEF Cover
  <2>4. QED
    BY <2>1, <2>2, <2>3, ZenonT(60) DEF Cover, n, m
<1>12. QED
  BY <1>10, <1>11 DEF Y, R

\* Pairs of a name and a mark whose names have ranks from lo to hi.
Ranked(C, lo, hi) == \A p \in C : Rank(p[1]) \in lo .. hi

\* A part of a section, which may be empty, and a text that begins with a header and ends in the
\* section c; they cover the names and marks of C.
Part(s, P, lo, hi, c, C) ==
    /\ Ranked(C, lo, hi)
    /\ \E O : IsText(s, P, O) /\ Cover(P, O) = C
    /\ \A a \in 1 .. Len(P) : P[a].k # "#" /\ Class(P[a]) = c
Sect(s, P, lo, hi, c, C) ==
    /\ Ranked(C, lo, hi)
    /\ \E O : IsText(s, P, O) /\ Cover(P, O) = C
    /\ Len(P) > 0 /\ P[1].k = "#" /\ Class(P[Len(P)]) = c

\* Pairs of different ranks are different.
LEMMA RankedApart ==
    ASSUME NEW C, NEW D, NEW a \in Int, NEW b \in Int, NEW c \in Int, NEW d \in Int, Ranked(C, a, b), Ranked(D, c, d),
           a <= c, b < c, b <= d
    PROVE  C \cap D = {} /\ Ranked(C \cup D, a, d)
<1>1. \A p \in C : Rank(p[1]) \in a .. b
  BY DEF Ranked
<1>2. \A p \in D : Rank(p[1]) \in c .. d
  BY DEF Ranked
<1>3. C \cap D = {}
  BY <1>1, <1>2
<1>4. \A p \in C \cup D : Rank(p[1]) \in a .. d
  BY <1>1, <1>2
<1>5. QED
  BY <1>3, <1>4 DEF Ranked

\* The first and the last line of two texts put together.
LEMMA JoinEnds ==
    ASSUME NEW X, IsSeq(X), NEW P, IsSeq(P)
    PROVE  /\ Len(X \o P) = Len(X) + Len(P) /\ Len(X) \in Nat /\ Len(P) \in Nat
           /\ Len(X) > 0 => (X \o P)[1] = X[1] /\ Len(X \o P) > 0
           /\ Len(P) > 0 => (X \o P)[Len(X \o P)] = P[Len(P)]
           /\ Len(P) = 0 => (X \o P)[Len(X \o P)] = (X \o P)[Len(X)] /\ Len(X \o P) = Len(X)
           /\ \A i \in 1 .. Len(X) : (X \o P)[i] = X[i]
<1> DEFINE Y == X \o P
<1>1. /\ Len(Y) = Len(X) + Len(P) /\ Len(X) \in Nat /\ Len(P) \in Nat
      /\ \A i \in 1 .. Len(X) : Y[i] = X[i]
      /\ \A i \in 1 .. Len(P) : Y[Len(X) + i] = P[i]
  BY ConcatFacts
<1> HIDE DEF Y
<1>2. Len(X) > 0 => Y[1] = X[1] /\ Len(Y) > 0
  BY <1>1
<1>3. Len(P) > 0 => Y[Len(Y)] = P[Len(P)]
  <2>1. Len(P) > 0 => Len(P) \in 1 .. Len(P)
    BY <1>1
  <2>2. QED
    BY <1>1, <2>1
<1>4. Len(P) = 0 => Len(Y) = Len(X)
  BY <1>1
<1>5. QED
  BY <1>1, <1>2, <1>3, <1>4 DEF Y

\* Lines of a section after the section.
LEMMA SectPart ==
    ASSUME NEW s, NEW X, NEW P, NEW a \in Int, NEW b \in Int, NEW c \in Int, NEW d \in Int,
           a <= c, b < c, b <= d, NEW h, NEW C, NEW D, Sect(s, X, a, b, h, C), Part(s, P, c, d, h, D)
    PROVE  Sect(s, X \o P, a, d, h, C \cup D)
<1>1. PICK O : IsText(s, X, O) /\ Cover(X, O) = C
  BY DEF Sect
<1>2. PICK Q : IsText(s, P, Q) /\ Cover(P, Q) = D
  BY DEF Part
<1>3. C \cap D = {} /\ Ranked(C \cup D, a, d)
  BY RankedApart DEF Sect, Part
<1>4. /\ Len(X) > 0 /\ X[1].k = "#" /\ Class(X[Len(X)]) = h
      /\ \A i \in 1 .. Len(P) : P[i].k # "#" /\ Class(P[i]) = h
  BY DEF Sect, Part
<1>5. IsSeq(X) /\ IsSeq(P)
  BY <1>1, <1>2 DEF IsText
<1>6. Len(P) \in Nat /\ Len(X) \in Nat
  BY <1>5, SeqFacts
<1>7. Len(P) > 0 => Follows(X[Len(X)], P[1])
  BY <1>4, <1>6 DEF Follows
<1>8. IsText(s, X \o P, O \o Q) /\ Cover(X \o P, O \o Q) = C \cup D
  <2>1. Cover(X, O) \cap Cover(P, Q) = {}
    BY <1>1, <1>2, <1>3
  <2>2. IsText(s, X, O) /\ IsText(s, P, Q)
    BY <1>1, <1>2
  <2>3. Meets(X, P)
    BY <1>7 DEF Meets
  <2>4. IsText(s, X \o P, O \o Q) /\ Cover(X \o P, O \o Q) = Cover(X, O) \cup Cover(P, Q)
    BY ONLY <2>1, <2>2, <2>3, JoinText
  <2>5. QED
    BY <1>1, <1>2, <2>4
<1>9. /\ Len(X) > 0 => (X \o P)[1] = X[1] /\ Len(X \o P) > 0
      /\ Len(P) > 0 => (X \o P)[Len(X \o P)] = P[Len(P)]
      /\ Len(P) = 0 => (X \o P)[Len(X \o P)] = (X \o P)[Len(X)]
      /\ \A i \in 1 .. Len(X) : (X \o P)[i] = X[i]
  BY ONLY <1>5, JoinEnds
<1>10. Class((X \o P)[Len(X \o P)]) = h
  <2> DEFINE Y == X \o P
  <2>1. /\ Len(P) > 0 => Y[Len(Y)] = P[Len(P)]
        /\ Len(P) = 0 => Y[Len(Y)] = Y[Len(X)]
        /\ \A i \in 1 .. Len(X) : Y[i] = X[i]
    BY <1>9
  <2> HIDE DEF Y
  <2>2. ASSUME Len(P) > 0 PROVE Class(Y[Len(Y)]) = h
    BY <2>1, <2>2, <1>4, <1>6
  <2>3. ASSUME Len(P) = 0 PROVE Class(Y[Len(Y)]) = h
    BY <2>1, <2>3, <1>4, <1>6
  <2>4. Class(Y[Len(Y)]) = h
    BY <2>2, <2>3, <1>6
  <2>5. QED
    BY <2>4 DEF Y
<1>11. QED
  BY <1>3, <1>4, <1>8, <1>9, <1>10 DEF Sect

\* A section after a section.
LEMMA SectSect ==
    ASSUME NEW s, NEW X, NEW P, NEW a \in Int, NEW b \in Int, NEW c \in Int, NEW d \in Int,
           a <= c, b < c, b <= d, NEW h, NEW g, NEW C, NEW D, Sect(s, X, a, b, h, C), Sect(s, P, c, d, g, D)
    PROVE  Sect(s, X \o P, a, d, g, C \cup D)
<1>1. PICK O : IsText(s, X, O) /\ Cover(X, O) = C
  BY DEF Sect
<1>2. PICK Q : IsText(s, P, Q) /\ Cover(P, Q) = D
  BY DEF Sect
<1>3. C \cap D = {} /\ Ranked(C \cup D, a, d)
  BY RankedApart DEF Sect
<1>4. /\ Len(X) > 0 /\ X[1].k = "#"
      /\ Len(P) > 0 /\ P[1].k = "#" /\ Class(P[Len(P)]) = g
  BY DEF Sect
<1>5. IsSeq(X) /\ IsSeq(P)
  BY <1>1, <1>2 DEF IsText
<1>7. Len(P) > 0 => Follows(X[Len(X)], P[1])
  BY <1>4 DEF Follows
<1>8. IsText(s, X \o P, O \o Q) /\ Cover(X \o P, O \o Q) = C \cup D
  <2>1. Cover(X, O) \cap Cover(P, Q) = {}
    BY <1>1, <1>2, <1>3
  <2>2. IsText(s, X, O) /\ IsText(s, P, Q)
    BY <1>1, <1>2
  <2>3. Meets(X, P)
    BY <1>7 DEF Meets
  <2>4. IsText(s, X \o P, O \o Q) /\ Cover(X \o P, O \o Q) = Cover(X, O) \cup Cover(P, Q)
    BY ONLY <2>1, <2>2, <2>3, JoinText
  <2>5. QED
    BY <1>1, <1>2, <2>4
<1>9. /\ Len(X) > 0 => (X \o P)[1] = X[1] /\ Len(X \o P) > 0
      /\ Len(P) > 0 => (X \o P)[Len(X \o P)] = P[Len(P)]
  BY ONLY <1>5, JoinEnds
<1>11. QED
  BY <1>3, <1>4, <1>8, <1>9 DEF Sect

\* A header, a line, no line, and a line for each of n.
LEMMA HeaderSect ==
    ASSUME NEW s, NEW h, NEW n \in Int
    PROVE  Sect(s, Header(h), n, n, h, {})
<1> DEFINE f == Field("#", h, <<>>)
           X == <<f>>
           O == <<0>>
<1>1. f.k = "#" /\ f.i = h
  BY DEF Field
<1> HIDE DEF f
<1>2. IsSeq(X) /\ IsSeq(O) /\ Len(X) = 1 /\ Len(O) = 1 /\ X[1] = f /\ O[1] = 0
  BY ShortSeqs
<1> HIDE DEF X, O
<1>3. \A a \in 1 .. 1 : a = 1
  OBVIOUS
<1>4. LineOk(s, f, 0)
  BY <1>1 DEF LineOk, SingleKeys, MasterBlock, ManyKeys
<1>5. IsText(s, X, O)
  <2>1. 1 .. 1 - 1 = {}
    OBVIOUS
  <2>2. "#" \notin MasterBlock
    BY DEF MasterBlock
  <2>3. QED
    BY <1>1, <1>2, <1>3, <1>4, <2>1, <2>2 DEF IsText
<1>6. Cover(X, O) = {}
  BY <1>1, <1>2, <1>3 DEF Cover
<1>7. Header(h) = X
  BY DEF Header, X, f
<1>8. QED
  BY <1>1, <1>2, <1>5, <1>6, <1>7 DEF Sect, Ranked, Class

\* One line that occurs once.
LEMMA LinePart ==
    ASSUME NEW s, NEW f, LineOk(s, f, 0), f.k \in SingleKeys
    PROVE  Part(s, <<f>>, Rank(f.k), Rank(f.k), Home(f.k), {<<f.k, 0>>})
<1> DEFINE X == <<f>>
           O == <<0>>
<1>2. IsSeq(X) /\ IsSeq(O) /\ Len(X) = 1 /\ Len(O) = 1 /\ X[1] = f /\ O[1] = 0
  BY ShortSeqs
<1> HIDE DEF X, O
<1>3. \A a \in 1 .. 1 : a = 1
  OBVIOUS
<1>1. f.k # "#" /\ f.k \notin MasterBlock
  BY DEF SingleKeys, MasterBlock
<1>5. IsText(s, X, O)
  <2>1. 1 .. 1 - 1 = {}
    OBVIOUS
  <2>3. QED
    BY <1>1, <1>2, <1>3, <2>1 DEF IsText
<1>6. Cover(X, O) = {<<f.k, 0>>}
  BY <1>1, <1>2, <1>3 DEF Cover
<1>7. Rank(f.k) \in Int
  BY DEF Rank
<1>8. QED
  BY <1>1, <1>2, <1>3, <1>5, <1>6, <1>7 DEF Part, Ranked, Class, X

\* No line at all.
LEMMA NoPart ==
    ASSUME NEW s, NEW lo, NEW hi, NEW c
    PROVE  Part(s, <<>>, lo, hi, c, {})
<1>1. IsSeq(<<>>) /\ Len(<<>>) = 0
  BY ShortSeqs
<1>2. 1 .. 0 = {} /\ 1 .. 0 - 1 = {}
  OBVIOUS
<1>3. IsText(s, <<>>, <<>>) /\ Cover(<<>>, <<>>) = {}
  BY <1>1, <1>2 DEF IsText, Cover
<1>4. QED
  BY <1>1, <1>2, <1>3 DEF Part, Ranked

\* One line per element, numbered.
LEMMA EachPart ==
    ASSUME NEW s, NEW P, IsSeq(P), NEW k \in ManyKeys, \A a \in 1 .. Len(P) : P[a].k = k /\ LineOk(s, P[a], a)
    PROVE  Part(s, P, Rank(k), Rank(k), Home(k), {<<k, o>> : o \in 1 .. Len(P)})
<1> DEFINE n == Len(P)
           O == [a \in 1 .. n |-> a]
<1>1. n \in Nat
  BY SeqFacts
<1>2. IsSeq(O) /\ Len(O) = n /\ \A a \in 1 .. n : O[a] = a
  <2> HIDE DEF n
  <2>1. DOMAIN O = 1 .. n /\ O = [i \in 1 .. n |-> O[i]] /\ \A a \in 1 .. n : O[a] = a
    OBVIOUS
  <2> HIDE DEF O
  <2>2. QED
    BY <1>1, <2>1, TableFacts
<1> HIDE DEF O
<1>3. k # "#" /\ k \notin MasterBlock /\ Rank(k) \in Int
  BY DEF ManyKeys, MasterBlock, Rank
<1>4. IsText(s, P, O)
  <2>1. \A a, b \in 1 .. n : a < b => <<P[a].k, O[a]>> # <<P[b].k, O[b]>>
    BY <1>1, <1>2
  <2>2. \A a \in 1 .. n : LineOk(s, P[a], O[a])
    BY <1>2
  <2>3. \A a \in 1 .. n - 1 : a \in 1 .. n /\ a + 1 \in 1 .. n
    BY <1>1
  <2>4. \A a \in 1 .. n - 1 : Follows(P[a], P[a + 1])
    BY <1>3, <2>3 DEF Follows, Class
  <2>5. QED
    BY <1>2, <1>3, <2>1, <2>2, <2>4 DEF IsText
<1>5. Cover(P, O) = {<<k, o>> : o \in 1 .. n}
  BY <1>2, <1>3 DEF Cover
<1>6. \A a \in 1 .. Len(P) : P[a].k # "#" /\ Class(P[a]) = Home(k)
  BY <1>3 DEF Class
<1>7. Ranked({<<k, o>> : o \in 1 .. Len(P)}, Rank(k), Rank(k))
  BY <1>3 DEF Ranked
<1>8. QED
  BY <1>4, <1>5, <1>6, <1>7 DEF Part

\* The elements of a concatenation, by their places.
LEMMA ConcatPlaces ==
    ASSUME NEW s, IsSeq(s), NEW t, IsSeq(t), NEW y, y = s \o t
    PROVE  /\ IsSeq(y) /\ Len(y) = Len(s) + Len(t) /\ Len(s) \in Nat /\ Len(t) \in Nat
           /\ \A i \in 1 .. Len(s) : y[i] = s[i]
           /\ \A i \in 1 .. Len(t) : y[Len(s) + i] = t[i]
           /\ ToSet(y) = ToSet(s) \cup ToSet(t)
<1>1. IsSeq(s \o t) /\ Len(s \o t) = Len(s) + Len(t)
  BY ConcatFacts
<1>2. \A i \in 1 .. Len(s) : (s \o t)[i] = s[i]
  BY ConcatFacts
<1>3. \A i \in 1 .. Len(t) : (s \o t)[Len(s) + i] = t[i]
  BY ConcatFacts
<1>4. ToSet(s \o t) = ToSet(s) \cup ToSet(t)
  BY ConcatFacts
<1>5. Len(s) \in Nat /\ Len(t) \in Nat
  BY SeqFacts
<1>6. QED
  BY <1>1, <1>2, <1>3, <1>4, <1>5, Zenon

\* The fields of the first k masters.
MasterPairs(k) == {<<MasterRow[c], o>> : c \in 1 .. 6, o \in 1 .. k}
Blocks(s, q, k) ==
    /\ \E O : IsText(s, q, O) /\ Cover(q, O) = MasterPairs(k)
    /\ \A a \in 1 .. Len(q) : q[a].k # "#" /\ Class(q[a]) = "Replication"

\* The six fields of a master are different and belong to the replication section.
LEMMA MasterRowFacts ==
    /\ \A c \in 1 .. 6 : MasterRow[c] \in MasterBlock
    /\ \A k \in MasterBlock : k # "#" /\ Home(k) = "Replication" /\ Rank(k) = 10 /\ k \notin SingleKeys /\ k \notin ManyKeys
    /\ \A c, d \in 1 .. 6 : c # d => MasterRow[c] # MasterRow[d]
    /\ MasterRow[1] = "master_host"
<1>1. \A c \in 1 .. 6 : c \in {1, 2, 3, 4, 5, 6}
  OBVIOUS
<1>2. /\ MasterRow[1] = "master_host" /\ MasterRow[2] = "master_port" /\ MasterRow[3] = "master_link_status"
      /\ MasterRow[4] = "master_last_io_seconds_ago" /\ MasterRow[5] = "master_sync_in_progress"
      /\ MasterRow[6] = "slave_repl_offset"
  BY DEF MasterRow
<1>3. \A c \in 1 .. 6 : MasterRow[c] \in MasterBlock
  BY <1>1, <1>2 DEF MasterBlock
<1>4. \A c, d \in 1 .. 6 : c # d => MasterRow[c] # MasterRow[d]
  BY <1>1, <1>2
<1>5. \A k \in MasterBlock : k # "#" /\ Home(k) = "Replication" /\ Rank(k) = 10 /\ k \notin SingleKeys /\ k \notin ManyKeys
  BY DEF MasterBlock, Home, Rank, SingleKeys, ManyKeys
<1>6. QED
  BY <1>2, <1>3, <1>4, <1>5

\* A sequence of six.
LEMMA SixSeq ==
    ASSUME NEW a, NEW b, NEW c, NEW d, NEW e, NEW f
    PROVE  /\ IsSeq(<<a, b, c, d, e, f>>) /\ Len(<<a, b, c, d, e, f>>) = 6
           /\ <<a, b, c, d, e, f>>[1] = a /\ <<a, b, c, d, e, f>>[2] = b /\ <<a, b, c, d, e, f>>[3] = c
           /\ <<a, b, c, d, e, f>>[4] = d /\ <<a, b, c, d, e, f>>[5] = e /\ <<a, b, c, d, e, f>>[6] = f
BY DEF IsSeq, ToSet

\* The six fields of one master: names, values and numbers.
LEMMA MasterFieldFacts ==
    ASSUME NEW m, NEW n
    PROVE  /\ IsSeq(MasterFields(m, n)) /\ Len(MasterFields(m, n)) = 6
           /\ \A c \in 1 .. 6 : MasterFields(m, n)[c].k = MasterRow[c]
           /\ MasterFields(m, n)[1].v[1].s = m.host /\ MasterFields(m, n)[2].v[1].s = m.port
           /\ MasterFields(m, n)[3].v[1].s = IF m.up THEN "up" ELSE "down"
           /\ Atoi(MasterFields(m, n)[4].v) = m.io /\ Atoi(MasterFields(m, n)[5].v) = IF m.up THEN 0 ELSE 1
           /\ Atoi(MasterFields(m, n)[6].v) = m.offset
           /\ \A c \in 1 .. 5 : MasterFields(m, n)[c].i = n
<1> DEFINE F == MasterFields(m, n)
           f1 == Field("master_host", n, <<Txt("", m.host)>>)
           f2 == Field("master_port", n, <<Txt("", m.port)>>)
           f3 == Field("master_link_status", n, <<Txt("", IF m.up THEN "up" ELSE "down")>>)
           f4 == Field("master_last_io_seconds_ago", n, <<Num("", m.io)>>)
           f5 == Field("master_sync_in_progress", n, <<Num("", IF m.up THEN 0 ELSE 1)>>)
           f6 == Field("slave_repl_offset", "", <<Num("", m.offset)>>)
<1>1. F = <<f1, f2, f3, f4, f5, f6>>
  BY DEF MasterFields
<1>2. /\ f1.k = "master_host" /\ f2.k = "master_port" /\ f3.k = "master_link_status"
      /\ f4.k = "master_last_io_seconds_ago" /\ f5.k = "master_sync_in_progress" /\ f6.k = "slave_repl_offset"
  BY DEF Field
<1>3. f1.v[1].s = m.host /\ f2.v[1].s = m.port /\ f3.v[1].s = (IF m.up THEN "up" ELSE "down")
  BY DEF Field, Txt
<1>4. Atoi(f4.v) = m.io /\ Atoi(f5.v) = (IF m.up THEN 0 ELSE 1) /\ Atoi(f6.v) = m.offset
  BY DEF Field, Num, Atoi
<1>5. f1.i = n /\ f2.i = n /\ f3.i = n /\ f4.i = n /\ f5.i = n
  BY DEF Field
<1> HIDE DEF F, f1, f2, f3, f4, f5, f6
<1>6. IsSeq(F) /\ Len(F) = 6 /\ F[1] = f1 /\ F[2] = f2 /\ F[3] = f3 /\ F[4] = f4 /\ F[5] = f5 /\ F[6] = f6
  BY <1>1, SixSeq
<1>7. \A c \in 1 .. 6 : F[c].k = MasterRow[c]
  <2>1. \A c \in 1 .. 6 : c \in {1, 2, 3, 4, 5, 6}
    OBVIOUS
  <2>2. /\ MasterRow[1] = "master_host" /\ MasterRow[2] = "master_port" /\ MasterRow[3] = "master_link_status"
        /\ MasterRow[4] = "master_last_io_seconds_ago" /\ MasterRow[5] = "master_sync_in_progress"
        /\ MasterRow[6] = "slave_repl_offset"
    BY DEF MasterRow
  <2>3. QED
    BY <1>2, <1>6, <2>1, <2>2
<1>8. \A c \in 1 .. 5 : F[c].i = n
  <2>1. \A c \in 1 .. 5 : c \in {1, 2, 3, 4, 5}
    OBVIOUS
  <2>2. QED
    BY <1>5, <1>6, <2>1
<1>9. QED
  BY <1>3, <1>4, <1>6, <1>7, <1>8 DEF F

\* The fields of one master are a text.
LEMMA OneBlock ==
    ASSUME NEW s, NEW o \in DOMAIN s.masters
    PROVE  LET F == MasterFields(s.masters[o], Numbered(o))
           IN  /\ \E O : IsText(s, F, O) /\ Cover(F, O) = {<<MasterRow[c], o>> : c \in 1 .. 6}
               /\ \A a \in 1 .. Len(F) : F[a].k # "#" /\ Class(F[a]) = "Replication"
               /\ Len(F) = 6
<1> DEFINE F == MasterFields(s.masters[o], Numbered(o))
           O == <<o, o, o, o, o, o>>
<1>1. IsSeq(F) /\ Len(F) = 6 /\ \A c \in 1 .. 6 : F[c].k = MasterRow[c]
  BY MasterFieldFacts
<1>2. IsSeq(O) /\ Len(O) = 6 /\ \A c \in 1 .. 6 : O[c] = o
  <2>1. \A c \in 1 .. 6 : c \in {1, 2, 3, 4, 5, 6}
    OBVIOUS
  <2>2. QED
    BY <2>1, SixSeq
<1> HIDE DEF O
<1>3. ASSUME NEW a \in 1 .. 6 PROVE LineOk(s, F[a], O[a]) /\ F[a].k # "#" /\ Class(F[a]) = "Replication"
  <2>1. F[a].k \in MasterBlock /\ F[a].k # "#" /\ F[a].k \notin SingleKeys /\ F[a].k \notin ManyKeys
        /\ Home(F[a].k) = "Replication"
    BY <1>1, MasterRowFacts
  <2>2. O[a] \in DOMAIN s.masters
        /\ \E c \in 1 .. 6 : F[a].k = MasterRow[c] /\ F[a] = MasterFields(s.masters[O[a]], Numbered(O[a]))[c]
    BY <1>1, <1>2
  <2> HIDE DEF F
  <2>3. LineOk(s, F[a], O[a])
    BY <2>1, <2>2 DEF LineOk, SingleKeys, ManyKeys
  <2>4. QED
    BY <2>1, <2>3 DEF Class
<1> HIDE DEF F
<1>4. IsText(s, F, O)
  <2>1. \A a, b \in 1 .. 6 : a < b => <<F[a].k, O[a]>> # <<F[b].k, O[b]>>
    BY <1>1, MasterRowFacts
  <2>2. \A a \in 1 .. 6 - 1 : a \in 1 .. 6 /\ a + 1 \in 1 .. 6
    OBVIOUS
  <2>3. \A a \in 1 .. 6 - 1 : Follows(F[a], F[a + 1])
    BY <1>3, <2>2 DEF Follows
  <2>4. ASSUME NEW a \in 1 .. 6, F[a].k \in MasterBlock \ {"master_host"}
        PROVE  a > 1 /\ O[a - 1] = O[a] /\ Continues(F[a - 1], F[a])
    <3>1. a # 1
      BY <1>1, <2>4, MasterRowFacts
    <3>2. a \in 2 .. 6 /\ a - 1 \in 1 .. 6 /\ a > 1
      BY <3>1
    <3>3. F[a - 1].k = MasterRow[a - 1] /\ F[a].k = MasterRow[a]
      BY <1>1, <3>2
    <3>4. QED
      BY <1>2, <3>2, <3>3 DEF Continues
  <2>5. QED
    BY <1>1, <1>2, <1>3, <2>1, <2>3, <2>4 DEF IsText
<1>5. Cover(F, O) = {<<MasterRow[c], o>> : c \in 1 .. 6}
  BY <1>1, <1>2, <1>3 DEF Cover
<1>6. QED
  BY <1>1, <1>3, <1>4, <1>5 DEF F

\* The fields of one more master.
LEMMA BlocksStep ==
    ASSUME NEW s, NEW k \in Nat, k + 1 \in DOMAIN s.masters, NEW q, Blocks(s, q, k)
    PROVE  Blocks(s, q \o MasterFields(s.masters[k + 1], Numbered(k + 1)), k + 1)
<1> DEFINE F == MasterFields(s.masters[k + 1], Numbered(k + 1))
           D == {<<MasterRow[c], k + 1>> : c \in 1 .. 6}
           Y == q \o F
<1>1. PICK O : IsText(s, q, O) /\ Cover(q, O) = MasterPairs(k)
  BY DEF Blocks
<1>2. PICK Q : IsText(s, F, Q) /\ Cover(F, Q) = D
  BY OneBlock
<1>3. /\ \A a \in 1 .. Len(F) : F[a].k # "#" /\ Class(F[a]) = "Replication"
      /\ \A a \in 1 .. Len(q) : q[a].k # "#" /\ Class(q[a]) = "Replication"
      /\ Len(F) = 6
  BY OneBlock DEF Blocks
<1>4. IsSeq(q) /\ IsSeq(F)
  BY <1>1, <1>2 DEF IsText
<1> HIDE DEF F
<1>5. Meets(q, F)
  <2>1. Len(q) \in Nat
    BY <1>4, SeqFacts
  <2>2. Len(q) > 0 => Len(q) \in 1 .. Len(q)
    BY <2>1
  <2>3. QED
    BY <1>3, <2>2 DEF Meets, Follows
<1>6. Cover(q, O) \cap Cover(F, Q) = {} /\ MasterPairs(k) \cup D = MasterPairs(k + 1)
  <2>1. ASSUME NEW p \in MasterPairs(k) PROVE p[2] \in 1 .. k
    BY DEF MasterPairs
  <2>2. ASSUME NEW p \in D PROVE p[2] = k + 1
    OBVIOUS
  <2>3. MasterPairs(k) \cap D = {}
    <3> HIDE DEF D
    <3>1. QED
      BY <2>1, <2>2
  <2>4. 1 .. k + 1 = (1 .. k) \cup {k + 1}
    OBVIOUS
  <2>5. MasterPairs(k) \cup D = MasterPairs(k + 1)
    BY <2>4 DEF MasterPairs
  <2>6. QED
    BY <1>1, <1>2, <2>3, <2>5
<1> HIDE DEF D
<1>7. IsText(s, Y, O \o Q) /\ Cover(Y, O \o Q) = Cover(q, O) \cup Cover(F, Q)
  <2>1. IsText(s, q, O) /\ IsText(s, F, Q) /\ Cover(q, O) \cap Cover(F, Q) = {} /\ Meets(q, F)
    BY <1>1, <1>2, <1>5, <1>6
  <2>2. QED
    BY ONLY <2>1, JoinText
<1>8. /\ Len(Y) = Len(q) + Len(F) /\ Len(q) \in Nat /\ Len(F) \in Nat
      /\ \A i \in 1 .. Len(q) : Y[i] = q[i]
      /\ \A i \in 1 .. Len(F) : Y[Len(q) + i] = F[i]
  <2>1. Y = q \o F
    OBVIOUS
  <2> HIDE DEF Y
  <2>2. QED
    BY ONLY <1>4, <2>1, ConcatPlaces
<1>9. Cover(Y, O \o Q) = MasterPairs(k + 1)
  BY <1>1, <1>2, <1>6, <1>7
<1> HIDE DEF Y
<1>10. ASSUME NEW a \in 1 .. Len(Y) PROVE Y[a].k # "#" /\ Class(Y[a]) = "Replication"
  <2>1. CASE a <= Len(q)
    BY <1>3, <1>8, <2>1
  <2>2. CASE a > Len(q)
    <3> DEFINE i == a - Len(q)
    <3>1. i \in 1 .. Len(F) /\ a = Len(q) + i
      BY <1>8, <2>2
    <3> HIDE DEF i
    <3>2. QED
      BY <1>3, <1>8, <3>1
  <2>3. QED
    BY <1>8, <2>1, <2>2
<1>11. QED
  BY <1>7, <1>9, <1>10 DEF Blocks, Y, F

MasterSeq(s) ==
    [i \in DOMAIN s.masters |-> MasterFields(s.masters[i], IF i = 1 THEN "" ELSE Itoa(i - 1))]

\* The fields of all masters.
LEMMA MasterPart ==
    ASSUME NEW s, IsSeq(s.masters)
    PROVE  Part(s, FlattenSeq(MasterSeq(s)), 10, 10, "Replication", MasterPairs(Len(s.masters)))
<1> DEFINE ss == MasterSeq(s)
           n == Len(s.masters)
<1>1. n \in Nat /\ DOMAIN s.masters = 1 .. n
  BY SeqFacts
<1>2. /\ IsSeq(ss) /\ Len(ss) = n
      /\ \A i \in 1 .. n : ss[i] = MasterFields(s.masters[i], Numbered(i))
  <2>1. /\ DOMAIN ss = 1 .. n /\ ss = [i \in 1 .. n |-> ss[i]]
        /\ \A i \in 1 .. n : ss[i] = MasterFields(s.masters[i], Numbered(i))
    BY <1>1 DEF MasterSeq, Numbered
  <2> HIDE DEF ss, n
  <2>2. QED
    BY <1>1, <2>1, TableFacts
<1> HIDE DEF ss, n
<1>3. \A p \in MasterPairs(n) : Rank(p[1]) \in 10 .. 10
  BY MasterRowFacts DEF MasterPairs
<1>4. CASE n = 0
  <2>1. FlattenSeq(ss) = <<>>
    BY <1>2, <1>4, SeqFacts, FlattenNone
  <2>2. MasterPairs(0) = {}
    BY DEF MasterPairs
  <2>3. QED
    BY <2>1, <2>2, <1>4, NoPart DEF n, ss
<1>5. CASE n # 0
  <2> DEFINE f == CHOOSE f : Flattens(ss, n, f)
             N == {k \in Nat : k + 1 <= n => Blocks(s, f[k + 1], k + 1)}
  <2>1. Flattens(ss, n, f)
    BY <1>1, FlattensExists, Zenon
  <2> HIDE DEF f
  <2>2. \A i \in 1 .. n : f[i] = IF i = 1 THEN ss[i] ELSE f[i - 1] \o ss[i]
    BY <2>1, Zenon DEF Flattens
  <2>3. 0 \in N
    <3> DEFINE F == MasterFields(s.masters[1], Numbered(1))
    <3>1. 1 \in 1 .. n /\ f[1] = F /\ 1 \in DOMAIN s.masters
      BY <1>1, <1>2, <1>5, <2>2
    <3>2. /\ \E O : IsText(s, F, O) /\ Cover(F, O) = {<<MasterRow[c], 1>> : c \in 1 .. 6}
          /\ \A a \in 1 .. Len(F) : F[a].k # "#" /\ Class(F[a]) = "Replication"
      BY <3>1, OneBlock
    <3>3. MasterPairs(1) = {<<MasterRow[c], 1>> : c \in 1 .. 6}
      <4>1. 1 .. 1 = {1}
        OBVIOUS
      <4>2. QED
        BY <4>1 DEF MasterPairs
    <3> HIDE DEF F
    <3>4. Blocks(s, F, 1)
      BY <3>2, <3>3 DEF Blocks
    <3>5. QED
      BY <3>1, <3>4
  <2>4. ASSUME NEW k \in Nat, k \in N PROVE k + 1 \in N
    <3> SUFFICES ASSUME (k + 1) + 1 <= n PROVE Blocks(s, f[(k + 1) + 1], (k + 1) + 1)
      OBVIOUS
    <3>1. Blocks(s, f[k + 1], k + 1)
      BY <1>1, <2>4
    <3>2. (k + 1) + 1 \in 1 .. n /\ (k + 1) + 1 # 1 /\ ((k + 1) + 1) - 1 = k + 1 /\ k + 1 \in Nat
      BY <1>1
    <3>3. f[(k + 1) + 1] = f[k + 1] \o MasterFields(s.masters[(k + 1) + 1], Numbered((k + 1) + 1))
      BY <2>2, <3>2, <1>2
    <3>4. Blocks(s, f[k + 1] \o MasterFields(s.masters[(k + 1) + 1], Numbered((k + 1) + 1)), (k + 1) + 1)
      BY <1>1, <3>1, <3>2, BlocksStep
    <3>5. QED
      BY <3>3, <3>4
  <2>5. n - 1 \in N
    <3>1. n - 1 \in Nat
      BY <1>1, <1>5
    <3> HIDE DEF N
    <3>2. QED
      BY <2>3, <2>4, <3>1, NatSetInduction
  <2>6. Blocks(s, f[n], n)
    <3>1. (n - 1) + 1 = n
      BY <1>1
    <3>2. QED
      BY <1>1, <2>5, <3>1
  <2>7. FlattenSeq(ss) = f[n]
    BY <1>2, <1>5, FlattenMeaning DEF f
  <2>8. QED
    BY <1>3, <2>6, <2>7 DEF Blocks, Part, Ranked, ss, n
<1>6. QED
  BY <1>4, <1>5

\* Lines are what their names say.
LEMMA SingleLines ==
    ASSUME NEW s
    PROVE  /\ Part(s, <<VersionLine(s)>>, 1, 1, "Server", {<<"redis_version", 0>>})
           /\ s.kind \in Valkey => Part(s, <<ValkeyLine(s)>>, 2, 2, "Server", {<<"valkey_version", 0>>})
           /\ s.kind = "valkey8" => Part(s, <<StageLine>>, 3, 3, "Server", {<<"valkey_release_stage", 0>>})
           /\ Part(s, <<UptimeLine>>, 4, 4, "Server", {<<"uptime_in_seconds", 0>>})
           /\ Part(s, <<HzLine>>, 5, 5, "Server", {<<"hz", 0>>})
           /\ Part(s, <<ForkLine>>, 6, 6, "Stats", {<<"latest_fork_usec", 0>>})
           /\ s.sentinel => Part(s, <<SentinelsLine>>, 7, 7, "Sentinel", {<<"sentinel_masters", 0>>})
           /\ s.sentinel => Part(s, <<MasterOfSentinel>>, 8, 8, "Sentinel", {<<"master", 0>>})
           /\ ~s.sentinel => Part(s, <<RoleLine(s)>>, 9, 9, "Replication", {<<"role", 0>>})
           /\ s.masters # <<>> => Part(s, <<ReadOnlyLine>>, 11, 11, "Replication", {<<"slave_read_only", 0>>})
           /\ Part(s, <<SlavesLine(s)>>, 12, 12, "Replication", {<<"connected_slaves", 0>>})
           /\ Part(s, <<ErrorLine>>, 15, 15, "Errorstats", {<<"errorstat_", 0>>})
           /\ Part(s, <<ClusterLine(s)>>, 17, 17, "Cluster", {<<"cluster_enabled", 0>>})
<1> USE DEF SingleKeys, MasterBlock, ManyKeys
<1>1. Part(s, <<VersionLine(s)>>, 1, 1, "Server", {<<"redis_version", 0>>})
  <2>1. VersionLine(s).k = "redis_version"
    BY DEF VersionLine, Field
  <2>2. LineOk(s, VersionLine(s), 0)
    BY <2>1 DEF LineOk
  <2>3. Rank("redis_version") = 1 /\ Home("redis_version") = "Server"
    BY DEF Rank, Home
  <2>4. QED
    BY <2>1, <2>2, <2>3, LinePart
<1>2. ASSUME s.kind \in Valkey PROVE Part(s, <<ValkeyLine(s)>>, 2, 2, "Server", {<<"valkey_version", 0>>})
  <2>1. ValkeyLine(s).k = "valkey_version"
    BY DEF ValkeyLine, Field
  <2>2. LineOk(s, ValkeyLine(s), 0)
    BY <2>1, <1>2 DEF LineOk
  <2>3. Rank("valkey_version") = 2 /\ Home("valkey_version") = "Server"
    BY DEF Rank, Home
  <2>4. QED
    BY <2>1, <2>2, <2>3, LinePart
<1>3. ASSUME s.kind = "valkey8" PROVE Part(s, <<StageLine>>, 3, 3, "Server", {<<"valkey_release_stage", 0>>})
  <2>1. StageLine.k = "valkey_release_stage"
    BY DEF StageLine, Field
  <2>2. LineOk(s, StageLine, 0)
    BY <2>1, <1>3 DEF LineOk
  <2>3. Rank("valkey_release_stage") = 3 /\ Home("valkey_release_stage") = "Server"
    BY DEF Rank, Home
  <2>4. QED
    BY <2>1, <2>2, <2>3, LinePart
<1>4. Part(s, <<UptimeLine>>, 4, 4, "Server", {<<"uptime_in_seconds", 0>>})
  <2>1. UptimeLine.k = "uptime_in_seconds"
    BY DEF UptimeLine, Field
  <2>2. LineOk(s, UptimeLine, 0)
    BY <2>1 DEF LineOk
  <2>3. Rank("uptime_in_seconds") = 4 /\ Home("uptime_in_seconds") = "Server"
    BY DEF Rank, Home
  <2>4. QED
    BY <2>1, <2>2, <2>3, LinePart
<1>5. Part(s, <<HzLine>>, 5, 5, "Server", {<<"hz", 0>>})
  <2>1. HzLine.k = "hz"
    BY DEF HzLine, Field
  <2>2. LineOk(s, HzLine, 0)
    BY <2>1 DEF LineOk
  <2>3. Rank("hz") = 5 /\ Home("hz") = "Server"
    BY DEF Rank, Home
  <2>4. QED
    BY <2>1, <2>2, <2>3, LinePart
<1>6. Part(s, <<ForkLine>>, 6, 6, "Stats", {<<"latest_fork_usec", 0>>})
  <2>1. ForkLine.k = "latest_fork_usec"
    BY DEF ForkLine, Field
  <2>2. LineOk(s, ForkLine, 0)
    BY <2>1 DEF LineOk
  <2>3. Rank("latest_fork_usec") = 6 /\ Home("latest_fork_usec") = "Stats"
    BY DEF Rank, Home
  <2>4. QED
    BY <2>1, <2>2, <2>3, LinePart
<1>7. ASSUME s.sentinel PROVE Part(s, <<SentinelsLine>>, 7, 7, "Sentinel", {<<"sentinel_masters", 0>>})
  <2>1. SentinelsLine.k = "sentinel_masters"
    BY DEF SentinelsLine, Field
  <2>2. LineOk(s, SentinelsLine, 0)
    BY <2>1, <1>7 DEF LineOk
  <2>3. Rank("sentinel_masters") = 7 /\ Home("sentinel_masters") = "Sentinel"
    BY DEF Rank, Home
  <2>4. QED
    BY <2>1, <2>2, <2>3, LinePart
<1>8. ASSUME s.sentinel PROVE Part(s, <<MasterOfSentinel>>, 8, 8, "Sentinel", {<<"master", 0>>})
  <2>1. MasterOfSentinel.k = "master"
    BY DEF MasterOfSentinel, Field
  <2>2. LineOk(s, MasterOfSentinel, 0)
    BY <2>1, <1>8 DEF LineOk
  <2>3. Rank("master") = 8 /\ Home("master") = "Sentinel"
    BY DEF Rank, Home
  <2>4. QED
    BY <2>1, <2>2, <2>3, LinePart
<1>9. ASSUME ~s.sentinel PROVE Part(s, <<RoleLine(s)>>, 9, 9, "Replication", {<<"role", 0>>})
  <2>1. RoleLine(s).k = "role"
    BY DEF RoleLine, Field
  <2>2. LineOk(s, RoleLine(s), 0)
    BY <2>1, <1>9 DEF LineOk
  <2>3. Rank("role") = 9 /\ Home("role") = "Replication"
    BY DEF Rank, Home
  <2>4. QED
    BY <2>1, <2>2, <2>3, LinePart
<1>10. ASSUME s.masters # <<>> PROVE Part(s, <<ReadOnlyLine>>, 11, 11, "Replication", {<<"slave_read_only", 0>>})
  <2>1. ReadOnlyLine.k = "slave_read_only"
    BY DEF ReadOnlyLine, Field
  <2>2. LineOk(s, ReadOnlyLine, 0)
    BY <2>1, <1>10 DEF LineOk
  <2>3. Rank("slave_read_only") = 11 /\ Home("slave_read_only") = "Replication"
    BY DEF Rank, Home
  <2>4. QED
    BY <2>1, <2>2, <2>3, LinePart
<1>11. Part(s, <<SlavesLine(s)>>, 12, 12, "Replication", {<<"connected_slaves", 0>>})
  <2>1. SlavesLine(s).k = "connected_slaves"
    BY DEF SlavesLine, Field
  <2>2. LineOk(s, SlavesLine(s), 0)
    BY <2>1 DEF LineOk
  <2>3. Rank("connected_slaves") = 12 /\ Home("connected_slaves") = "Replication"
    BY DEF Rank, Home
  <2>4. QED
    BY <2>1, <2>2, <2>3, LinePart
<1>12. Part(s, <<ErrorLine>>, 15, 15, "Errorstats", {<<"errorstat_", 0>>})
  <2>1. ErrorLine.k = "errorstat_"
    BY DEF ErrorLine, Field
  <2>2. LineOk(s, ErrorLine, 0)
    BY <2>1 DEF LineOk
  <2>3. Rank("errorstat_") = 15 /\ Home("errorstat_") = "Errorstats"
    BY DEF Rank, Home
  <2>4. QED
    BY <2>1, <2>2, <2>3, LinePart
<1>13. Part(s, <<ClusterLine(s)>>, 17, 17, "Cluster", {<<"cluster_enabled", 0>>})
  <2>1. ClusterLine(s).k = "cluster_enabled"
    BY DEF ClusterLine, Field
  <2>2. LineOk(s, ClusterLine(s), 0)
    BY <2>1 DEF LineOk
  <2>3. Rank("cluster_enabled") = 17 /\ Home("cluster_enabled") = "Cluster"
    BY DEF Rank, Home
  <2>4. QED
    BY <2>1, <2>2, <2>3, LinePart
<1> QED
  BY <1>1, <1>2, <1>3, <1>4, <1>5, <1>6, <1>7, <1>8, <1>9, <1>10, <1>11, <1>12, <1>13

\* A header after a section begins another one.
LEMMA SectHeader ==
    ASSUME NEW s, NEW X, NEW a \in Int, NEW b \in Int, a <= b, NEW h, NEW g, NEW C, Sect(s, X, a, b, h, C)
    PROVE  Sect(s, X \o Header(g), a, b, g, C)
<1>1. Sect(s, Header(g), b + 1, b + 1, g, {})
  BY HeaderSect
<1>2. Sect(s, X \o Header(g), a, b + 1, g, C \cup {})
  BY <1>1, SectSect
<1>3. C \cup {} = C
  OBVIOUS
<1>4. Ranked(C, a, b)
  BY DEF Sect
<1>5. QED
  BY <1>2, <1>3, <1>4 DEF Sect

\* The parts of a field.
LEMMA FieldParts ==
    ASSUME NEW k, NEW i, NEW v
    PROVE  Field(k, i, v).k = k /\ Field(k, i, v).i = i /\ Field(k, i, v).v = v
BY DEF Field

\* The values of the lines.
ReplicaParts(s, r) ==
    <<Txt("ip", r.ip), Txt("port", r.port), Txt("state", r.state), Num("offset", r.offset)>>
    \o If(s.kind \in Since28, <<Num("lag", r.lag)>>)
CommandParts(s, c) ==
    <<Num("calls", c.calls), Num("usec", c.usec)>>
    \o If(c.cmd \notin s.brief, <<Num("usec_per_call", c.usec \div c.calls)>>
          \o If(s.kind \in Since62, <<Num("rejected_calls", c.rejected), Num("failed_calls", 1)>>))
PercentileParts(c) == <<Num("p50", c.usec), Num("p99", c.usec + 1)>>
KeyspaceParts(s, d) ==
    <<Num("keys", d.keys), Num("expires", d.expires)>>
    \o If(s.kind \in Since28, <<Num("avg_ttl", d.ttl)>>)
    \o If(s.kind = "keydb", <<Num("cached_keys", d.other)>>)
    \o If(s.kind \in Since74, <<Num("subexpiry", d.other)>>)
    \o If(s.kind = "later", <<Num("more", 0)>>)

\* The lines that occur once per replica, command or database, as fields.
LEMMA LinesAre ==
    ASSUME NEW s, NEW x, NEW n
    PROVE  /\ ReplicaField(s, x, n) = Field("slave", n, ReplicaParts(s, x))
           /\ CommandField(s, x) = Field("cmdstat_", x.cmd, CommandParts(s, x))
           /\ PercentileField(x) = Field("latency_percentiles_usec_", x.cmd, PercentileParts(x))
           /\ KeyspaceField(s, x) = Field("db", Itoa(x.db), KeyspaceParts(s, x))
BY Zenon DEF ReplicaField, CommandField, PercentileField, KeyspaceField, ReplicaParts, CommandParts,
             PercentileParts, KeyspaceParts

\* Their names, numbers and values.
LEMMA LineNamesOf ==
    ASSUME NEW s, NEW x, NEW n
    PROVE  /\ ReplicaField(s, x, n).k = "slave" /\ ReplicaField(s, x, n).i = n
           /\ ReplicaField(s, x, n).v = ReplicaParts(s, x)
           /\ CommandField(s, x).k = "cmdstat_" /\ CommandField(s, x).i = x.cmd
           /\ CommandField(s, x).v = CommandParts(s, x)
           /\ PercentileField(x).k = "latency_percentiles_usec_" /\ PercentileField(x).i = x.cmd
           /\ PercentileField(x).v = PercentileParts(x)
           /\ KeyspaceField(s, x).k = "db" /\ KeyspaceField(s, x).i = Itoa(x.db)
           /\ KeyspaceField(s, x).v = KeyspaceParts(s, x)
<1>1. /\ ReplicaField(s, x, n) = Field("slave", n, ReplicaParts(s, x))
      /\ CommandField(s, x) = Field("cmdstat_", x.cmd, CommandParts(s, x))
      /\ PercentileField(x) = Field("latency_percentiles_usec_", x.cmd, PercentileParts(x))
      /\ KeyspaceField(s, x) = Field("db", Itoa(x.db), KeyspaceParts(s, x))
  BY LinesAre
<1>2. ReplicaField(s, x, n).k = "slave" /\ ReplicaField(s, x, n).i = n /\ ReplicaField(s, x, n).v = ReplicaParts(s, x)
  BY <1>1, FieldParts
<1>3. CommandField(s, x).k = "cmdstat_" /\ CommandField(s, x).i = x.cmd /\ CommandField(s, x).v = CommandParts(s, x)
  BY <1>1, FieldParts
<1>4. /\ PercentileField(x).k = "latency_percentiles_usec_" /\ PercentileField(x).i = x.cmd
      /\ PercentileField(x).v = PercentileParts(x)
  BY <1>1, FieldParts
<1>5. KeyspaceField(s, x).k = "db" /\ KeyspaceField(s, x).i = Itoa(x.db) /\ KeyspaceField(s, x).v = KeyspaceParts(s, x)
  BY <1>1, FieldParts
<1>6. QED
  BY <1>2, <1>3, <1>4, <1>5

\* The lines there is one of for each fact.
LEMMA ManyLines ==
    ASSUME NEW s, IsSeq(s.replicas), IsSeq(s.cmds), IsSeq(s.dbs)
    PROVE  /\ Part(s, Each(LAMBDA i : ReplicaField(s, s.replicas[i], Itoa(i - 1)), Len(s.replicas)), 13, 13,
                   "Replication", {<<"slave", o>> : o \in 1 .. Len(s.replicas)})
           /\ Part(s, Each(LAMBDA i : CommandField(s, s.cmds[i]), Len(s.cmds)), 14, 14,
                   "Commandstats", {<<"cmdstat_", o>> : o \in 1 .. Len(s.cmds)})
           /\ s.kind \in Since70 =>
                 Part(s, Each(LAMBDA i : PercentileField(s.cmds[i]), Len(s.cmds)), 16, 16,
                      "Latencystats", {<<"latency_percentiles_usec_", o>> : o \in 1 .. Len(s.cmds)})
           /\ Part(s, Each(LAMBDA i : KeyspaceField(s, s.dbs[i]), Len(s.dbs)), 18, 18,
                   "Keyspace", {<<"db", o>> : o \in 1 .. Len(s.dbs)})
<1>1. Part(s, Each(LAMBDA i : ReplicaField(s, s.replicas[i], Itoa(i - 1)), Len(s.replicas)), 13, 13, "Replication", {<<"slave", o>> : o \in 1 .. Len(s.replicas)})
  <2> DEFINE n == Len(s.replicas)
             P == [i \in 1 .. n |-> ReplicaField(s, s.replicas[i], Itoa(i - 1))]
  <2>1. n \in Nat /\ DOMAIN s.replicas = 1 .. n
    BY SeqFacts
  <2>2. Each(LAMBDA i : ReplicaField(s, s.replicas[i], Itoa(i - 1)), n) = P
    BY DEF Each
  <2>3. DOMAIN P = 1 .. n /\ P = [i \in 1 .. n |-> P[i]] /\ \A i \in 1 .. n : P[i] = ReplicaField(s, s.replicas[i], Itoa(i - 1))
    OBVIOUS
  <2> HIDE DEF P, n
  <2>4. IsSeq(P) /\ Len(P) = n
    BY <2>1, <2>3, TableFacts
  <2>5. ASSUME NEW a \in 1 .. n PROVE P[a].k = "slave" /\ LineOk(s, P[a], a)
    <3>1. a \in DOMAIN s.replicas /\ P[a] = ReplicaField(s, s.replicas[a], Itoa(a - 1))
      BY <2>1, <2>3
    <3>3. P[a].k = "slave"
      BY <3>1, LineNamesOf
    <3>2. QED
      BY <3>1, <3>3 DEF LineOk, SingleKeys, MasterBlock, ManyKeys
  <2>6. "slave" \in ManyKeys /\ Rank("slave") = 13 /\ Home("slave") = "Replication"
    BY DEF ManyKeys, Rank, Home
  <2>7. Part(s, P, 13, 13, "Replication", {<<"slave", o>> : o \in 1 .. Len(P)})
    BY <2>4, <2>5, <2>6, EachPart
  <2>8. QED
    BY <2>2, <2>4, <2>7 DEF n
<1>2. Part(s, Each(LAMBDA i : CommandField(s, s.cmds[i]), Len(s.cmds)), 14, 14, "Commandstats", {<<"cmdstat_", o>> : o \in 1 .. Len(s.cmds)})
  <2> DEFINE n == Len(s.cmds)
             P == [i \in 1 .. n |-> CommandField(s, s.cmds[i])]
  <2>1. n \in Nat /\ DOMAIN s.cmds = 1 .. n
    BY SeqFacts
  <2>2. Each(LAMBDA i : CommandField(s, s.cmds[i]), n) = P
    BY DEF Each
  <2>3. DOMAIN P = 1 .. n /\ P = [i \in 1 .. n |-> P[i]] /\ \A i \in 1 .. n : P[i] = CommandField(s, s.cmds[i])
    OBVIOUS
  <2> HIDE DEF P, n
  <2>4. IsSeq(P) /\ Len(P) = n
    BY <2>1, <2>3, TableFacts
  <2>5. ASSUME NEW a \in 1 .. n PROVE P[a].k = "cmdstat_" /\ LineOk(s, P[a], a)
    <3>1. a \in DOMAIN s.cmds /\ P[a] = CommandField(s, s.cmds[a])
      BY <2>1, <2>3
    <3>3. P[a].k = "cmdstat_"
      BY <3>1, LineNamesOf
    <3>2. QED
      BY <3>1, <3>3 DEF LineOk, SingleKeys, MasterBlock, ManyKeys
  <2>6. "cmdstat_" \in ManyKeys /\ Rank("cmdstat_") = 14 /\ Home("cmdstat_") = "Commandstats"
    BY DEF ManyKeys, Rank, Home
  <2>7. Part(s, P, 14, 14, "Commandstats", {<<"cmdstat_", o>> : o \in 1 .. Len(P)})
    BY <2>4, <2>5, <2>6, EachPart
  <2>8. QED
    BY <2>2, <2>4, <2>7 DEF n
<1>3. ASSUME s.kind \in Since70 PROVE Part(s, Each(LAMBDA i : PercentileField(s.cmds[i]), Len(s.cmds)), 16, 16, "Latencystats", {<<"latency_percentiles_usec_", o>> : o \in 1 .. Len(s.cmds)})
  <2> DEFINE n == Len(s.cmds)
             P == [i \in 1 .. n |-> PercentileField(s.cmds[i])]
  <2>1. n \in Nat /\ DOMAIN s.cmds = 1 .. n
    BY SeqFacts
  <2>2. Each(LAMBDA i : PercentileField(s.cmds[i]), n) = P
    BY DEF Each
  <2>3. DOMAIN P = 1 .. n /\ P = [i \in 1 .. n |-> P[i]] /\ \A i \in 1 .. n : P[i] = PercentileField(s.cmds[i])
    OBVIOUS
  <2> HIDE DEF P, n
  <2>4. IsSeq(P) /\ Len(P) = n
    BY <2>1, <2>3, TableFacts
  <2>5. ASSUME NEW a \in 1 .. n PROVE P[a].k = "latency_percentiles_usec_" /\ LineOk(s, P[a], a)
    <3>1. a \in DOMAIN s.cmds /\ P[a] = PercentileField(s.cmds[a])
      BY <2>1, <2>3
    <3>3. P[a].k = "latency_percentiles_usec_"
      BY <3>1, LineNamesOf
    <3>2. QED
      BY <3>1, <3>3, <1>3 DEF LineOk, SingleKeys, MasterBlock, ManyKeys
  <2>6. "latency_percentiles_usec_" \in ManyKeys /\ Rank("latency_percentiles_usec_") = 16 /\ Home("latency_percentiles_usec_") = "Latencystats"
    BY DEF ManyKeys, Rank, Home
  <2>7. Part(s, P, 16, 16, "Latencystats", {<<"latency_percentiles_usec_", o>> : o \in 1 .. Len(P)})
    BY <2>4, <2>5, <2>6, EachPart
  <2>8. QED
    BY <2>2, <2>4, <2>7 DEF n
<1>4. Part(s, Each(LAMBDA i : KeyspaceField(s, s.dbs[i]), Len(s.dbs)), 18, 18, "Keyspace", {<<"db", o>> : o \in 1 .. Len(s.dbs)})
  <2> DEFINE n == Len(s.dbs)
             P == [i \in 1 .. n |-> KeyspaceField(s, s.dbs[i])]
  <2>1. n \in Nat /\ DOMAIN s.dbs = 1 .. n
    BY SeqFacts
  <2>2. Each(LAMBDA i : KeyspaceField(s, s.dbs[i]), n) = P
    BY DEF Each
  <2>3. DOMAIN P = 1 .. n /\ P = [i \in 1 .. n |-> P[i]] /\ \A i \in 1 .. n : P[i] = KeyspaceField(s, s.dbs[i])
    OBVIOUS
  <2> HIDE DEF P, n
  <2>4. IsSeq(P) /\ Len(P) = n
    BY <2>1, <2>3, TableFacts
  <2>5. ASSUME NEW a \in 1 .. n PROVE P[a].k = "db" /\ LineOk(s, P[a], a)
    <3>1. a \in DOMAIN s.dbs /\ P[a] = KeyspaceField(s, s.dbs[a])
      BY <2>1, <2>3
    <3>3. P[a].k = "db"
      BY <3>1, LineNamesOf
    <3>2. QED
      BY <3>1, <3>3 DEF LineOk, SingleKeys, MasterBlock, ManyKeys
  <2>6. "db" \in ManyKeys /\ Rank("db") = 18 /\ Home("db") = "Keyspace"
    BY DEF ManyKeys, Rank, Home
  <2>7. Part(s, P, 18, 18, "Keyspace", {<<"db", o>> : o \in 1 .. Len(P)})
    BY <2>4, <2>5, <2>6, EachPart
  <2>8. QED
    BY <2>2, <2>4, <2>7 DEF n
<1>5. QED
  BY <1>1, <1>2, <1>3, <1>4

\* A header and the lines of its section.
LEMMA HeaderPart ==
    ASSUME NEW s, NEW h, NEW P, NEW r \in Int, NEW D, Sect(s, Header(h), r, r, h, {}), Part(s, P, r, r, h, D)
    PROVE  Sect(s, Header(h) \o P, r, r, h, D)
<1>1. Sect(s, Header(h), r - 1, r - 1, h, {})
  BY HeaderSect
<1>2. Sect(s, Header(h) \o P, r - 1, r, h, {} \cup D)
  BY <1>1, SectPart
<1>3. {} \cup D = D /\ Ranked(D, r, r)
  BY DEF Part
<1>4. QED
  BY <1>2, <1>3 DEF Sect

FrontText(s) ==
    Header("Server")
    \o <<VersionLine(s)>>
    \o If(s.kind \in Valkey, <<ValkeyLine(s)>>)
    \o If(s.kind = "valkey8", <<StageLine>>)
    \o <<UptimeLine>>
    \o <<HzLine>>
    \o Header("Stats")
    \o <<ForkLine>>
FrontPairs(s) ==
    {<<"redis_version", 0>>}
    \cup (IF s.kind \in Valkey THEN {<<"valkey_version", 0>>} ELSE {})
    \cup (IF s.kind = "valkey8" THEN {<<"valkey_release_stage", 0>>} ELSE {})
    \cup {<<"uptime_in_seconds", 0>>}
    \cup {<<"hz", 0>>}
    \cup {<<"latest_fork_usec", 0>>}

\* The sections Server and Stats.
LEMMA FrontSect ==
    ASSUME NEW s
    PROVE  \E g : Sect(s, FrontText(s), 0, 6, g, FrontPairs(s))
<1> DEFINE X0 == Header("Server")
           X1 == X0 \o <<VersionLine(s)>>
           X2 == X1 \o If(s.kind \in Valkey, <<ValkeyLine(s)>>)
           X3 == X2 \o If(s.kind = "valkey8", <<StageLine>>)
           X4 == X3 \o <<UptimeLine>>
           X5 == X4 \o <<HzLine>>
           X6 == X5 \o Header("Stats")
           X7 == X6 \o <<ForkLine>>
           C1 == {<<"redis_version", 0>>}
           C2 == C1 \cup (IF s.kind \in Valkey THEN {<<"valkey_version", 0>>} ELSE {})
           C3 == C2 \cup (IF s.kind = "valkey8" THEN {<<"valkey_release_stage", 0>>} ELSE {})
           C4 == C3 \cup {<<"uptime_in_seconds", 0>>}
           C5 == C4 \cup {<<"hz", 0>>}
           C6 == C5 \cup {<<"latest_fork_usec", 0>>}
<1>t. FrontText(s) = X7 /\ FrontPairs(s) = C6
  BY DEF FrontText, FrontPairs
<1>0. Sect(s, X0, 0, 0, "Server", {})
  BY HeaderSect
<1> HIDE DEF X0
<1>1p. Part(s, <<VersionLine(s)>>, 1, 1, "Server", {<<"redis_version", 0>>})
  BY SingleLines
<1>1. Sect(s, X1, 0, 1, "Server", C1)
  <2>1. Sect(s, X1, 0, 1, "Server", {} \cup {<<"redis_version", 0>>})
    BY <1>0, <1>1p, SectPart
  <2>2. {} \cup {<<"redis_version", 0>>} = C1
    OBVIOUS
  <2>3. QED
    BY <2>1, <2>2
<1> HIDE DEF X1, C1
<1>2p. Part(s, If(s.kind \in Valkey, <<ValkeyLine(s)>>), 2, 2, "Server", (IF s.kind \in Valkey THEN {<<"valkey_version", 0>>} ELSE {}))
  <2>1. CASE s.kind \in Valkey
    BY <2>1, SingleLines DEF If
  <2>2. CASE ~(s.kind \in Valkey)
    BY <2>2, NoPart DEF If
  <2>3. QED
    BY <2>1, <2>2
<1>2. Sect(s, X2, 0, 2, "Server", C2)
  BY <1>1, <1>2p, SectPart
<1> HIDE DEF X2, C2
<1>3p. Part(s, If(s.kind = "valkey8", <<StageLine>>), 3, 3, "Server", (IF s.kind = "valkey8" THEN {<<"valkey_release_stage", 0>>} ELSE {}))
  <2>1. CASE s.kind = "valkey8"
    BY <2>1, SingleLines DEF If
  <2>2. CASE ~(s.kind = "valkey8")
    BY <2>2, NoPart DEF If
  <2>3. QED
    BY <2>1, <2>2
<1>3. Sect(s, X3, 0, 3, "Server", C3)
  BY <1>2, <1>3p, SectPart
<1> HIDE DEF X3, C3
<1>4p. Part(s, <<UptimeLine>>, 4, 4, "Server", {<<"uptime_in_seconds", 0>>})
  BY SingleLines
<1>4. Sect(s, X4, 0, 4, "Server", C4)
  BY <1>3, <1>4p, SectPart
<1> HIDE DEF X4, C4
<1>5p. Part(s, <<HzLine>>, 5, 5, "Server", {<<"hz", 0>>})
  BY SingleLines
<1>5. Sect(s, X5, 0, 5, "Server", C5)
  BY <1>4, <1>5p, SectPart
<1> HIDE DEF X5, C5
<1>6. Sect(s, X6, 0, 5, "Stats", C5)
  BY <1>5, SectHeader
<1> HIDE DEF X6, C5
<1>7p. Part(s, <<ForkLine>>, 6, 6, "Stats", {<<"latest_fork_usec", 0>>})
  BY SingleLines
<1>7. Sect(s, X7, 0, 6, "Stats", C6)
  BY <1>6, <1>7p, SectPart
<1> HIDE DEF X7, C6
<1>q. QED
  BY <1>t, <1>7

WatchText(s) ==
    Header("Sentinel")
    \o <<SentinelsLine>>
    \o <<MasterOfSentinel>>
WatchPairs(s) ==
    {<<"sentinel_masters", 0>>}
    \cup {<<"master", 0>>}

\* The section of a sentinel.
LEMMA WatchSect ==
    ASSUME NEW s, s.sentinel
    PROVE  \E g : Sect(s, WatchText(s), 6, 8, g, WatchPairs(s))
<1> DEFINE X0 == Header("Sentinel")
           X1 == X0 \o <<SentinelsLine>>
           X2 == X1 \o <<MasterOfSentinel>>
           C1 == {<<"sentinel_masters", 0>>}
           C2 == C1 \cup {<<"master", 0>>}
<1>t. WatchText(s) = X2 /\ WatchPairs(s) = C2
  BY DEF WatchText, WatchPairs
<1>0. Sect(s, X0, 6, 6, "Sentinel", {})
  BY HeaderSect
<1> HIDE DEF X0
<1>1p. Part(s, <<SentinelsLine>>, 7, 7, "Sentinel", {<<"sentinel_masters", 0>>})
  BY SingleLines
<1>1. Sect(s, X1, 6, 7, "Sentinel", C1)
  <2>1. Sect(s, X1, 6, 7, "Sentinel", {} \cup {<<"sentinel_masters", 0>>})
    BY <1>0, <1>1p, SectPart
  <2>2. {} \cup {<<"sentinel_masters", 0>>} = C1
    OBVIOUS
  <2>3. QED
    BY <2>1, <2>2
<1> HIDE DEF X1, C1
<1>2p. Part(s, <<MasterOfSentinel>>, 8, 8, "Sentinel", {<<"master", 0>>})
  BY SingleLines
<1>2. Sect(s, X2, 6, 8, "Sentinel", C2)
  BY <1>1, <1>2p, SectPart
<1> HIDE DEF X2, C2
<1>q. QED
  BY <1>t, <1>2

DataText(s) ==
    Header("Replication")
    \o <<RoleLine(s)>>
    \o FlattenSeq(MasterSeq(s))
    \o If(s.masters # <<>>, <<ReadOnlyLine>>)
    \o <<SlavesLine(s)>>
    \o Each(LAMBDA i : ReplicaField(s, s.replicas[i], Itoa(i - 1)), Len(s.replicas))
    \o Header("Commandstats")
    \o Each(LAMBDA i : CommandField(s, s.cmds[i]), Len(s.cmds))
    \o If(s.kind \in Since62, Header("Errorstats") \o <<ErrorLine>>)
    \o If(s.kind \in Since70, Header("Latencystats") \o Each(LAMBDA i : PercentileField(s.cmds[i]), Len(s.cmds)))
    \o Header("Cluster")
    \o <<ClusterLine(s)>>
    \o Header("Keyspace")
    \o Each(LAMBDA i : KeyspaceField(s, s.dbs[i]), Len(s.dbs))
DataPairs(s) ==
    {<<"role", 0>>}
    \cup MasterPairs(Len(s.masters))
    \cup (IF s.masters # <<>> THEN {<<"slave_read_only", 0>>} ELSE {})
    \cup {<<"connected_slaves", 0>>}
    \cup {<<"slave", o>> : o \in 1 .. Len(s.replicas)}
    \cup {<<"cmdstat_", o>> : o \in 1 .. Len(s.cmds)}
    \cup (IF s.kind \in Since62 THEN {<<"errorstat_", 0>>} ELSE {})
    \cup (IF s.kind \in Since70 THEN {<<"latency_percentiles_usec_", o>> : o \in 1 .. Len(s.cmds)} ELSE {})
    \cup {<<"cluster_enabled", 0>>}
    \cup {<<"db", o>> : o \in 1 .. Len(s.dbs)}

\* The sections of a server that holds data.
LEMMA DataSect ==
    ASSUME NEW s, ~s.sentinel, IsSeq(s.masters), IsSeq(s.replicas), IsSeq(s.cmds), IsSeq(s.dbs)
    PROVE  \E g : Sect(s, DataText(s), 8, 18, g, DataPairs(s))
<1> DEFINE X0 == Header("Replication")
           X1 == X0 \o <<RoleLine(s)>>
           X2 == X1 \o FlattenSeq(MasterSeq(s))
           X3 == X2 \o If(s.masters # <<>>, <<ReadOnlyLine>>)
           X4 == X3 \o <<SlavesLine(s)>>
           X5 == X4 \o Each(LAMBDA i : ReplicaField(s, s.replicas[i], Itoa(i - 1)), Len(s.replicas))
           X6 == X5 \o Header("Commandstats")
           X7 == X6 \o Each(LAMBDA i : CommandField(s, s.cmds[i]), Len(s.cmds))
           X8 == X7 \o If(s.kind \in Since62, Header("Errorstats") \o <<ErrorLine>>)
           X9 == X8 \o If(s.kind \in Since70, Header("Latencystats") \o Each(LAMBDA i : PercentileField(s.cmds[i]), Len(s.cmds)))
           X10 == X9 \o Header("Cluster")
           X11 == X10 \o <<ClusterLine(s)>>
           X12 == X11 \o Header("Keyspace")
           X13 == X12 \o Each(LAMBDA i : KeyspaceField(s, s.dbs[i]), Len(s.dbs))
           C1 == {<<"role", 0>>}
           C2 == C1 \cup MasterPairs(Len(s.masters))
           C3 == C2 \cup (IF s.masters # <<>> THEN {<<"slave_read_only", 0>>} ELSE {})
           C4 == C3 \cup {<<"connected_slaves", 0>>}
           C5 == C4 \cup {<<"slave", o>> : o \in 1 .. Len(s.replicas)}
           C6 == C5 \cup {<<"cmdstat_", o>> : o \in 1 .. Len(s.cmds)}
           C7 == C6 \cup (IF s.kind \in Since62 THEN {<<"errorstat_", 0>>} ELSE {})
           C8 == C7 \cup (IF s.kind \in Since70 THEN {<<"latency_percentiles_usec_", o>> : o \in 1 .. Len(s.cmds)} ELSE {})
           C9 == C8 \cup {<<"cluster_enabled", 0>>}
           C10 == C9 \cup {<<"db", o>> : o \in 1 .. Len(s.dbs)}
<1>t. DataText(s) = X13 /\ DataPairs(s) = C10
  BY DEF DataText, DataPairs
<1>0. Sect(s, X0, 8, 8, "Replication", {})
  BY HeaderSect
<1> HIDE DEF X0
<1>1p. Part(s, <<RoleLine(s)>>, 9, 9, "Replication", {<<"role", 0>>})
  BY SingleLines
<1>1. Sect(s, X1, 8, 9, "Replication", C1)
  <2>1. Sect(s, X1, 8, 9, "Replication", {} \cup {<<"role", 0>>})
    BY <1>0, <1>1p, SectPart
  <2>2. {} \cup {<<"role", 0>>} = C1
    OBVIOUS
  <2>3. QED
    BY <2>1, <2>2
<1> HIDE DEF X1, C1
<1>2p. Part(s, FlattenSeq(MasterSeq(s)), 10, 10, "Replication", MasterPairs(Len(s.masters)))
  BY MasterPart
<1>2. Sect(s, X2, 8, 10, "Replication", C2)
  BY <1>1, <1>2p, SectPart
<1> HIDE DEF X2, C2
<1>3p. Part(s, If(s.masters # <<>>, <<ReadOnlyLine>>), 11, 11, "Replication", (IF s.masters # <<>> THEN {<<"slave_read_only", 0>>} ELSE {}))
  <2>1. CASE s.masters # <<>>
    BY <2>1, SingleLines DEF If
  <2>2. CASE ~(s.masters # <<>>)
    BY <2>2, NoPart DEF If
  <2>3. QED
    BY <2>1, <2>2
<1>3. Sect(s, X3, 8, 11, "Replication", C3)
  BY <1>2, <1>3p, SectPart
<1> HIDE DEF X3, C3
<1>4p. Part(s, <<SlavesLine(s)>>, 12, 12, "Replication", {<<"connected_slaves", 0>>})
  BY SingleLines
<1>4. Sect(s, X4, 8, 12, "Replication", C4)
  BY <1>3, <1>4p, SectPart
<1> HIDE DEF X4, C4
<1>5p. Part(s, Each(LAMBDA i : ReplicaField(s, s.replicas[i], Itoa(i - 1)), Len(s.replicas)), 13, 13, "Replication", {<<"slave", o>> : o \in 1 .. Len(s.replicas)})
  BY ManyLines
<1>5. Sect(s, X5, 8, 13, "Replication", C5)
  BY <1>4, <1>5p, SectPart
<1> HIDE DEF X5, C5
<1>6. Sect(s, X6, 8, 13, "Commandstats", C5)
  BY <1>5, SectHeader
<1> HIDE DEF X6, C5
<1>7p. Part(s, Each(LAMBDA i : CommandField(s, s.cmds[i]), Len(s.cmds)), 14, 14, "Commandstats", {<<"cmdstat_", o>> : o \in 1 .. Len(s.cmds)})
  BY ManyLines
<1>7. Sect(s, X7, 8, 14, "Commandstats", C6)
  BY <1>6, <1>7p, SectPart
<1> HIDE DEF X7, C6
<1>8a. \E g : Sect(s, X8, 8, 15, g, C7)
  <2>1. CASE s.kind \in Since62
    <3> DEFINE P == Header("Errorstats") \o <<ErrorLine>>
               D == {<<"errorstat_", 0>>}
    <3>1. Sect(s, Header("Errorstats"), 15, 15, "Errorstats", {})
      BY HeaderSect
    <3>2. Part(s, <<ErrorLine>>, 15, 15, "Errorstats", D)
      BY <2>1, SingleLines
    <3>3. Sect(s, P, 15, 15, "Errorstats", D)
      BY <3>1, <3>2, HeaderPart
    <3>4. C7 = C6 \cup D /\ X8 = X7 \o P
      BY <2>1 DEF If
    <3> HIDE DEF P, D
    <3>5. Sect(s, X7 \o P, 8, 15, "Errorstats", C6 \cup D)
      BY <1>7, <3>3, SectSect
    <3>6. QED
      BY <3>4, <3>5
  <2>2. CASE ~(s.kind \in Since62)
    <3> DEFINE P == <<>>
               D == {}
    <3>1. C7 = C6 \cup D /\ X8 = X7 \o P
      BY <2>2 DEF If
    <3>2. Part(s, P, 15, 15, "Commandstats", D)
      BY NoPart
    <3> HIDE DEF P, D
    <3>3. Sect(s, X7 \o P, 8, 15, "Commandstats", C6 \cup D)
      BY <1>7, <3>2, SectPart
    <3>4. QED
      BY <3>1, <3>3
  <2>3. QED
    BY <2>1, <2>2
<1> HIDE DEF X7, C6
<1>8. PICK g8 : Sect(s, X8, 8, 15, g8, C7)
  BY <1>8a
<1>9a. \E g : Sect(s, X9, 8, 16, g, C8)
  <2>1. CASE s.kind \in Since70
    <3> DEFINE P == Header("Latencystats") \o Each(LAMBDA i : PercentileField(s.cmds[i]), Len(s.cmds))
               D == {<<"latency_percentiles_usec_", o>> : o \in 1 .. Len(s.cmds)}
    <3>1. Sect(s, Header("Latencystats"), 16, 16, "Latencystats", {})
      BY HeaderSect
    <3>2. Part(s, Each(LAMBDA i : PercentileField(s.cmds[i]), Len(s.cmds)), 16, 16, "Latencystats", D)
      BY <2>1, ManyLines
    <3>3. Sect(s, P, 16, 16, "Latencystats", D)
      BY <3>1, <3>2, HeaderPart
    <3>4. C8 = C7 \cup D /\ X9 = X8 \o P
      BY <2>1 DEF If
    <3> HIDE DEF P, D
    <3>5. Sect(s, X8 \o P, 8, 16, "Latencystats", C7 \cup D)
      BY <1>8, <3>3, SectSect
    <3>6. QED
      BY <3>4, <3>5
  <2>2. CASE ~(s.kind \in Since70)
    <3> DEFINE P == <<>>
               D == {}
    <3>1. C8 = C7 \cup D /\ X9 = X8 \o P
      BY <2>2 DEF If
    <3>2. Part(s, P, 16, 16, g8, D)
      BY NoPart
    <3> HIDE DEF P, D
    <3>3. Sect(s, X8 \o P, 8, 16, g8, C7 \cup D)
      BY <1>8, <3>2, SectPart
    <3>4. QED
      BY <3>1, <3>3
  <2>3. QED
    BY <2>1, <2>2
<1> HIDE DEF X8, C7
<1>9. PICK g9 : Sect(s, X9, 8, 16, g9, C8)
  BY <1>9a
<1>10. Sect(s, X10, 8, 16, "Cluster", C8)
  BY <1>9, SectHeader
<1> HIDE DEF X10, C8
<1>11p. Part(s, <<ClusterLine(s)>>, 17, 17, "Cluster", {<<"cluster_enabled", 0>>})
  BY SingleLines
<1>11. Sect(s, X11, 8, 17, "Cluster", C9)
  BY <1>10, <1>11p, SectPart
<1> HIDE DEF X11, C9
<1>12. Sect(s, X12, 8, 17, "Keyspace", C9)
  BY <1>11, SectHeader
<1> HIDE DEF X12, C9
<1>13p. Part(s, Each(LAMBDA i : KeyspaceField(s, s.dbs[i]), Len(s.dbs)), 18, 18, "Keyspace", {<<"db", o>> : o \in 1 .. Len(s.dbs)})
  BY ManyLines
<1>13. Sect(s, X13, 8, 18, "Keyspace", C10)
  BY <1>12, <1>13p, SectPart
<1> HIDE DEF X13, C10
<1>q. QED
  BY <1>t, <1>13

InfoPairs(s) == FrontPairs(s) \cup (IF s.sentinel THEN WatchPairs(s) ELSE DataPairs(s))

\* INFO begins with Server and Stats, whatever the server is.
LEMMA InfoTextIs ==
    ASSUME NEW s
    PROVE  InfoText(s) = FrontText(s) \o (IF s.sentinel THEN WatchText(s) ELSE DataText(s))
<1>1. FrontText(s) =
          Header("Server") \o Line("redis_version", Txt("", s.kind))
          \o If(s.kind \in Valkey, Line("valkey_version", Txt("", s.kind)))
          \o If(s.kind = "valkey8", Line("valkey_release_stage", Txt("", "ga")))
          \o Line("uptime_in_seconds", Num("", 5)) \o Line("hz", Num("", 10))
          \o Header("Stats") \o Line("latest_fork_usec", Num("", 7))
  BY Zenon DEF FrontText, Line, VersionLine, ValkeyLine, StageLine, UptimeLine, HzLine, ForkLine
<1>2. WatchText(s) = Header("Sentinel") \o Line("sentinel_masters", Num("", 1)) \o <<MasterOfSentinel>>
  BY Zenon DEF WatchText, Line, SentinelsLine
<1>3. DataText(s) =
          Header("Replication")
             \o Line("role", Txt("", IF s.masters = <<>> THEN "master" ELSE "slave"))
             \o FlattenSeq([i \in DOMAIN s.masters |->
                               MasterFields(s.masters[i], IF i = 1 THEN "" ELSE Itoa(i - 1))])
             \o If(s.masters # <<>>, Line("slave_read_only", Txt("", "1")))
             \o Line("connected_slaves", Num("", Len(s.replicas)))
             \o Each(LAMBDA i : ReplicaField(s, s.replicas[i], Itoa(i - 1)), Len(s.replicas))
             \o Header("Commandstats")
             \o Each(LAMBDA i : CommandField(s, s.cmds[i]), Len(s.cmds))
             \o If(s.kind \in Since62,
                   Header("Errorstats") \o <<Field("errorstat_", "ERR", <<Num("count", 4)>>)>>)
             \o If(s.kind \in Since70,
                   Header("Latencystats")
                   \o Each(LAMBDA i : PercentileField(s.cmds[i]), Len(s.cmds)))
             \o Header("Cluster")
             \o Line("cluster_enabled", Num("", IF s.cluster THEN 1 ELSE 0))
             \o Header("Keyspace") \o Each(LAMBDA i : KeyspaceField(s, s.dbs[i]), Len(s.dbs))
  BY DEF DataText, Line, RoleLine, MasterSeq, ReadOnlyLine, SlavesLine, ErrorLine, ClusterLine
<1>4. QED
  BY <1>1, <1>2, <1>3 DEF InfoText

\* The lists among the facts are sequences.
LEMMA FactSeqs ==
    ASSUME NEW s \in Facts
    PROVE  IsSeq(s.masters) /\ IsSeq(s.replicas) /\ IsSeq(s.cmds) /\ IsSeq(s.dbs) /\ IsSeq(s.clients)
BY SeqIsSeq DEF Facts

\* INFO is a text about exactly the things the facts name, each once.
LEMMA InfoTextFacts ==
    ASSUME NEW s \in Facts
    PROVE  /\ \E O : IsText(s, InfoText(s), O) /\ Cover(InfoText(s), O) = InfoPairs(s)
           /\ Len(InfoText(s)) > 0 /\ InfoText(s)[1].k = "#"
<1>1. PICK g : Sect(s, FrontText(s), 0, 6, g, FrontPairs(s))
  BY FrontSect
<1>2. \E h : Sect(s, InfoText(s), 0, 18, h, InfoPairs(s))
  <2>1. CASE s.sentinel
    <3>1. PICK h : Sect(s, WatchText(s), 6, 8, h, WatchPairs(s))
      BY <2>1, WatchSect
    <3>2. Sect(s, WatchText(s), 7, 18, h, WatchPairs(s))
      <4>1. \A p \in WatchPairs(s) : Rank(p[1]) \in 7 .. 18
        BY DEF WatchPairs, Rank
      <4>2. QED
        BY <3>1, <4>1 DEF Sect, Ranked
    <3>3. Sect(s, FrontText(s) \o WatchText(s), 0, 18, h, FrontPairs(s) \cup WatchPairs(s))
      BY <1>1, <3>2, SectSect
    <3>4. QED
      BY <2>1, <3>3, InfoTextIs DEF InfoPairs
  <2>2. CASE ~s.sentinel
    <3>1. PICK h : Sect(s, DataText(s), 8, 18, h, DataPairs(s))
      BY <2>2, DataSect, FactSeqs
    <3>2. Sect(s, FrontText(s) \o DataText(s), 0, 18, h, FrontPairs(s) \cup DataPairs(s))
      BY <1>1, <3>1, SectSect
    <3>3. QED
      BY <2>2, <3>2, InfoTextIs DEF InfoPairs
  <2>3. QED
    BY <2>1, <2>2
<1>3. QED
  BY <1>2 DEF Sect

-----------------------------------------------------------------------------
(***************************************************************************)
(* The walk over the text.                                                 *)
(***************************************************************************)
Marks(s) == CHOOSE O : IsText(s, InfoText(s), O) /\ Cover(InfoText(s), O) = InfoPairs(s)

\* The names and marks of the first n lines.
Done(s, n) == {<<InfoText(s)[a].k, Marks(s)[a]>> : a \in {b \in 1 .. n : InfoText(s)[b].k # "#"}}

\* The marks chosen for INFO are such marks.
LEMMA MarksFacts ==
    ASSUME NEW s \in Facts
    PROVE  /\ IsText(s, InfoText(s), Marks(s)) /\ Done(s, Len(InfoText(s))) = InfoPairs(s)
           /\ IsSeq(InfoText(s)) /\ Len(InfoText(s)) \in Nat /\ Len(InfoText(s)) > 0 /\ InfoText(s)[1].k = "#"
           /\ Done(s, 0) = {}
<1>1. IsText(s, InfoText(s), Marks(s)) /\ Cover(InfoText(s), Marks(s)) = InfoPairs(s)
  BY InfoTextFacts, Zenon DEF Marks
<1>2. Len(InfoText(s)) > 0 /\ InfoText(s)[1].k = "#"
  BY InfoTextFacts
<1>3. IsSeq(InfoText(s)) /\ Len(InfoText(s)) \in Nat
  BY <1>1, SeqFacts DEF IsText
<1>4. Done(s, Len(InfoText(s))) = InfoPairs(s)
  BY <1>1 DEF Done, Cover
<1>5. Done(s, 0) = {}
  BY DEF Done
<1>6. QED
  BY <1>1, <1>2, <1>3, <1>4, <1>5

\* The next line of INFO: in the section of its kind, and about something new.
LEMMA NextLine ==
    ASSUME NEW s \in Facts, NEW n \in Nat, n < Len(InfoText(s))
    PROVE  LET f == InfoText(s)[n + 1]
               o == Marks(s)[n + 1]
           IN  /\ LineOk(s, f, o)
               /\ f.k # "#" => /\ n >= 1 /\ Class(InfoText(s)[n]) = Home(f.k)
                               /\ Done(s, n + 1) = Done(s, n) \cup {<<f.k, o>>} /\ <<f.k, o>> \notin Done(s, n)
               /\ f.k = "#" => Done(s, n + 1) = Done(s, n)
               /\ f.k \in MasterBlock \ {"master_host"} =>
                     n >= 1 /\ Marks(s)[n] = o /\ Continues(InfoText(s)[n], f)
<1> DEFINE T == InfoText(s)
           O == Marks(s)
           f == T[n + 1]
           o == O[n + 1]
<1>1. IsText(s, T, O) /\ Len(T) \in Nat /\ T[1].k = "#"
  BY MarksFacts
<1>2. Done(s, n) = {<<T[a].k, O[a]>> : a \in {b \in 1 .. n : T[b].k # "#"}}
      /\ Done(s, n + 1) = {<<T[a].k, O[a]>> : a \in {b \in 1 .. n + 1 : T[b].k # "#"}}
  BY DEF Done
<1> HIDE DEF T, O
<1>3. n + 1 \in 1 .. Len(T) /\ 1 .. n + 1 = (1 .. n) \cup {n + 1} /\ \A a \in 1 .. n : a \in 1 .. Len(T) /\ a < n + 1
  BY <1>1 DEF T
<1>4. LineOk(s, f, o)
  BY <1>1, <1>3 DEF IsText
<1>5. ASSUME f.k # "#"
      PROVE  /\ n >= 1 /\ Class(T[n]) = Home(f.k)
             /\ Done(s, n + 1) = Done(s, n) \cup {<<f.k, o>>} /\ <<f.k, o>> \notin Done(s, n)
  <2>1. n >= 1
    BY <1>1, <1>5
  <2>2. n \in 1 .. Len(T) - 1
    BY <1>1, <2>1 DEF T
  <2>3. Class(T[n]) = Home(f.k)
    BY <1>1, <1>5, <2>2 DEF IsText, Follows, Class
  <2>4. Done(s, n + 1) = Done(s, n) \cup {<<f.k, o>>}
    BY <1>2, <1>3, <1>5
  <2>5. ASSUME <<f.k, o>> \in Done(s, n) PROVE FALSE
    <3>1. PICK a \in 1 .. n : T[a].k # "#" /\ <<T[a].k, O[a]>> = <<f.k, o>>
      BY <1>2, <2>5
    <3>2. QED
      BY <1>1, <1>3, <1>5, <3>1 DEF IsText
  <2>6. QED
    BY <2>1, <2>3, <2>4, <2>5
<1>6. f.k = "#" => Done(s, n + 1) = Done(s, n)
  BY <1>2, <1>3
<1>7. ASSUME f.k \in MasterBlock \ {"master_host"}
      PROVE  n >= 1 /\ O[n] = o /\ Continues(T[n], f)
  <2>1. n + 1 > 1 /\ O[(n + 1) - 1] = O[n + 1] /\ Continues(T[(n + 1) - 1], T[n + 1])
    BY <1>1, <1>3, <1>7 DEF IsText
  <2>2. (n + 1) - 1 = n
    OBVIOUS
  <2>3. QED
    BY <2>1, <2>2
<1>8. QED
  BY <1>4, <1>5, <1>6, <1>7 DEF T, O

\* The sections whose lines leave nothing behind.
Silent == {"Commandstats", "Latencystats", "Errorstats", "Keyspace", "Sentinel"}

\* The walk's state after a line.
Walked(p, f) ==
    [cls |-> IF f.k = "#" THEN f.i ELSE p.cls,
     host |-> IF f.k = "master_host" /\ p.cls \notin Silent THEN f.v[1].s ELSE p.host,
     port |-> IF f.k = "master_port" /\ p.cls \notin Silent THEN f.v[1].s ELSE p.port,
     kv |-> IF f.i = "" /\ f.k \in InfoFields /\ p.cls \notin Silent THEN With(p.kv, f.k, f.v[1].s) ELSE p.kv,
     stats |-> IF f.k # "#" /\ p.cls = "Commandstats" THEN With(p.stats, f.i, StatsRead(f)) ELSE p.stats,
     lat |-> IF f.k # "#" /\ p.cls = "Latencystats" /\ PercentilesParse(f)
             THEN With(p.lat, f.i, {extractPercentileVal(f.v[i]) : i \in DOMAIN f.v}) ELSE p.lat,
     handled |-> IF f.k # "#" /\ p.cls = "Keyspace" /\ parseDBKeyspaceString(f) THEN p.handled \cup {f.i}
                 ELSE p.handled]

IsParse(p) ==
    p = [cls |-> p.cls, host |-> p.host, port |-> p.port, kv |-> p.kv, stats |-> p.stats, lat |-> p.lat,
         handled |-> p.handled]

\* The ten labels as a set.
LEMMA BaseLabelSet ==
    ToSet(BaseLabels) = {"role", "redis_version", "redis_build_id", "redis_mode", "os", "maxmemory_policy",
                         "tcp_port", "run_id", "process_id", "master_replid"}
<1> DEFINE B == {"role", "redis_version", "redis_build_id", "redis_mode", "os", "maxmemory_policy",
                 "tcp_port", "run_id", "process_id", "master_replid"}
<1>1. DOMAIN BaseLabels = 1 .. 10
  BY BaseLabelFacts
<1>2. /\ BaseLabels[1] = "role" /\ BaseLabels[2] = "redis_version" /\ BaseLabels[3] = "redis_build_id"
      /\ BaseLabels[4] = "redis_mode" /\ BaseLabels[5] = "os" /\ BaseLabels[6] = "maxmemory_policy"
      /\ BaseLabels[7] = "tcp_port" /\ BaseLabels[8] = "run_id" /\ BaseLabels[9] = "process_id"
      /\ BaseLabels[10] = "master_replid"
  BY DEF BaseLabels
<1>3. \A i \in 1 .. 10 : i \in {1, 2, 3, 4, 5, 6, 7, 8, 9, 10}
  OBVIOUS
<1>4. ToSet(BaseLabels) \subseteq B
  BY <1>1, <1>2, <1>3 DEF ToSet
<1>5. \A i \in {1, 2, 3, 4, 5, 6, 7, 8, 9, 10} : BaseLabels[i] \in ToSet(BaseLabels)
  BY <1>1 DEF ToSet
<1>6. B \subseteq ToSet(BaseLabels)
  BY <1>2, <1>5
<1>7. QED
  BY <1>4, <1>6

\* Every line of INFO leaves behind what Walked says (info.go 80-157).
LEMMA WalkedIs ==
    ASSUME IsParse(parse), InfoLine
    PROVE  /\ parse' = Walked(parse, Head(todo)) /\ todo # <<>> /\ todo' = Tail(todo) /\ section = "info"
           /\ UNCHANGED <<section, dbCount>>
<1> DEFINE f == Head(todo)
<1>0. "#" \notin InfoFields
  <2>1. ToSet(BaseLabels) = {"role", "redis_version", "redis_build_id", "redis_mode", "os", "maxmemory_policy",
                             "tcp_port", "run_id", "process_id", "master_replid"}
    BY BaseLabelSet
  <2>2. QED
    BY <2>1 DEF InfoFields
<1>s. ASSUME parse.cls \notin Silent, f.k # "#" PROVE Seen(parse, f) = Walked(parse, f)
  <2> DEFINE kv == IF f.i = "" /\ f.k \in InfoFields THEN With(parse.kv, f.k, f.v[1].s) ELSE parse.kv
             host == IF f.k = "master_host" THEN f.v[1].s ELSE parse.host
             port == IF f.k = "master_port" THEN f.v[1].s ELSE parse.port
  <2>1. Seen(parse, f) = [parse EXCEPT !.kv = kv, !.host = host, !.port = port]
    BY DEF Seen
  <2>2. Walked(parse, f) = [cls |-> parse.cls, host |-> host, port |-> port, kv |-> kv, stats |-> parse.stats,
                            lat |-> parse.lat, handled |-> parse.handled]
    BY <1>s DEF Walked, Silent
  <2> HIDE DEF kv, host, port
  <2>3. QED
    BY <2>1, <2>2 DEF IsParse
<1>1. CASE HeaderLine
  <2>1. parse' = [parse EXCEPT !.cls = f.i] /\ f.k = "#"
    BY <1>1 DEF HeaderLine
  <2>2. Walked(parse, f) = [cls |-> f.i, host |-> parse.host, port |-> parse.port, kv |-> parse.kv,
                            stats |-> parse.stats, lat |-> parse.lat, handled |-> parse.handled]
    BY <1>0, <2>1 DEF Walked
  <2>3. parse' = Walked(parse, f)
    BY <2>1, <2>2 DEF IsParse
  <2>4. QED
    BY <1>1, <2>3 DEF HeaderLine, AtLine, Walk
<1>2. CASE ReplicationLine
  BY <1>2, <1>s DEF ReplicationLine, InClass, AtLine, Walk, Silent
<1>3. CASE ServerLine
  BY <1>3, <1>s DEF ServerLine, InClass, AtLine, Walk, Silent
<1>4. CASE CommandstatsLine
  <2>1. parse' = [parse EXCEPT !.stats = With(parse.stats, f.i, StatsRead(f))] /\ f.k # "#" /\ parse.cls = "Commandstats"
    BY <1>4 DEF CommandstatsLine, InClass
  <2>2. Walked(parse, f) = [cls |-> parse.cls, host |-> parse.host, port |-> parse.port, kv |-> parse.kv,
                            stats |-> With(parse.stats, f.i, StatsRead(f)), lat |-> parse.lat, handled |-> parse.handled]
    BY <2>1 DEF Walked, Silent
  <2>3. parse' = Walked(parse, f)
    BY <2>1, <2>2 DEF IsParse
  <2>4. QED
    BY <1>4, <2>3 DEF CommandstatsLine, InClass, AtLine, Walk
<1>5. CASE LatencystatsLine
  <2> DEFINE x == {extractPercentileVal(f.v[i]) : i \in DOMAIN f.v}
  <2>1. /\ f.k # "#" /\ parse.cls = "Latencystats"
        /\ parse' = IF PercentilesParse(f) THEN [parse EXCEPT !.lat = With(parse.lat, f.i, x)] ELSE parse
    BY <1>5 DEF LatencystatsLine, InClass
  <2>2. Walked(parse, f) = [cls |-> parse.cls, host |-> parse.host, port |-> parse.port, kv |-> parse.kv,
                            stats |-> parse.stats,
                            lat |-> IF PercentilesParse(f) THEN With(parse.lat, f.i, x) ELSE parse.lat,
                            handled |-> parse.handled]
    BY <2>1 DEF Walked, Silent
  <2> HIDE DEF x
  <2>3. parse' = Walked(parse, f)
    BY <2>1, <2>2 DEF IsParse
  <2>4. QED
    BY <1>5, <2>3 DEF LatencystatsLine, InClass, AtLine, Walk
<1>6. CASE ErrorstatsLine
  <2>1. parse' = parse /\ f.k # "#" /\ parse.cls = "Errorstats"
    BY <1>6 DEF ErrorstatsLine, InClass
  <2>2. parse' = Walked(parse, f)
    BY <2>1 DEF Walked, Silent, IsParse
  <2>3. QED
    BY <1>6, <2>2 DEF ErrorstatsLine, InClass, AtLine, Walk
<1>7. CASE KeyspaceLine
  <2>1. /\ f.k # "#" /\ parse.cls = "Keyspace"
        /\ parse' = IF parseDBKeyspaceString(f) THEN [parse EXCEPT !.handled = parse.handled \cup {f.i}] ELSE parse
    BY <1>7 DEF KeyspaceLine, InClass
  <2>2. Walked(parse, f) = [cls |-> parse.cls, host |-> parse.host, port |-> parse.port, kv |-> parse.kv,
                            stats |-> parse.stats, lat |-> parse.lat,
                            handled |-> IF parseDBKeyspaceString(f) THEN parse.handled \cup {f.i} ELSE parse.handled]
    BY <2>1 DEF Walked, Silent
  <2>3. parse' = Walked(parse, f)
    BY <2>1, <2>2 DEF IsParse
  <2>4. QED
    BY <1>7, <2>3 DEF KeyspaceLine, InClass, AtLine, Walk
<1>8. CASE SentinelLine
  <2>1. parse' = parse /\ f.k # "#" /\ parse.cls = "Sentinel"
    BY <1>8 DEF SentinelLine, InClass
  <2>2. parse' = Walked(parse, f)
    BY <2>1 DEF Walked, Silent, IsParse
  <2>3. QED
    BY <1>8, <2>2 DEF SentinelLine, InClass, AtLine, Walk
<1>9. CASE OtherLine
  BY <1>9, <1>s DEF OtherLine, AtLine, Walk, Silent
<1>10. QED
  BY <1>1, <1>2, <1>3, <1>4, <1>5, <1>6, <1>7, <1>8, <1>9 DEF InfoLine

\* Concatenation and what it does behind names, which the provers handle better.
IsCat(y, s, t) ==
    /\ IsSeq(y) /\ Len(y) = Len(s) + Len(t) /\ Len(s) \in Nat /\ Len(t) \in Nat
    /\ \A i \in 1 .. Len(s) : y[i] = s[i]
    /\ \A i \in 1 .. Len(t) : y[Len(s) + i] = t[i]
    /\ ToSet(y) = ToSet(s) \cup ToSet(t)
IsAdd(y, s, x) ==
    /\ IsSeq(y) /\ Len(y) = Len(s) + 1 /\ y[Len(s) + 1] = x /\ Len(s) \in Nat
    /\ \A i \in 1 .. Len(s) : y[i] = s[i]

\* A concatenation as a relation.
LEMMA CatFacts ==
    ASSUME NEW s, IsSeq(s), NEW t, IsSeq(t)
    PROVE  IsCat(s \o t, s, t)
<1>1. IsSeq(s \o t) /\ Len(s \o t) = Len(s) + Len(t)
  BY ConcatFacts
<1>2. \A i \in 1 .. Len(s) : (s \o t)[i] = s[i]
  BY ConcatFacts
<1>3. \A i \in 1 .. Len(t) : (s \o t)[Len(s) + i] = t[i]
  BY ConcatFacts
<1>4. ToSet(s \o t) = ToSet(s) \cup ToSet(t)
  BY ConcatFacts
<1>5. Len(s) \in Nat /\ Len(t) \in Nat
  BY SeqFacts
<1>6. QED
  BY <1>1, <1>2, <1>3, <1>4, <1>5, Zenon DEF IsCat

\* One more element as a relation.
LEMMA AddOne ==
    ASSUME NEW v, IsSeq(v), NEW x
    PROVE  IsAdd(v \o <<x>>, v, x)
<1> DEFINE t == <<x>>
           y == v \o t
<1>1. IsSeq(t) /\ Len(t) = 1 /\ t[1] = x
  BY ShortSeqs
<1> HIDE DEF t
<1>2. IsCat(y, v, t)
  BY <1>1, CatFacts
<1> HIDE DEF y
<1>3. IsAdd(y, v, x)
  BY <1>1, <1>2 DEF IsCat, IsAdd
<1>4. QED
  BY <1>3 DEF y, t

\* No more elements.
LEMMA AddNone ==
    ASSUME NEW v, IsSeq(v)
    PROVE  v \o <<>> = v
<1> DEFINE t == <<>>
           y == v \o t
<1>1. IsSeq(t) /\ Len(t) = 0
  BY ShortSeqs
<1> HIDE DEF t
<1>2. IsCat(y, v, t)
  BY <1>1, CatFacts
<1> HIDE DEF y
<1>3. y = v
  BY <1>1, <1>2, SameSeq DEF IsCat
<1>4. QED
  BY <1>3 DEF y, t

\* The pieces of a command's statistics.
LEMMA CommandPartsFacts ==
    ASSUME NEW s, NEW c
    PROVE  LET v == CommandParts(s, c)
           IN  /\ IsSeq(v) /\ v[1] = Num("calls", c.calls) /\ v[2] = Num("usec", c.usec)
               /\ Len(v) = IF c.cmd \in s.brief THEN 2 ELSE IF s.kind \in Since62 THEN 5 ELSE 3
               /\ c.cmd \notin s.brief /\ s.kind \in Since62 =>
                     v[4] = Num("rejected_calls", c.rejected) /\ v[5] = Num("failed_calls", 1)
<1> DEFINE a == Num("calls", c.calls)
           b == Num("usec", c.usec)
           d == Num("usec_per_call", c.usec \div c.calls)
           e == Num("rejected_calls", c.rejected)
           f == Num("failed_calls", 1)
           v == CommandParts(s, c)
           x == <<a, b>>
<1>1. v = x \o If(c.cmd \notin s.brief, <<d>> \o If(s.kind \in Since62, <<e, f>>))
  BY DEF CommandParts
<1> HIDE DEF a, b, d, e, f, v
<1>2. IsSeq(x) /\ Len(x) = 2 /\ x[1] = a /\ x[2] = b
  BY ShortSeqs
<1> HIDE DEF x
<1>3. CASE c.cmd \in s.brief
  <2>1. v = x
    BY <1>1, <1>2, <1>3, AddNone DEF If
  <2>2. QED
    BY <1>2, <1>3, <2>1 DEF v, a, b
<1>4. CASE c.cmd \notin s.brief /\ s.kind \notin Since62
  <2> DEFINE t == <<d>>
  <2>0. IsSeq(t)
    BY ShortSeqs
  <2>1. v = x \o (t \o <<>>)
    BY <1>1, <1>4 DEF If
  <2> HIDE DEF t
  <2>2. v = x \o <<d>>
    BY <2>0, <2>1, AddNone DEF t
  <2>5. IsAdd(v, x, d)
    BY <1>2, <2>2, AddOne
  <2>3. IsSeq(v) /\ Len(v) = 3 /\ v[1] = x[1] /\ v[2] = x[2]
    BY <1>2, <2>5 DEF IsAdd
  <2>4. QED
    BY <1>2, <1>4, <2>3 DEF v, a, b
<1>5. CASE c.cmd \notin s.brief /\ s.kind \in Since62
  <2> DEFINE p == <<d>>
             q == <<e, f>>
             t == p \o q
  <2>0. IsSeq(p) /\ Len(p) = 1 /\ IsSeq(q) /\ Len(q) = 2 /\ q[1] = e /\ q[2] = f
    BY ShortSeqs
  <2>1. v = x \o t
    BY <1>1, <1>5 DEF If
  <2> HIDE DEF p, q
  <2>2. IsCat(t, p, q)
    BY <2>0, CatFacts
  <2> HIDE DEF t
  <2>3. IsSeq(t) /\ Len(t) = 3 /\ t[2] = e /\ t[3] = f
    BY <2>0, <2>2 DEF IsCat
  <2>4. IsCat(v, x, t)
    BY <1>2, <2>1, <2>3, CatFacts
  <2>5. Len(v) = 5 /\ v[1] = a /\ v[2] = b /\ v[4] = e /\ v[5] = f
    <3>1. v[2 + 2] = t[2] /\ v[2 + 3] = t[3]
      BY <1>2, <2>3, <2>4 DEF IsCat
    <3>2. QED
      BY <1>2, <2>3, <2>4, <3>1 DEF IsCat
  <2>6. QED
    BY <1>5, <2>4, <2>5 DEF IsCat, v, a, b, e, f
<1>6. QED
  BY <1>3, <1>4, <1>5

\* The kinds of servers that know each feature.
LEMMA KindFacts ==
    /\ Since28 = {"redis5.0", "redis6.2", "redis7.0", "redis7.4", "keydb", "valkey7", "valkey8", "later"}
    /\ Since62 = {"redis6.2", "redis7.0", "redis7.4", "keydb", "valkey7", "valkey8", "later"}
    /\ Since70 = {"redis7.0", "redis7.4", "valkey7", "valkey8", "later"}
    /\ Since74 = {"redis7.4", "valkey8", "later"}
BY DEF Since28, Since62, Since70, Since74, Kinds

\* The pieces of a database's line, by the kind of the server.
LEMMA KeyspacePartsFacts ==
    ASSUME NEW s, s.kind \in Kinds, NEW d
    PROVE  LET v == KeyspaceParts(s, d)
           IN  /\ IsSeq(v) /\ v[1] = Num("keys", d.keys) /\ v[2] = Num("expires", d.expires)
               /\ s.kind = "redis2.4" => Len(v) = 2
               /\ s.kind \in Since28 => v[3] = Num("avg_ttl", d.ttl) /\ Len(v) >= 3
               /\ s.kind \in Since28 \ (Since74 \cup {"keydb"}) => Len(v) = 3
               /\ s.kind = "keydb" => Len(v) = 4 /\ v[4] = Num("cached_keys", d.other)
               /\ s.kind \in Since74 \ {"later"} => Len(v) = 4 /\ v[4] = Num("subexpiry", d.other)
               /\ s.kind = "later" => Len(v) = 5
<1> DEFINE a == Num("keys", d.keys)
           b == Num("expires", d.expires)
           x1 == Num("avg_ttl", d.ttl)
           x2 == Num("cached_keys", d.other)
           x3 == Num("subexpiry", d.other)
           x4 == Num("more", 0)
           v0 == <<a, b>>
           v1 == v0 \o If(s.kind \in Since28, <<x1>>)
           v2 == v1 \o If(s.kind = "keydb", <<x2>>)
           v3 == v2 \o If(s.kind \in Since74, <<x3>>)
           v4 == v3 \o If(s.kind = "later", <<x4>>)
<1>0. KeyspaceParts(s, d) = v4
  BY DEF KeyspaceParts
<1> HIDE DEF a, b, x1, x2, x3, x4
<1>1. IsSeq(v0) /\ Len(v0) = 2 /\ v0[1] = a /\ v0[2] = b
  BY ShortSeqs
<1> HIDE DEF v0
<1>2. /\ IsSeq(v1) /\ v1[1] = a /\ v1[2] = b
      /\ s.kind \in Since28 => Len(v1) = 3 /\ v1[3] = x1
      /\ s.kind \notin Since28 => Len(v1) = 2
  <2>1. CASE s.kind \in Since28
    <3>1. IsAdd(v1, v0, x1)
      BY <1>1, <2>1, AddOne DEF If
    <3> HIDE DEF v1
    <3>2. QED
      BY <1>1, <2>1, <3>1 DEF IsAdd
  <2>2. CASE s.kind \notin Since28
    <3>1. v1 = v0
      BY <1>1, <2>2, AddNone DEF If
    <3> HIDE DEF v1
    <3>2. QED
      BY <1>1, <2>2, <3>1
  <2>3. QED
    BY <2>1, <2>2
<1> HIDE DEF v1
<1>3. /\ IsSeq(v2) /\ v2[1] = a /\ v2[2] = b
      /\ s.kind \in Since28 => v2[3] = x1
      /\ s.kind # "keydb" => Len(v2) = Len(v1)
      /\ s.kind = "keydb" => Len(v2) = 4 /\ v2[4] = x2
  <2>1. CASE s.kind = "keydb"
    <3>1. IsAdd(v2, v1, x2)
      BY <1>2, <2>1, AddOne DEF If
    <3>2. Len(v1) = 3
      BY <1>2, <2>1, KindFacts
    <3> HIDE DEF v2
    <3>3. QED
      BY <1>2, <2>1, <3>1, <3>2 DEF IsAdd
  <2>2. CASE s.kind # "keydb"
    <3>1. v2 = v1
      BY <1>2, <2>2, AddNone DEF If
    <3> HIDE DEF v2
    <3>2. QED
      BY <1>2, <2>2, <3>1
  <2>3. QED
    BY <2>1, <2>2
<1> HIDE DEF v2
<1>4. /\ IsSeq(v3) /\ v3[1] = a /\ v3[2] = b
      /\ s.kind \in Since28 => v3[3] = x1
      /\ s.kind = "keydb" => Len(v3) = 4 /\ v3[4] = x2
      /\ s.kind \notin Since74 => Len(v3) = Len(v2)
      /\ s.kind \in Since74 => Len(v3) = 4 /\ v3[4] = x3
  <2>1. CASE s.kind \in Since74
    <3>1. IsAdd(v3, v2, x3)
      BY <1>3, <2>1, AddOne DEF If
    <3>2. Len(v2) = 3 /\ s.kind # "keydb" /\ s.kind \in Since28
      BY <1>2, <1>3, <2>1, KindFacts
    <3> HIDE DEF v3
    <3>3. QED
      BY <1>3, <2>1, <3>1, <3>2 DEF IsAdd
  <2>2. CASE s.kind \notin Since74
    <3>1. v3 = v2
      BY <1>3, <2>2, AddNone DEF If
    <3> HIDE DEF v3
    <3>2. QED
      BY <1>3, <2>2, <3>1
  <2>3. QED
    BY <2>1, <2>2
<1> HIDE DEF v3
<1>5. /\ IsSeq(v4) /\ v4[1] = a /\ v4[2] = b
      /\ s.kind \in Since28 => v4[3] = x1
      /\ s.kind # "later" => v4 = v3
      /\ s.kind = "later" => Len(v4) = 5
  <2>1. CASE s.kind = "later"
    <3>1. IsAdd(v4, v3, x4)
      BY <1>4, <2>1, AddOne DEF If
    <3>2. Len(v3) = 4 /\ s.kind \in Since28
      BY <1>4, <2>1, KindFacts
    <3> HIDE DEF v4
    <3>3. QED
      BY <1>4, <2>1, <3>1, <3>2 DEF IsAdd
  <2>2. CASE s.kind # "later"
    <3>1. v4 = v3
      BY <1>4, <2>2, AddNone DEF If
    <3> HIDE DEF v4
    <3>2. QED
      BY <1>4, <2>2, <3>1
  <2>3. QED
    BY <2>1, <2>2
<1> HIDE DEF v4
<1>6. s.kind = "redis2.4" => Len(v4) = 2
  BY <1>2, <1>3, <1>4, <1>5, KindFacts
<1>7. s.kind \in Since28 => Len(v4) >= 3
  <2>1. CASE s.kind \in Since74
    BY <2>1, <1>4, <1>5
  <2>2. CASE s.kind = "keydb"
    BY <2>2, <1>4, <1>5
  <2>3. CASE s.kind \in Since28 /\ s.kind \notin Since74 /\ s.kind # "keydb"
    BY <2>3, <1>2, <1>3, <1>4, <1>5, KindFacts
  <2>4. QED
    BY <2>1, <2>2, <2>3
<1>8. s.kind \in Since28 \ (Since74 \cup {"keydb"}) => Len(v4) = 3
  BY <1>2, <1>3, <1>4, <1>5, KindFacts
<1>9. s.kind = "keydb" => Len(v4) = 4 /\ v4[4] = x2
  BY <1>4, <1>5
<1>10. s.kind \in Since74 \ {"later"} => Len(v4) = 4 /\ v4[4] = x3
  BY <1>4, <1>5
<1>11. QED
  BY <1>0, <1>5, <1>6, <1>7, <1>8, <1>9, <1>10 DEF a, b, x1, x2, x3

\* A name that occurs once in a value is found at its place.
LEMMA GetFacts ==
    ASSUME NEW v, NEW n, NEW i \in DOMAIN v, v[i].n = n, \A j \in DOMAIN v : v[j].n = n => j = i, i \in Int
    PROVE  Has(v, n) /\ Get(v, n) = v[i]
<1>1. (CHOOSE k \in DOMAIN v : v[k].n = n /\ \A j \in DOMAIN v : v[j].n = n => j <= k) = i
  OBVIOUS
<1>2. QED
  BY <1>1 DEF Has, Get

\* The pieces of a replica's line.
LEMMA ReplicaPartsFacts ==
    ASSUME NEW s, NEW r
    PROVE  LET v == ReplicaParts(s, r)
           IN  /\ IsSeq(v) /\ v[1] = Txt("ip", r.ip) /\ v[2] = Txt("port", r.port)
               /\ v[3] = Txt("state", r.state) /\ v[4] = Num("offset", r.offset)
               /\ Len(v) = IF s.kind \in Since28 THEN 5 ELSE 4
               /\ s.kind \in Since28 => v[5] = Num("lag", r.lag)
<1> DEFINE a == Txt("ip", r.ip)
           b == Txt("port", r.port)
           c == Txt("state", r.state)
           d == Num("offset", r.offset)
           x == Num("lag", r.lag)
           q == <<a, b, c, d>>
           v == ReplicaParts(s, r)
<1> HIDE DEF a, b, c, d, x
<1>1. IsSeq(q) /\ Len(q) = 4 /\ q[1] = a /\ q[2] = b /\ q[3] = c /\ q[4] = d
  BY ShortSeqs
<1>2. v = IF s.kind \in Since28 THEN q \o <<x>> ELSE q \o <<>>
  BY DEF ReplicaParts, a, b, c, d, x, If
<1> HIDE DEF q
<1>3. IsAdd(q \o <<x>>, q, x) /\ q \o <<>> = q
  BY <1>1, AddOne, AddNone
<1> DEFINE y == q \o <<x>>
<1>3a. IsAdd(y, q, x) /\ v = IF s.kind \in Since28 THEN y ELSE q
  BY <1>2, <1>3
<1> HIDE DEF y, v
<1>4. IsSeq(v) /\ v[1] = a /\ v[2] = b /\ v[3] = c /\ v[4] = d
           /\ Len(v) = (IF s.kind \in Since28 THEN 5 ELSE 4) /\ (s.kind \in Since28 => v[5] = x)
  <2>1. CASE s.kind \in Since28
    <3>1. v = y
      BY <2>1, <1>3a
    <3>2. Len(y) = 5 /\ y[5] = x /\ IsSeq(y)
      BY <1>1, <1>3a DEF IsAdd
    <3>3. y[1] = a /\ y[2] = b /\ y[3] = c /\ y[4] = d
      <4>1. \A i \in 1 .. 4 : y[i] = q[i]
        BY <1>1, <1>3a DEF IsAdd
      <4>2. QED
        BY <1>1, <4>1
    <3>4. QED
      BY <2>1, <3>1, <3>2, <3>3
  <2>2. CASE s.kind \notin Since28
    BY <1>1, <1>3a, <2>2
  <2>3. QED
    BY <2>1, <2>2
<1>5. QED
  BY <1>4 DEF v, a, b, c, d, x

\* What a replica's line says of it.
ReplicaSet(s, r) ==
    LET who == <<r.ip, r.port, r.state>>
    IN  {Metric("connected_slave_offset_bytes", Whole(r.offset), who)}
        \cup (IF s.kind \in Since28 THEN {Metric("connected_slave_lag_seconds", Whole(r.lag), who)} ELSE {})

\* A replica's line is read and gives that replica's metrics (info.go 353-369).
LEMMA ReplicaLineFacts ==
    ASSUME NEW s, NEW r, r.lag \in Nat, NEW f, f.k = "slave", f.v = ReplicaParts(s, r)
    PROVE  parseConnectedSlaveString(f) /\ ToSet(replicaMetrics(f.v)) = ReplicaSet(s, r)
<1> DEFINE v == ReplicaParts(s, r)
<1>1. /\ IsSeq(v) /\ v[1] = Txt("ip", r.ip) /\ v[2] = Txt("port", r.port)
      /\ v[3] = Txt("state", r.state) /\ v[4] = Num("offset", r.offset)
      /\ Len(v) = (IF s.kind \in Since28 THEN 5 ELSE 4)
      /\ s.kind \in Since28 => v[5] = Num("lag", r.lag)
  BY ReplicaPartsFacts
<1> HIDE DEF v
<1>2. DOMAIN v = 1 .. Len(v)
  BY <1>1, SeqFacts
<1>3. /\ v[1].n = "ip" /\ v[1].s = r.ip /\ v[2].n = "port" /\ v[2].s = r.port
      /\ v[3].n = "state" /\ v[3].s = r.state /\ v[4].n = "offset" /\ v[4].s = "" /\ v[4].x = r.offset
      /\ s.kind \in Since28 => v[5].n = "lag" /\ v[5].s = "" /\ v[5].x = r.lag
  <2> DEFINE a == Txt("ip", r.ip)
             b == Txt("port", r.port)
             c == Txt("state", r.state)
             d == Num("offset", r.offset)
             x == Num("lag", r.lag)
  <2>0. /\ a.n = "ip" /\ a.s = r.ip /\ b.n = "port" /\ b.s = r.port /\ c.n = "state" /\ c.s = r.state
        /\ d.n = "offset" /\ d.s = "" /\ d.x = r.offset /\ x.n = "lag" /\ x.s = "" /\ x.x = r.lag
    BY DEF Txt, Num
  <2>a. v[1] = a /\ v[2] = b /\ v[3] = c /\ v[4] = d /\ (s.kind \in Since28 => v[5] = x)
    BY <1>1
  <2> HIDE DEF a, b, c, d, x
  <2>1. v[1].n = "ip" /\ v[1].s = r.ip
    BY <2>0, <2>a
  <2>2. v[2].n = "port" /\ v[2].s = r.port
    BY <2>0, <2>a
  <2>3. v[3].n = "state" /\ v[3].s = r.state
    BY <2>0, <2>a
  <2>4. v[4].n = "offset" /\ v[4].s = "" /\ v[4].x = r.offset
    BY <2>0, <2>a
  <2>5. s.kind \in Since28 => v[5].n = "lag" /\ v[5].s = "" /\ v[5].x = r.lag
    BY <2>0, <2>a
  <2>6. QED
    BY <2>1, <2>2, <2>3, <2>4, <2>5
<1>4. \A j \in DOMAIN v : j = 1 \/ j = 2 \/ j = 3 \/ j = 4 \/ (j = 5 /\ s.kind \in Since28)
  BY <1>1, <1>2
<1>5. 1 \in DOMAIN v /\ 2 \in DOMAIN v /\ 3 \in DOMAIN v /\ 4 \in DOMAIN v /\ (s.kind \in Since28 => 5 \in DOMAIN v)
  BY <1>1, <1>2
<1>6. Has(v, "ip") /\ Get(v, "ip") = v[1]
  <2>1. v[1].n = "ip" /\ 1 \in DOMAIN v /\ \A j \in DOMAIN v : v[j].n = "ip" => j = 1
    BY <1>3, <1>4, <1>5
  <2>2. QED
    BY <2>1, GetFacts
<1>7. Has(v, "port") /\ Get(v, "port") = v[2]
  <2>1. v[2].n = "port" /\ 2 \in DOMAIN v /\ \A j \in DOMAIN v : v[j].n = "port" => j = 2
    BY <1>3, <1>4, <1>5
  <2>2. QED
    BY <2>1, GetFacts
<1>8. Has(v, "state") /\ Get(v, "state") = v[3]
  <2>1. v[3].n = "state" /\ 3 \in DOMAIN v /\ \A j \in DOMAIN v : v[j].n = "state" => j = 3
    BY <1>3, <1>4, <1>5
  <2>2. QED
    BY <2>1, GetFacts
<1>9. Has(v, "offset") /\ Get(v, "offset") = v[4]
  <2>1. v[4].n = "offset" /\ 4 \in DOMAIN v /\ \A j \in DOMAIN v : v[j].n = "offset" => j = 4
    BY <1>3, <1>4, <1>5
  <2>2. QED
    BY <2>1, GetFacts
<1>10. s.kind \in Since28 => Has(v, "lag") /\ Get(v, "lag") = v[5]
  <2>1. s.kind \in Since28 =>
            v[5].n = "lag" /\ 5 \in DOMAIN v /\ \A j \in DOMAIN v : v[j].n = "lag" => j = 5
    BY <1>3, <1>4, <1>5
  <2>2. QED
    BY <2>1, GetFacts
<1>11. s.kind \notin Since28 => ~Has(v, "lag")
  BY <1>3, <1>4 DEF Has
<1>12. \A i \in DOMAIN v : v[i].n # ""
  BY <1>3, <1>4
<1>13. f.v = v
  BY DEF v
<1>14. parseConnectedSlaveString(f)
  BY <1>3, <1>9, <1>10, <1>11, <1>12, <1>13 DEF parseConnectedSlaveString, HasNumber
<1>15. Has(v, "lag") /\ Get(v, "lag").x > -1 <=> s.kind \in Since28
  <2>1. s.kind \in Since28 => Has(v, "lag") /\ Get(v, "lag").x = r.lag
    BY <1>3, <1>10
  <2>2. QED
    BY <2>1, <1>11
<1>16. ToSet(replicaMetrics(v)) =
           {Metric("connected_slave_offset_bytes", Whole(r.offset), <<r.ip, r.port, r.state>>)}
           \cup (IF s.kind \in Since28 THEN {Metric("connected_slave_lag_seconds", Whole(Get(v, "lag").x), <<r.ip, r.port, r.state>>)} ELSE {})
  BY <1>3, <1>6, <1>7, <1>8, <1>9, <1>15, ReplicaMetricsFacts
<1>17. s.kind \in Since28 => Get(v, "lag").x = r.lag
  BY <1>3, <1>10
<1>18. QED
  BY <1>13, <1>14, <1>16, <1>17 DEF ReplicaSet

(***************************************************************************)
(* What the walk knows after some of the lines, as a function of the set D *)
(* of the lines it has seen.                                               *)
(***************************************************************************)
KvKeys == {"redis_version", "valkey_version", "valkey_release_stage", "role", "slave_read_only",
           "master_host", "master_port"}
KvMark(k) == IF k \in {"master_host", "master_port"} THEN 1 ELSE 0
KvVal(s, k) ==
    CASE k \in {"redis_version", "valkey_version"} -> s.kind
      [] k = "valkey_release_stage" -> "ga"
      [] k = "role" -> IF s.masters = <<>> THEN "master" ELSE "slave"
      [] k = "slave_read_only" -> "1"
      [] k = "master_host" -> s.masters[1].host
      [] OTHER -> s.masters[1].port

\* The decimal forms of the numbers up to 15 are different and not empty.
LEMMA ItoaFacts ==
    /\ \A n \in 0 .. 15 : Itoa(n) # "" /\ Itoa(n) # "#"
    /\ \A m, n \in 0 .. 15 : Itoa(m) = Itoa(n) => m = n
<1>1. \A n \in 0 .. 15 : n = 0 \/ n = 1 \/ n = 2 \/ n = 3 \/ n = 4 \/ n = 5 \/ n = 6 \/ n = 7 \/ n = 8
                         \/ n = 9 \/ n = 10 \/ n = 11 \/ n = 12 \/ n = 13 \/ n = 14 \/ n = 15
  OBVIOUS
<1>2. /\ Itoa(0) = "0" /\ Itoa(1) = "1" /\ Itoa(2) = "2" /\ Itoa(3) = "3" /\ Itoa(4) = "4" /\ Itoa(5) = "5"
      /\ Itoa(6) = "6" /\ Itoa(7) = "7" /\ Itoa(8) = "8" /\ Itoa(9) = "9" /\ Itoa(10) = "10"
      /\ Itoa(11) = "11" /\ Itoa(12) = "12" /\ Itoa(13) = "13" /\ Itoa(14) = "14" /\ Itoa(15) = "15"
  BY DEF Itoa
<1>3. \A n \in 0 .. 15 : Itoa(n) # "" /\ Itoa(n) # "#"
  BY <1>1, <1>2
<1>4. \A m, n \in 0 .. 15 : Itoa(m) = Itoa(n) => m = n
  <2>1. SUFFICES ASSUME NEW m \in 0 .. 15, NEW n \in 0 .. 15, Itoa(m) = Itoa(n)
                 PROVE  m = n
    OBVIOUS
  <2>2. QED
    BY <2>1, <1>1, <1>2
<1>5. QED
  BY <1>3, <1>4

\* Only the first master's fields have no number.
LEMMA NumberedFacts ==
    ASSUME NEW s \in Facts, Consistent(s), NEW o \in DOMAIN s.masters
    PROVE  Numbered(o) = "" <=> o = 1
<1>1. IsSeq(s.masters) /\ Len(s.masters) <= 16
  BY FactSeqs DEF Consistent
<1>2. o \in 1 .. 16
  BY <1>1, SeqFacts
<1>3. o # 1 => o - 1 \in 0 .. 15
  BY <1>2
<1>4. QED
  BY <1>2, <1>3, ItoaFacts DEF Numbered

\* The lines that leave a label's value behind, and the value.
LEMMA KvLine ==
    ASSUME NEW s \in Facts, Consistent(s), NEW f, NEW o, LineOk(s, f, o), f.k # "#"
    PROVE  /\ f.i = "" /\ f.k \in InfoFields <=> f.k \in KvKeys /\ o = KvMark(f.k)
           /\ f.k \in KvKeys /\ o = KvMark(f.k) => f.v[1].s = KvVal(s, f.k) /\ Home(f.k) \notin Silent
<1>0. InfoFields = {"role", "redis_version", "redis_build_id", "redis_mode", "os", "maxmemory_policy",
                    "tcp_port", "run_id", "process_id", "master_replid", "valkey_version",
                    "valkey_release_stage", "master_host", "master_port", "slave_read_only"}
  BY BaseLabelSet DEF InfoFields
<1>1. CASE f.k \in {"redis_version", "valkey_version", "valkey_release_stage", "role", "slave_read_only"}
  <2>1. o = 0 /\ KvMark(f.k) = 0
    BY <1>1 DEF LineOk, SingleKeys, KvMark
  <2>2. f.i = "" /\ f.v[1].s = KvVal(s, f.k)
    <3>1. CASE f.k = "redis_version"
      <4>1. f = VersionLine(s)
        BY <3>1 DEF LineOk
      <4>2. VersionLine(s).i = "" /\ VersionLine(s).v[1].s = (s.kind)
        BY DEF VersionLine, Field, Txt
      <4>3. KvVal(s, "redis_version") = (s.kind)
        BY DEF KvVal
      <4>4. QED
        BY <3>1, <4>1, <4>2, <4>3
    <3>2. CASE f.k = "valkey_version"
      <4>1. f = ValkeyLine(s)
        BY <3>2 DEF LineOk
      <4>2. ValkeyLine(s).i = "" /\ ValkeyLine(s).v[1].s = (s.kind)
        BY DEF ValkeyLine, Field, Txt
      <4>3. KvVal(s, "valkey_version") = (s.kind)
        BY DEF KvVal
      <4>4. QED
        BY <3>2, <4>1, <4>2, <4>3
    <3>3. CASE f.k = "valkey_release_stage"
      <4>1. f = StageLine
        BY <3>3 DEF LineOk
      <4>2. StageLine.i = "" /\ StageLine.v[1].s = ("ga")
        BY DEF StageLine, Field, Txt
      <4>3. KvVal(s, "valkey_release_stage") = ("ga")
        BY DEF KvVal
      <4>4. QED
        BY <3>3, <4>1, <4>2, <4>3
    <3>4. CASE f.k = "role"
      <4>1. f = RoleLine(s)
        BY <3>4 DEF LineOk
      <4>2. RoleLine(s).i = "" /\ RoleLine(s).v[1].s = (IF s.masters = <<>> THEN "master" ELSE "slave")
        BY DEF RoleLine, Field, Txt
      <4>3. KvVal(s, "role") = (IF s.masters = <<>> THEN "master" ELSE "slave")
        BY DEF KvVal
      <4>4. QED
        BY <3>4, <4>1, <4>2, <4>3
    <3>5. CASE f.k = "slave_read_only"
      <4>1. f = ReadOnlyLine
        BY <3>5 DEF LineOk
      <4>2. ReadOnlyLine.i = "" /\ ReadOnlyLine.v[1].s = ("1")
        BY DEF ReadOnlyLine, Field, Txt
      <4>3. KvVal(s, "slave_read_only") = ("1")
        BY DEF KvVal
      <4>4. QED
        BY <3>5, <4>1, <4>2, <4>3
    <3>6. QED
      BY <1>1, <3>1, <3>2, <3>3, <3>4, <3>5
  <2>3. QED
    BY <1>0, <1>1, <2>1, <2>2 DEF KvKeys, Home, Silent
<1>2. CASE f.k \in MasterBlock
  <2>1. o \in DOMAIN s.masters
    BY <1>2 DEF LineOk
  <2>2. PICK c \in 1 .. 6 : f.k = MasterRow[c] /\ f = MasterFields(s.masters[o], Numbered(o))[c]
    BY <1>2 DEF LineOk
  <2>3. MasterRow[1] = "master_host" /\ MasterRow[2] = "master_port" /\ MasterRow[3] = "master_link_status"
        /\ MasterRow[4] = "master_last_io_seconds_ago" /\ MasterRow[5] = "master_sync_in_progress"
        /\ MasterRow[6] = "slave_repl_offset"
    BY DEF MasterRow
  <2>4. c = 1 \/ c = 2 \/ c = 3 \/ c = 4 \/ c = 5 \/ c = 6
    OBVIOUS
  <2>5. CASE c \in {1, 2}
    <3>1. f.i = Numbered(o)
      BY <2>2, <2>5, MasterFieldFacts
    <3>2. f.i = "" <=> o = 1
      BY <2>1, <3>1, NumberedFacts
    <3>3. f.k \in {"master_host", "master_port"}
      BY <2>2, <2>3, <2>5
    <3>4. o = 1 => f.v[1].s = KvVal(s, f.k)
      <4>1. CASE c = 1
        <5>1. f.v[1].s = s.masters[o].host
          BY <2>2, <4>1, MasterFieldFacts
        <5>2. KvVal(s, f.k) = s.masters[1].host
          BY <2>2, <2>3, <4>1 DEF KvVal
        <5>3. QED
          BY <5>1, <5>2
      <4>2. CASE c = 2
        <5>1. f.v[1].s = s.masters[o].port
          BY <2>2, <4>2, MasterFieldFacts
        <5>2. KvVal(s, f.k) = s.masters[1].port
          BY <2>2, <2>3, <4>2 DEF KvVal
        <5>3. QED
          BY <5>1, <5>2
      <4>3. QED
        BY <2>5, <4>1, <4>2
    <3>5. QED
      BY <1>0, <3>2, <3>3, <3>4 DEF KvKeys, KvMark, Home, Silent
  <2>6. CASE c \in {3, 4, 5, 6}
    BY <1>0, <2>2, <2>3, <2>6 DEF KvKeys
  <2>7. QED
    BY <2>4, <2>5, <2>6
<1>3. CASE f.k \notin MasterBlock
           /\ f.k \notin {"redis_version", "valkey_version", "valkey_release_stage", "role", "slave_read_only"}
  <2>1. f.k \in SingleKeys \cup ManyKeys
    BY <1>3 DEF LineOk
  <2>2. QED
    BY <1>0, <1>3, <2>1 DEF KvKeys, SingleKeys, ManyKeys, MasterBlock
<1>4. QED
  BY <1>1, <1>2, <1>3

StatsOf(s, c) ==
    [calls |-> IF c.cmd \notin s.brief THEN c.calls ELSE 0, usec |-> IF c.cmd \notin s.brief THEN c.usec ELSE 0]
LatOf(c) == {<<"p50", c.usec>>, <<"p99", c.usec + 1>>}

KvOk(s, D, kv) ==
    /\ DOMAIN kv = {k \in KvKeys : <<k, KvMark(k)>> \in D}
    /\ \A k \in DOMAIN kv : kv[k] = KvVal(s, k)
StatsOk(s, D, st) ==
    /\ \A c : c \in DOMAIN st <=> \E o \in DOMAIN s.cmds : <<"cmdstat_", o>> \in D /\ c = s.cmds[o].cmd
    /\ \A o \in DOMAIN s.cmds : <<"cmdstat_", o>> \in D => st[s.cmds[o].cmd] = StatsOf(s, s.cmds[o])
LatOk(s, D, lat) ==
    /\ \A c : c \in DOMAIN lat <=>
          \E o \in DOMAIN s.cmds : <<"latency_percentiles_usec_", o>> \in D /\ c = s.cmds[o].cmd
    /\ \A o \in DOMAIN s.cmds : <<"latency_percentiles_usec_", o>> \in D => lat[s.cmds[o].cmd] = LatOf(s.cmds[o])
HandledOk(s, D, h) ==
    \A x : x \in h <=> s.kind # "later" /\ \E o \in DOMAIN s.dbs : <<"db", o>> \in D /\ x = Itoa(s.dbs[o].db)

\* One more line: the set of lines seen grows from D to E.
Steps(s, D, E, f, o, p) ==
    /\ LineOk(s, f, o)
    /\ f.k = "#" => E = D
    /\ f.k # "#" => E = D \cup {<<f.k, o>>} /\ <<f.k, o>> \notin D /\ p.cls = Home(f.k)

\* The lines of the sections.
LEMMA HomeFacts ==
    /\ \A k : Home(k) = "Commandstats" <=> k = "cmdstat_"
    /\ \A k : Home(k) = "Latencystats" <=> k = "latency_percentiles_usec_"
    /\ \A k : Home(k) = "Keyspace" <=> k = "db"
    /\ \A k : Home(k) = "Errorstats" <=> k = "errorstat_"
    /\ \A k : Home(k) = "Sentinel" <=> k \in {"sentinel_masters", "master"}
    /\ \A k \in MasterBlock \cup {"slave"} : Home(k) = "Replication"
    /\ \A k : Home(k) \in {"Server", "Stats", "Sentinel", "Commandstats", "Errorstats", "Latencystats",
                           "Cluster", "Keyspace", "Replication"}
BY DEF Home, MasterBlock

\* One line keeps what is known of the labels' values.
LEMMA KvStep ==
    ASSUME NEW s \in Facts, Consistent(s), NEW D, NEW E, NEW f, NEW o, NEW p, Steps(s, D, E, f, o, p),
           KvOk(s, D, p.kv)
    PROVE  KvOk(s, E, Walked(p, f).kv)
<1> DEFINE w == f.i = "" /\ f.k \in InfoFields /\ p.cls \notin Silent
<1>1. Walked(p, f).kv = IF w THEN With(p.kv, f.k, f.v[1].s) ELSE p.kv
  BY DEF Walked
<1>2. CASE f.k = "#"
  <2>1. "#" \notin InfoFields
    BY BaseLabelSet DEF InfoFields
  <2>2. QED
    BY <1>1, <1>2, <2>1 DEF Steps
<1>3. CASE f.k # "#" /\ w
  <2>1. f.k \in KvKeys /\ o = KvMark(f.k) /\ f.v[1].s = KvVal(s, f.k)
    BY <1>3, KvLine DEF Steps
  <2>2. E = D \cup {<<f.k, o>>}
    BY <1>3 DEF Steps
  <2>3. \A k \in KvKeys : <<k, KvMark(k)>> \in E <=> (<<k, KvMark(k)>> \in D \/ k = f.k)
    BY <2>1, <2>2
  <2>4. DOMAIN With(p.kv, f.k, f.v[1].s) = {k \in KvKeys : <<k, KvMark(k)>> \in E}
    BY <2>1, <2>3 DEF With, KvOk
  <2>5. \A k \in DOMAIN With(p.kv, f.k, f.v[1].s) : With(p.kv, f.k, f.v[1].s)[k] = KvVal(s, k)
    BY <2>1 DEF With, KvOk
  <2>6. QED
    BY <1>1, <1>3, <2>4, <2>5 DEF KvOk
<1>4. CASE f.k # "#" /\ ~w
  <2>1. ~(f.k \in KvKeys /\ o = KvMark(f.k))
    BY <1>4, KvLine DEF Steps
  <2>2. E = D \cup {<<f.k, o>>}
    BY <1>4 DEF Steps
  <2>3. \A k \in KvKeys : <<k, KvMark(k)>> \in E <=> <<k, KvMark(k)>> \in D
    BY <2>1, <2>2
  <2>4. QED
    BY <1>1, <1>4, <2>3 DEF KvOk
<1>5. QED
  BY <1>2, <1>3, <1>4

\* What the parser makes of a command's line.
LEMMA StatsLineFacts ==
    ASSUME NEW s, NEW c, NEW f, f.k = "cmdstat_", f.v = CommandParts(s, c)
    PROVE  /\ StatsRead(f) = StatsOf(s, c)
           /\ StatsParse(f) <=> c.cmd \notin s.brief
           /\ c.cmd \notin s.brief => (Len(f.v) >= 5 <=> s.kind \in Since62)
           /\ f.v[1].x = c.calls /\ f.v[2].x = c.usec
           /\ c.cmd \notin s.brief /\ s.kind \in Since62 => f.v[4].x = c.rejected /\ f.v[5].x = 1
<1> DEFINE v == CommandParts(s, c)
           a == Num("calls", c.calls)
           b == Num("usec", c.usec)
           x == Num("rejected_calls", c.rejected)
           y == Num("failed_calls", 1)
<1>1. /\ IsSeq(v) /\ v[1] = a /\ v[2] = b
      /\ Len(v) = IF c.cmd \in s.brief THEN 2 ELSE IF s.kind \in Since62 THEN 5 ELSE 3
      /\ c.cmd \notin s.brief /\ s.kind \in Since62 => v[4] = x /\ v[5] = y
  BY CommandPartsFacts
<1>2. extractVal(a) /\ extractVal(b) /\ extractVal(x) /\ extractVal(y)
      /\ a.x = c.calls /\ b.x = c.usec /\ x.x = c.rejected /\ y.x = 1
  BY DEF Num, extractVal
<1>3. f.v = v
  OBVIOUS
<1> HIDE DEF v, a, b, x, y
<1>4. c.cmd \in s.brief => Len(v) = 2
  BY <1>1
<1>5. c.cmd \notin s.brief => Len(v) >= 3 /\ (Len(v) >= 5 <=> s.kind \in Since62)
  BY <1>1
<1>5a. extractVal(v[1]) /\ extractVal(v[2])
       /\ (c.cmd \notin s.brief /\ s.kind \in Since62 => extractVal(v[4]) /\ extractVal(v[5]))
  BY <1>1, <1>2
<1>5b. IsSeq(v) /\ Len(v) \in Nat
  BY <1>1, SeqFacts
<1>6. StatsParse(f) <=> c.cmd \notin s.brief
  <2>1. CASE c.cmd \in s.brief
    <3>0. Len(f.v) = 2
      BY <1>3, <1>4, <2>1
    <3>1. ~(Len(f.v) >= 3)
      BY ONLY <3>0
    <3>2. QED
      BY <2>1, <3>1 DEF StatsParse
  <2>2. CASE c.cmd \notin s.brief
    BY <1>3, <1>5, <1>5a, <2>2 DEF StatsParse
  <2>3. QED
    BY <2>1, <2>2
<1>7. StatsRead(f) = StatsOf(s, c)
  <2>1. CASE c.cmd \in s.brief
    <3>0. Len(f.v) = 2
      BY <1>3, <1>4, <2>1
    <3>1. ~(Len(f.v) >= 3)
      BY ONLY <3>0
    <3>2. QED
      BY <2>1, <3>1 DEF StatsRead, StatsOf
  <2>2. CASE c.cmd \notin s.brief
    <3>1. v[1].x = c.calls /\ v[2].x = c.usec
      BY <1>1, <1>2
    <3>2. QED
      BY <1>3, <1>5, <1>5a, <2>2, <3>1 DEF StatsRead, StatsOf
  <2>3. QED
    BY <2>1, <2>2
<1>8. QED
  BY <1>1, <1>2, <1>3, <1>5, <1>6, <1>7

\* One line keeps what is known of the commands' statistics.
LEMMA StatsStep ==
    ASSUME NEW s \in Facts, Consistent(s), NEW D, NEW E, NEW f, NEW o, NEW p, Steps(s, D, E, f, o, p),
           StatsOk(s, D, p.stats)
    PROVE  StatsOk(s, E, Walked(p, f).stats)
<1>1. Walked(p, f).stats = IF f.k # "#" /\ p.cls = "Commandstats" THEN With(p.stats, f.i, StatsRead(f)) ELSE p.stats
  BY DEF Walked
<1>2. CASE f.k # "#" /\ p.cls = "Commandstats"
  <2>1. f.k = "cmdstat_" /\ E = D \cup {<<"cmdstat_", o>>}
    BY <1>2, HomeFacts DEF Steps
  <2>2. o \in DOMAIN s.cmds /\ f = CommandField(s, s.cmds[o])
    BY <2>1 DEF Steps, LineOk
  <2>3. f.i = s.cmds[o].cmd /\ f.v = CommandParts(s, s.cmds[o])
    BY <2>2, LineNamesOf
  <2>4. StatsRead(f) = StatsOf(s, s.cmds[o])
    BY <2>1, <2>3, StatsLineFacts
  <2> DEFINE g == With(p.stats, f.i, StatsRead(f))
  <2>5. \A c : c \in DOMAIN g <=> c \in DOMAIN p.stats \/ c = s.cmds[o].cmd
    BY <2>3 DEF With
  <2>6. \A c \in DOMAIN g : g[c] = IF c = s.cmds[o].cmd THEN StatsOf(s, s.cmds[o]) ELSE p.stats[c]
    BY <2>3, <2>4 DEF With
  <2> HIDE DEF g
  <2>7. \A q : <<"cmdstat_", q>> \in E <=> <<"cmdstat_", q>> \in D \/ q = o
    BY <2>1
  <2>8. \A q \in DOMAIN s.cmds : s.cmds[q].cmd = s.cmds[o].cmd => q = o
    BY <2>2 DEF Consistent
  <2>9. \A c : c \in DOMAIN g <=> \E q \in DOMAIN s.cmds : <<"cmdstat_", q>> \in E /\ c = s.cmds[q].cmd
    BY <2>2, <2>5, <2>7 DEF StatsOk
  <2>10. \A q \in DOMAIN s.cmds : <<"cmdstat_", q>> \in E => g[s.cmds[q].cmd] = StatsOf(s, s.cmds[q])
    BY <2>2, <2>6, <2>7, <2>8, <2>9 DEF StatsOk
  <2>11. QED
    BY <1>1, <1>2, <2>9, <2>10 DEF StatsOk, g
<1>3. CASE ~(f.k # "#" /\ p.cls = "Commandstats")
  <2>1. \A q : <<"cmdstat_", q>> \in E <=> <<"cmdstat_", q>> \in D
    BY <1>3, HomeFacts DEF Steps
  <2>2. QED
    BY <1>1, <1>3, <2>1 DEF StatsOk
<1>4. QED
  BY <1>2, <1>3

\* A line of percentiles is read.
LEMMA LatLineFacts ==
    ASSUME NEW c, NEW f, f.k = "latency_percentiles_usec_", f.v = PercentileParts(c)
    PROVE  PercentilesParse(f) /\ {extractPercentileVal(f.v[i]) : i \in DOMAIN f.v} = LatOf(c)
<1> DEFINE v == PercentileParts(c)
           a == Num("p50", c.usec)
           b == Num("p99", c.usec + 1)
<1>1. a.n = "p50" /\ a.s = "" /\ b.n = "p99" /\ b.s = ""
      /\ extractPercentileVal(a) = <<"p50", c.usec>> /\ extractPercentileVal(b) = <<"p99", c.usec + 1>>
  BY DEF Num, extractPercentileVal
<1>2. v = <<a, b>>
  BY DEF PercentileParts
<1> HIDE DEF a, b
<1>3. DOMAIN v = {1, 2} /\ v[1] = a /\ v[2] = b
  BY <1>2
<1>4. f.v = v
  OBVIOUS
<1> HIDE DEF v
<1>5. PercentilesParse(f)
  BY <1>1, <1>3, <1>4 DEF PercentilesParse
<1>6. {extractPercentileVal(v[i]) : i \in DOMAIN v} = {extractPercentileVal(a), extractPercentileVal(b)}
  BY <1>3
<1>7. QED
  BY <1>1, <1>4, <1>5, <1>6 DEF LatOf

\* One line keeps what is known of the percentiles.
LEMMA LatStep ==
    ASSUME NEW s \in Facts, Consistent(s), NEW D, NEW E, NEW f, NEW o, NEW p, Steps(s, D, E, f, o, p),
           LatOk(s, D, p.lat)
    PROVE  LatOk(s, E, Walked(p, f).lat)
<1> DEFINE K == "latency_percentiles_usec_"
           w == f.k # "#" /\ p.cls = "Latencystats"
           x == {extractPercentileVal(f.v[i]) : i \in DOMAIN f.v}
           b == PercentilesParse(f)
<1>1. Walked(p, f).lat = IF w /\ b THEN With(p.lat, f.i, x) ELSE p.lat
  BY DEF Walked
<1>2. CASE w
  <2>1. f.k = K /\ E = D \cup {<<K, o>>}
    BY <1>2, HomeFacts DEF Steps
  <2>2. o \in DOMAIN s.cmds /\ f = PercentileField(s.cmds[o])
    BY <2>1 DEF Steps, LineOk
  <2>3. f.i = s.cmds[o].cmd /\ f.v = PercentileParts(s.cmds[o])
    BY <2>2, LineNamesOf
  <2>4. b /\ x = LatOf(s.cmds[o])
    BY <2>1, <2>3, LatLineFacts
  <2> DEFINE g == With(p.lat, f.i, x)
  <2> HIDE DEF x
  <2>5. \A c : c \in DOMAIN g <=> c \in DOMAIN p.lat \/ c = s.cmds[o].cmd
    BY <2>3 DEF With
  <2>6. \A c \in DOMAIN g : g[c] = IF c = s.cmds[o].cmd THEN LatOf(s.cmds[o]) ELSE p.lat[c]
    BY <2>3, <2>4 DEF With
  <2>6a. Walked(p, f).lat = g
    BY <1>1, <1>2, <2>4
  <2> HIDE DEF g
  <2>7. \A q : <<K, q>> \in E <=> <<K, q>> \in D \/ q = o
    BY <2>1
  <2>8. \A q \in DOMAIN s.cmds : s.cmds[q].cmd = s.cmds[o].cmd => q = o
    BY <2>2 DEF Consistent
  <2>9. \A c : c \in DOMAIN g <=> \E q \in DOMAIN s.cmds : <<K, q>> \in E /\ c = s.cmds[q].cmd
    BY <2>2, <2>5, <2>7 DEF LatOk
  <2>10. \A q \in DOMAIN s.cmds : <<K, q>> \in E => g[s.cmds[q].cmd] = LatOf(s.cmds[q])
    BY <2>2, <2>6, <2>7, <2>8, <2>9 DEF LatOk
  <2>11. QED
    BY <2>6a, <2>9, <2>10 DEF LatOk
<1>3. CASE ~w
  <2>1. \A q : <<K, q>> \in E <=> <<K, q>> \in D
    BY <1>3, HomeFacts DEF Steps
  <2>2. QED
    BY <1>1, <1>3, <2>1 DEF LatOk
<1>4. QED
  BY <1>2, <1>3

\* What the parser makes of a database's line.
LEMMA KeyspaceLineFacts ==
    ASSUME NEW s, s.kind \in Kinds, NEW d, NEW f, f.k = "db", f.v = KeyspaceParts(s, d)
    PROVE  /\ parseDBKeyspaceString(f) <=> s.kind # "later"
           /\ f.v[1].x = d.keys /\ f.v[2].x = d.expires
           /\ Len(f.v) > 2 <=> s.kind \in Since28
           /\ s.kind \in Since28 => f.v[3].x = d.ttl
           /\ s.kind # "later" => (Len(f.v) > 3 <=> s.kind \in Since74 \cup {"keydb"})
           /\ s.kind # "later" /\ s.kind \in Since74 \cup {"keydb"} => f.v[4].x = d.other
<1> DEFINE v == KeyspaceParts(s, d)
           a == Num("keys", d.keys)
           b == Num("expires", d.expires)
           c == Num("avg_ttl", d.ttl)
           x == Num("cached_keys", d.other)
           y == Num("subexpiry", d.other)
<1>1. /\ IsSeq(v) /\ v[1] = a /\ v[2] = b
      /\ s.kind = "redis2.4" => Len(v) = 2
      /\ s.kind \in Since28 => v[3] = c /\ Len(v) >= 3
      /\ s.kind \in Since28 \ (Since74 \cup {"keydb"}) => Len(v) = 3
      /\ s.kind = "keydb" => Len(v) = 4 /\ v[4] = x
      /\ s.kind \in Since74 \ {"later"} => Len(v) = 4 /\ v[4] = y
      /\ s.kind = "later" => Len(v) = 5
  BY KeyspacePartsFacts
<1>2. extractVal(a) /\ extractVal(b) /\ extractVal(c) /\ extractVal(x) /\ extractVal(y)
      /\ a.x = d.keys /\ b.x = d.expires /\ c.x = d.ttl /\ x.x = d.other /\ y.x = d.other
  BY DEF Num, extractVal
<1>3. f.v = v
  OBVIOUS
<1> HIDE DEF v, a, b, c, x, y
<1>4. DOMAIN v = 1 .. Len(v) /\ Len(v) \in Nat
  BY <1>1, SeqFacts
<1>5. v[1].x = d.keys /\ v[2].x = d.expires /\ extractVal(v[1]) /\ extractVal(v[2])
  BY <1>1, <1>2
<1>6. s.kind = "redis2.4" \/ s.kind \in Since28
  BY DEF Since28
<1>7. CASE s.kind = "redis2.4"
  <2>1. s.kind \notin Since28 /\ s.kind \notin Since74 \cup {"keydb"} /\ s.kind # "later"
    BY <1>7, KindFacts
  <2>2. Len(v) = 2
    BY <1>1, <1>7
  <2>3. DOMAIN v = {1, 2}
    BY <1>4, <2>2
  <2>4. \A i \in DOMAIN v : extractVal(v[i])
    BY <1>5, <2>3
  <2>5. parseDBKeyspaceString(f)
    BY <1>3, <2>2, <2>4 DEF parseDBKeyspaceString
  <2>6. QED
    BY <1>3, <1>5, <2>1, <2>2, <2>5
<1>8. CASE s.kind \in Since28 \ (Since74 \cup {"keydb"})
  <2>1. s.kind # "later"
    BY <1>8, KindFacts
  <2>2. Len(v) = 3 /\ v[3] = c
    BY <1>1, <1>8
  <2>2a. extractVal(v[3]) /\ v[3].x = d.ttl
    BY <1>2, <2>2
  <2>3. DOMAIN v = {1, 2, 3}
    BY <1>4, <2>2
  <2>4. \A i \in DOMAIN v : extractVal(v[i])
    BY <1>5, <2>2a, <2>3
  <2>5. parseDBKeyspaceString(f)
    BY <1>3, <2>2, <2>4 DEF parseDBKeyspaceString
  <2>6. QED
    BY <1>3, <1>5, <1>8, <2>1, <2>2, <2>2a, <2>5
<1>9. CASE s.kind = "later"
  <2>1. s.kind \in Since28
    BY <1>9, KindFacts
  <2>2. Len(v) = 5 /\ v[3] = c
    BY <1>1, <1>9, <2>1
  <2>3. v[3].x = d.ttl
    BY <1>2, <2>2
  <2>4. ~parseDBKeyspaceString(f)
    BY <1>3, <2>2 DEF parseDBKeyspaceString
  <2>5. QED
    BY <1>3, <1>5, <1>9, <2>1, <2>2, <2>3, <2>4
<1>10. CASE s.kind \in (Since74 \cup {"keydb"}) \ {"later"}
  <2>1. s.kind \in Since28 /\ s.kind # "later"
    BY <1>10, KindFacts
  <2>2. Len(v) = 4 /\ v[3] = c /\ (v[4] = x \/ v[4] = y)
    BY <1>1, <1>10, <2>1
  <2>2a. extractVal(v[3]) /\ v[3].x = d.ttl /\ extractVal(v[4]) /\ v[4].x = d.other
    BY <1>2, <2>2
  <2>3. DOMAIN v = {1, 2, 3, 4}
    BY <1>4, <2>2
  <2>4. \A i \in DOMAIN v : extractVal(v[i])
    BY <1>5, <2>2a, <2>3
  <2>5. parseDBKeyspaceString(f)
    BY <1>3, <2>2, <2>4 DEF parseDBKeyspaceString
  <2>6. QED
    BY <1>3, <1>5, <1>10, <2>1, <2>2, <2>2a, <2>5
<1>11. QED
  BY <1>6, <1>7, <1>8, <1>9, <1>10

\* One line keeps what is known of the listed databases.
LEMMA HandledStep ==
    ASSUME NEW s \in Facts, NEW D, NEW E, NEW f, NEW o, NEW p, Steps(s, D, E, f, o, p),
           HandledOk(s, D, p.handled)
    PROVE  HandledOk(s, E, Walked(p, f).handled)
<1> DEFINE w == f.k # "#" /\ p.cls = "Keyspace"
           b == parseDBKeyspaceString(f)
<1>1. Walked(p, f).handled = IF w /\ b THEN p.handled \cup {f.i} ELSE p.handled
  BY DEF Walked
<1>2. CASE w
  <2>1. f.k = "db" /\ E = D \cup {<<"db", o>>}
    BY <1>2, HomeFacts DEF Steps
  <2>2. o \in DOMAIN s.dbs /\ f = KeyspaceField(s, s.dbs[o])
    BY <2>1 DEF Steps, LineOk
  <2>3. f.i = Itoa(s.dbs[o].db) /\ f.v = KeyspaceParts(s, s.dbs[o])
    BY <2>2, LineNamesOf
  <2>3a. s.kind \in Kinds
    BY DEF Facts
  <2>4. b <=> s.kind # "later"
    BY <2>1, <2>3, <2>3a, KeyspaceLineFacts
  <2>7. \A q : <<"db", q>> \in E <=> <<"db", q>> \in D \/ q = o
    BY <2>1
  <2> HIDE DEF b
  <2>8. QED
    BY <1>1, <1>2, <2>2, <2>3, <2>4, <2>7 DEF HandledOk
<1>3. CASE ~w
  <2>1. \A q : <<"db", q>> \in E <=> <<"db", q>> \in D
    BY <1>3, HomeFacts DEF Steps
  <2>2. QED
    BY <1>1, <1>3, <2>1 DEF HandledOk
<1>4. QED
  BY <1>2, <1>3

\* Within the lines of a master the walk knows that master's address.
Addr(s, f, o, p) ==
    /\ f.k \in MasterBlock => p.host = s.masters[o].host
    /\ f.k \in MasterBlock \ {"master_host"} => p.port = s.masters[o].port

WalkOk(s, n, p) ==
    /\ IsParse(p)
    /\ n >= 1 => p.cls = Class(InfoText(s)[n]) /\ Addr(s, InfoText(s)[n], Marks(s)[n], p)
    /\ KvOk(s, Done(s, n), p.kv)
    /\ StatsOk(s, Done(s, n), p.stats)
    /\ LatOk(s, Done(s, n), p.lat)
    /\ HandledOk(s, Done(s, n), p.handled)

\* Nothing is known before the first line.
LEMMA WalkBegins ==
    ASSUME NEW s \in Facts
    PROVE  WalkOk(s, 0, NewParse)
<1>1. Done(s, 0) = {}
  BY MarksFacts
<1>2. NewParse.kv = <<>> /\ NewParse.stats = <<>> /\ NewParse.lat = <<>> /\ NewParse.handled = {} /\ IsParse(NewParse)
  BY DEF NewParse, IsParse
<1>3. DOMAIN <<>> = {}
  BY ShortSeqs
<1>4. KvOk(s, {}, NewParse.kv)
  BY <1>2, <1>3 DEF KvOk
<1>5. StatsOk(s, {}, NewParse.stats)
  BY <1>2, <1>3 DEF StatsOk
<1>6. LatOk(s, {}, NewParse.lat)
  BY <1>2, <1>3 DEF LatOk
<1>7. HandledOk(s, {}, NewParse.handled)
  BY <1>2 DEF HandledOk
<1>8. QED
  BY <1>1, <1>2, <1>4, <1>5, <1>6, <1>7 DEF WalkOk

\* The values of a master's fields.
LEMMA MasterLineFacts ==
    ASSUME NEW s, NEW f, NEW o, LineOk(s, f, o), f.k \in MasterBlock
    PROVE  /\ o \in DOMAIN s.masters
           /\ f.k = "master_host" => f.v[1].s = s.masters[o].host
           /\ f.k = "master_port" => f.v[1].s = s.masters[o].port
           /\ f.k = "master_link_status" => f.v[1].s = IF s.masters[o].up THEN "up" ELSE "down"
           /\ f.k = "master_last_io_seconds_ago" => Atoi(f.v) = s.masters[o].io
           /\ f.k = "master_sync_in_progress" => Atoi(f.v) = IF s.masters[o].up THEN 0 ELSE 1
           /\ f.k = "slave_repl_offset" => Atoi(f.v) = s.masters[o].offset
<1> DEFINE m == s.masters[o]
           F == MasterFields(m, Numbered(o))
<1>1. o \in DOMAIN s.masters /\ \E c \in 1 .. 6 : f.k = MasterRow[c] /\ f = F[c]
  BY DEF LineOk
<1>2. PICK c \in 1 .. 6 : f.k = MasterRow[c] /\ f = F[c]
  BY <1>1
<1>3. MasterRow[1] = "master_host" /\ MasterRow[2] = "master_port" /\ MasterRow[3] = "master_link_status"
      /\ MasterRow[4] = "master_last_io_seconds_ago" /\ MasterRow[5] = "master_sync_in_progress"
      /\ MasterRow[6] = "slave_repl_offset"
  BY DEF MasterRow
<1>4. /\ F[1].v[1].s = m.host /\ F[2].v[1].s = m.port
      /\ F[3].v[1].s = IF m.up THEN "up" ELSE "down"
      /\ Atoi(F[4].v) = m.io /\ Atoi(F[5].v) = IF m.up THEN 0 ELSE 1
      /\ Atoi(F[6].v) = m.offset
  BY MasterFieldFacts
<1> HIDE DEF F
<1>5. CASE c = 1
  BY <1>1, <1>2, <1>3, <1>4, <1>5
<1>6. CASE c = 2
  BY <1>1, <1>2, <1>3, <1>4, <1>6
<1>7. CASE c = 3
  BY <1>1, <1>2, <1>3, <1>4, <1>7
<1>8. CASE c = 4
  BY <1>1, <1>2, <1>3, <1>4, <1>8
<1>9. CASE c = 5
  BY <1>1, <1>2, <1>3, <1>4, <1>9
<1>10. CASE c = 6
  BY <1>1, <1>2, <1>3, <1>4, <1>10
<1>11. QED
  BY <1>2, <1>5, <1>6, <1>7, <1>8, <1>9, <1>10

\* After a field of a master, the address the walk carries is that master's (info.go 99-112).
LEMMA AddrStep ==
    ASSUME NEW s, NEW f, NEW o, LineOk(s, f, o), NEW g, NEW p,
           f.k \in MasterBlock => p.cls \notin Silent,
           f.k \in MasterBlock \ {"master_host"} => Continues(g, f) /\ Addr(s, g, o, p)
    PROVE  Addr(s, f, o, Walked(p, f))
<1> DEFINE w == Walked(p, f)
<1>1. /\ w.host = IF f.k = "master_host" /\ p.cls \notin Silent THEN f.v[1].s ELSE p.host
      /\ w.port = IF f.k = "master_port" /\ p.cls \notin Silent THEN f.v[1].s ELSE p.port
  BY DEF Walked
<1> HIDE DEF w
<1>2. CASE f.k \notin MasterBlock
  BY <1>2 DEF Addr
<1>3. CASE f.k = "master_host"
  <2>1. f.k \in MasterBlock
    BY <1>3 DEF MasterBlock
  <2>2. f.v[1].s = s.masters[o].host
    BY <1>3, <2>1, MasterLineFacts
  <2>3. w.host = s.masters[o].host
    BY <1>1, <1>3, <2>1, <2>2
  <2>4. QED
    BY <1>3, <2>3 DEF Addr, w
<1>4. CASE f.k \in MasterBlock \ {"master_host"}
  <2>1. PICK c \in 2 .. 6 : g.k = MasterRow[c - 1] /\ f.k = MasterRow[c]
    BY <1>4 DEF Continues
  <2>2. g.k \in MasterBlock
    BY <2>1, MasterRowFacts
  <2>3. w.host = s.masters[o].host
    BY <1>1, <1>4, <2>2 DEF Addr
  <2>4. w.port = s.masters[o].port
    <3>1. CASE f.k = "master_port"
      BY <1>1, <1>4, <3>1, MasterLineFacts
    <3>2. CASE f.k # "master_port"
      <4>1. MasterRow[1] = "master_host" /\ MasterRow[2] = "master_port"
        BY DEF MasterRow
      <4>2. c # 2
        BY <2>1, <3>2, <4>1
      <4>3. c - 1 \in 1 .. 6 /\ c - 1 # 1
        BY <4>2
      <4>4. g.k # "master_host"
        BY <2>1, <4>1, <4>3, MasterRowFacts
      <4>5. QED
        BY <1>1, <1>4, <2>2, <3>2, <4>4 DEF Addr
    <3>3. QED
      BY <3>1, <3>2
  <2>5. QED
    BY <2>3, <2>4 DEF Addr, w
<1>5. QED
  BY <1>2, <1>3, <1>4

\* One more line of INFO keeps the walk's knowledge right.
LEMMA WalkStep ==
    ASSUME NEW s \in Facts, Consistent(s), NEW n \in Nat, n < Len(InfoText(s)), NEW p, WalkOk(s, n, p)
    PROVE  /\ WalkOk(s, n + 1, Walked(p, InfoText(s)[n + 1]))
           /\ Steps(s, Done(s, n), Done(s, n + 1), InfoText(s)[n + 1], Marks(s)[n + 1], p)
<1> DEFINE f == InfoText(s)[n + 1]
           g == InfoText(s)[n]
           o == Marks(s)[n + 1]
           D == Done(s, n)
           E == Done(s, n + 1)
           w == Walked(p, f)
<1>1. /\ LineOk(s, f, o)
      /\ f.k # "#" => /\ n >= 1 /\ Class(g) = Home(f.k)
                      /\ E = D \cup {<<f.k, o>>} /\ <<f.k, o>> \notin D
      /\ f.k = "#" => E = D
      /\ f.k \in MasterBlock \ {"master_host"} => n >= 1 /\ Marks(s)[n] = o /\ Continues(g, f)
  BY NextLine
<1>2. n >= 1 => p.cls = Class(g) /\ Addr(s, g, Marks(s)[n], p)
  BY DEF WalkOk
<1> HIDE DEF f, g, o, D, E
<1>3. Steps(s, D, E, f, o, p)
  BY <1>1, <1>2 DEF Steps
<1>4. KvOk(s, E, w.kv)
  BY <1>3, KvStep DEF WalkOk, D
<1>5. StatsOk(s, E, w.stats)
  BY <1>3, StatsStep DEF WalkOk, D
<1>6. LatOk(s, E, w.lat)
  BY <1>3, LatStep DEF WalkOk, D
<1>7. HandledOk(s, E, w.handled)
  BY <1>3, HandledStep DEF WalkOk, D
<1>8. Addr(s, f, o, w)
  <2>1. f.k \in MasterBlock => p.cls \notin Silent
    BY <1>1, <1>2, MasterRowFacts DEF Silent
  <2>2. f.k \in MasterBlock \ {"master_host"} => Continues(g, f) /\ Addr(s, g, o, p)
    BY <1>1, <1>2
  <2>3. QED
    BY <1>1, <2>1, <2>2, AddrStep
<1>9. w.cls = Class(f)
  <2>1. w.cls = IF f.k = "#" THEN f.i ELSE p.cls
    BY DEF Walked
  <2>2. QED
    BY <1>1, <1>2, <2>1 DEF Class
<1>10. IsParse(w)
  BY DEF Walked, IsParse
<1> HIDE DEF w
<1>11. QED
  BY <1>3, <1>4, <1>5, <1>6, <1>7, <1>8, <1>9, <1>10 DEF WalkOk, f, o, E, w, D
=============================================================================
