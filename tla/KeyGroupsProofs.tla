-------------------------- MODULE KeyGroupsProofs --------------------------
(***************************************************************************)
(* Theorems about KeyGroups, for any finite set of keys.  The invariant says *)
(* that the groups at hand, merged and stored are exact against the answers *)
(* of the server, group by group; from there the properties follow the data *)
(* through the sort, the cut at the limit and the overflow group.  The first *)
(* half of the module is about sums over finite sets: the inductions it needs *)
(* are over a set of sets, by way of its minimal members.                  *)
(***************************************************************************)
EXTENDS KeyGroups, TLAPS, FiniteSetTheorems, WellFoundedInduction

-----------------------------------------------------------------------------
(***************************************************************************)
(* Induction over a finite set: what holds of a set whenever it holds of   *)
(* its proper subsets holds of every finite set.  The property is a set of *)
(* sets.                                                                   *)
(***************************************************************************)
\* A set of subsets of a finite set has a member that contains no other one.
LEMMA Smallest ==
    ASSUME NEW S, IsFiniteSet(S), NEW B, B \subseteq SUBSET S, B # {}
    PROVE  \E T \in B : \A U \in B : ~(<<U, T>> \in StrictSubsetOrdering(S))
<1>1. IsWellFoundedOn(StrictSubsetOrdering(S), FiniteSubsetsOf(S))
  BY FS_StrictSubsetOrderingWellFounded, Zenon
<1>2. FiniteSubsetsOf(S) = SUBSET S
  BY FS_FiniteSubsetsOfFinite, Zenon
<1>3. IsWellFoundedOn(StrictSubsetOrdering(S), SUBSET S)
  BY <1>1, <1>2
<1>4. QED
  BY <1>3, WFMin, Zenon

\* If every subset of a finite set is in P once its proper subsets are, the set is.
LEMMA SetInduction ==
    ASSUME NEW S, IsFiniteSet(S), NEW P,
           \A T \in SUBSET S : (\A U \in SUBSET T : U # T => U \in P) => T \in P
    PROVE  S \in P
<1> DEFINE Bad == {T \in SUBSET S : T \notin P}
<1> SUFFICES ASSUME S \notin P PROVE FALSE
  OBVIOUS
<1>1. Bad \subseteq SUBSET S /\ Bad # {}
  OBVIOUS
<1>2. PICK T \in Bad : \A U \in Bad : ~(<<U, T>> \in StrictSubsetOrdering(S))
  <2> HIDE DEF Bad
  <2>1. QED
    BY <1>1, Smallest, Zenon
<1>3. ASSUME NEW U \in SUBSET T, U # T PROVE U \in P
  <2>1. CASE U \in Bad
    <3>1. <<U, T>> \in StrictSubsetOrdering(S)
      BY <1>3 DEF StrictSubsetOrdering
    <3>2. QED
      BY <1>2, <2>1, <3>1
  <2>2. QED
    BY <1>3, <2>1
<1>4. QED
  BY <1>2, <1>3

-----------------------------------------------------------------------------
(***************************************************************************)
(* Sums.  Sum is a fold, that is, a function defined by recursion over the *)
(* subsets of the set.                                                     *)
(***************************************************************************)
\* F is the recursive function by which Sum(f, S) is defined.
Fold(f, S, F) ==
    F = [s \in SUBSET S |->
            IF s = {} THEN 0
            ELSE f[CHOOSE x \in s : TRUE] + F[s \ {CHOOSE x \in s : TRUE}]]

\* The sum is the value of a function that satisfies the recursion, if there is one.
LEMMA SumMeaning ==
    ASSUME NEW f, NEW S
    PROVE  Sum(f, S) = (CHOOSE F : Fold(f, S, F))[S]
BY Zenon DEF Sum, FoldFunctionOnSet, MapThenFoldSet, Fold

\* There is one.
LEMMA FoldExists ==
    ASSUME NEW S, IsFiniteSet(S), NEW f, \A x \in S : f[x] \in Int
    PROVE  \E F \in [SUBSET S -> Int] : Fold(f, S, F)
<1> DEFINE D(n) == {s \in SUBSET S : Cardinality(s) <= n}
           c(s) == CHOOSE x \in s : TRUE
           Step(F, s) == IF s = {} THEN 0 ELSE f[c(s)] + F[s \ {c(s)}]
           Upto(n) == \E F \in [D(n) -> Int] : \A s \in D(n) : F[s] = Step(F, s)
           N == {T \in SUBSET S : Upto(Cardinality(T))}
<1>1. \A s \in SUBSET S : s # {} => c(s) \in s
  OBVIOUS
<1>2. \A s \in SUBSET S : Cardinality(s) \in Nat /\ IsFiniteSet(s)
  BY FS_Subset, FS_CardinalityType
<1>3. \A s \in SUBSET S : s # {} => /\ s \ {c(s)} \in SUBSET S
                                    /\ Cardinality(s \ {c(s)}) = Cardinality(s) - 1
  BY <1>1, <1>2, FS_RemoveElement
<1> HIDE DEF c
<1>4. Upto(0)
  <2>1. \A s \in D(0) : s = {}
    BY <1>2, FS_EmptySet
  <2> DEFINE F == [s \in D(0) |-> 0]
  <2>2. F \in [D(0) -> Int] /\ \A s \in D(0) : F[s] = Step(F, s)
    BY <2>1
  <2>3. QED
    BY <2>2
<1>5. ASSUME NEW n \in Nat, Upto(n) PROVE Upto(n + 1)
  <2>1. PICK F \in [D(n) -> Int] : \A s \in D(n) : F[s] = Step(F, s)
    BY <1>5
  <2> DEFINE G == [s \in D(n + 1) |-> Step(F, s)]
  <2>2. \A s \in D(n + 1) : s # {} => s \ {c(s)} \in D(n)
    BY <1>2, <1>3
  <2>3. \A s \in D(n) : s \in D(n + 1)
    BY <1>2
  <2>4. G \in [D(n + 1) -> Int]
    BY <1>1, <2>2
  <2>5. \A s \in D(n) : G[s] = F[s]
    BY <2>1, <2>3
  <2>6. ASSUME NEW s \in D(n + 1) PROVE G[s] = Step(G, s)
    <3>1. CASE s = {}
      BY <3>1
    <3>2. CASE s # {}
      <4>1. G[s \ {c(s)}] = F[s \ {c(s)}]
        BY <2>2, <2>5, <3>2
      <4>2. G[s] = f[c(s)] + F[s \ {c(s)}]
        BY <3>2
      <4> HIDE DEF G
      <4>3. QED
        BY <3>2, <4>1, <4>2
    <3>3. QED
      BY <3>1, <3>2
  <2> HIDE DEF G
  <2>7. QED
    BY <2>4, <2>6
<1>6. ASSUME NEW T \in SUBSET S, \A U \in SUBSET T : U # T => U \in N PROVE T \in N
  <2>1. CASE T = {}
    BY <1>4, <2>1, FS_EmptySet
  <2>2. CASE T # {}
    <3>1. T \ {c(T)} \in N
      BY <1>1, <1>6, <2>2
    <3>2. Upto(Cardinality(T \ {c(T)}))
      BY <3>1
    <3>3. Cardinality(T \ {c(T)}) \in Nat /\ Cardinality(T) = Cardinality(T \ {c(T)}) + 1
      BY <1>2, <1>3, <2>2
    <3> HIDE DEF Upto
    <3>4. QED
      BY <1>5, <3>2, <3>3
  <2>3. QED
    BY <2>1, <2>2
<1>7. Upto(Cardinality(S))
  <2> HIDE DEF N
  <2>1. S \in N
    BY <1>6, SetInduction, Zenon
  <2>2. QED
    BY <2>1 DEF N
<1>8. D(Cardinality(S)) = SUBSET S
  BY FS_Subset
<1>9. PICK F \in [SUBSET S -> Int] : \A s \in SUBSET S : F[s] = Step(F, s)
  BY <1>7, <1>8
<1>10. F = [s \in SUBSET S |-> Step(F, s)]
  BY <1>9
<1>11. QED
  BY <1>10 DEF Fold, c

\* The recursion determines the function, whatever the set it starts from.
LEMMA FoldUnique ==
    ASSUME NEW S, IsFiniteSet(S), NEW T \in SUBSET S, NEW f, \A x \in S : f[x] \in Int,
           NEW F, Fold(f, S, F), NEW G, Fold(f, T, G)
    PROVE  G[T] = F[T]
<1> DEFINE c(s) == CHOOSE x \in s : TRUE
           P == {s \in SUBSET T : G[s] = F[s]}
<1>1. ASSUME NEW s \in SUBSET T
      PROVE  /\ G[s] = IF s = {} THEN 0 ELSE f[c(s)] + G[s \ {c(s)}]
             /\ F[s] = IF s = {} THEN 0 ELSE f[c(s)] + F[s \ {c(s)}]
  <2>1. G[s] = IF s = {} THEN 0 ELSE f[c(s)] + G[s \ {c(s)}]
    BY Zenon DEF Fold
  <2>2. s \in SUBSET S
    OBVIOUS
  <2>3. F[s] = IF s = {} THEN 0 ELSE f[c(s)] + F[s \ {c(s)}]
    BY <2>2, Zenon DEF Fold
  <2>4. QED
    BY <2>1, <2>3
<1>2. \A s \in SUBSET T : s # {} => c(s) \in s
  OBVIOUS
<1> HIDE DEF c
<1>3. ASSUME NEW s \in SUBSET T, \A u \in SUBSET s : u # s => u \in P PROVE s \in P
  <2>1. CASE s = {}
    BY <1>1, <2>1
  <2>2. CASE s # {}
    <3>1. s \ {c(s)} \in P
      BY <1>2, <1>3, <2>2
    <3>2. QED
      BY <1>1, <2>2, <3>1
  <2>3. QED
    BY <2>1, <2>2
<1>4. T \in P
  <2> HIDE DEF P
  <2>1. IsFiniteSet(T)
    BY FS_Subset
  <2>2. QED
    BY <1>3, <2>1, SetInduction, Zenon
<1>5. QED
  BY <1>4

\* The sum over the empty set.
LEMMA SumEmpty == ASSUME NEW f PROVE Sum(f, {}) = 0
<1> DEFINE F == CHOOSE F : Fold(f, {}, F)
<1>1. PICK G : Fold(f, {}, G)
  BY FS_EmptySet, FoldExists
<1>2. Fold(f, {}, F)
  BY <1>1, Zenon
<1> HIDE DEF F
<1>3. F[{}] = 0
  BY <1>2, Zenon DEF Fold
<1>4. QED
  BY <1>3, SumMeaning DEF F

\* The sum takes the elements in the order of CHOOSE.
LEMMA SumChoice ==
    ASSUME NEW S, IsFiniteSet(S), NEW f, \A x \in S : f[x] \in Int, S # {}
    PROVE  Sum(f, S) = f[CHOOSE x \in S : TRUE] + Sum(f, S \ {CHOOSE x \in S : TRUE})
<1> DEFINE T == S \ {CHOOSE x \in S : TRUE}
           F == CHOOSE F : Fold(f, S, F)
           G == CHOOSE G : Fold(f, T, G)
<1>1. IsFiniteSet(T) /\ T \in SUBSET S /\ \A x \in T : f[x] \in Int
  BY FS_RemoveElement
<1>2. Fold(f, S, F) /\ Fold(f, T, G)
  <2> HIDE DEF T
  <2>1. (\E H : Fold(f, S, H)) /\ (\E H : Fold(f, T, H))
    BY <1>1, FoldExists
  <2>2. QED
    BY <2>1, Zenon
<1> HIDE DEF F, G
<1>3. F[S] = f[CHOOSE x \in S : TRUE] + F[T]
  <2>1. S \in SUBSET S
    OBVIOUS
  <2>2. F[S] = IF S = {} THEN 0
               ELSE f[CHOOSE x \in S : TRUE] + F[S \ {CHOOSE x \in S : TRUE}]
    BY <1>2, <2>1, Zenon DEF Fold
  <2>3. QED
    BY <2>2
<1> HIDE DEF T
<1>4. G[T] = F[T]
  BY <1>1, <1>2, FoldUnique
<1>5. Sum(f, S) = F[S] /\ Sum(f, T) = G[T]
  BY SumMeaning DEF F, G
<1>6. QED
  BY <1>3, <1>4, <1>5 DEF T

\* A sum of integers is one.
LEMMA SumType ==
    ASSUME NEW S, IsFiniteSet(S), NEW f, \A x \in S : f[x] \in Int
    PROVE  Sum(f, S) \in Int
<1> DEFINE F == CHOOSE F : Fold(f, S, F)
<1>1. PICK G \in [SUBSET S -> Int] : Fold(f, S, G)
  BY FoldExists
<1>2. Fold(f, S, F)
  BY <1>1, Zenon
<1> HIDE DEF F
<1>3. G[S] = F[S]
  BY <1>1, <1>2, FoldUnique
<1>4. G[S] \in Int
  BY <1>1
<1>5. QED
  BY <1>3, <1>4, SumMeaning DEF F

\* The sum does not depend on the order: any element can be taken first.
LEMMA SumRemove ==
    ASSUME NEW S, IsFiniteSet(S), NEW f, \A x \in S : f[x] \in Int, NEW y \in S
    PROVE  Sum(f, S) = f[y] + Sum(f, S \ {y})
<1> DEFINE P == {T \in SUBSET S : \A z \in T : Sum(f, T) = f[z] + Sum(f, T \ {z})}
<1>1. ASSUME NEW T \in SUBSET S, \A U \in SUBSET T : U # T => U \in P PROVE T \in P
  <2> SUFFICES ASSUME NEW z \in T PROVE Sum(f, T) = f[z] + Sum(f, T \ {z})
    OBVIOUS
  <2>1. \A U \in SUBSET S : Sum(f, U) \in Int
    BY FS_Subset, SumType
  <2>2. PICK x \in T : Sum(f, T) = f[x] + Sum(f, T \ {x})
    <3>1. IsFiniteSet(T) /\ T # {} /\ \A x \in T : f[x] \in Int
      BY FS_Subset
    <3>2. (CHOOSE x \in T : TRUE) \in T
      OBVIOUS
    <3>3. QED
      BY <3>1, <3>2, SumChoice
  <2>3. CASE x = z
    BY <2>2, <2>3
  <2>4. CASE x # z
    <3>1. T \ {x} \in P /\ T \ {z} \in P
      <4>1. T \ {x} \in SUBSET T /\ T \ {x} # T /\ T \ {z} \in SUBSET T /\ T \ {z} # T
        OBVIOUS
      <4> HIDE DEF P
      <4>2. QED
        BY <1>1, <4>1
    <3>2. Sum(f, T \ {x}) = f[z] + Sum(f, (T \ {x}) \ {z})
      BY <2>4, <3>1
    <3>3. Sum(f, T \ {z}) = f[x] + Sum(f, (T \ {z}) \ {x})
      BY <2>4, <3>1
    <3>4. (T \ {x}) \ {z} = (T \ {z}) \ {x}
      OBVIOUS
    <3>5. Sum(f, T \ {z}) = f[x] + Sum(f, (T \ {x}) \ {z})
      BY <3>3, <3>4, Zenon
    <3>6. f[x] \in Int /\ f[z] \in Int /\ Sum(f, (T \ {x}) \ {z}) \in Int
      BY <2>1
    <3> HIDE DEF P
    <3>7. QED
      BY <2>2, <3>2, <3>5, <3>6
  <2>5. QED
    BY <2>3, <2>4
<1>2. S \in P
  <2> HIDE DEF P
  <2>1. QED
    BY <1>1, SetInduction, Zenon
<1>3. QED
  BY <1>2

\* The other form of induction: one element at a time.
LEMMA OneAtATime ==
    ASSUME NEW S, IsFiniteSet(S), NEW P, {} \in P,
           \A T \in SUBSET S : \A x \in S \ T : T \in P => T \cup {x} \in P
    PROVE  S \in P
<1>1. ASSUME NEW T \in SUBSET S, \A U \in SUBSET T : U # T => U \in P PROVE T \in P
  <2>1. CASE T # {}
    <3>1. PICK x \in T : TRUE
      BY <2>1
    <3>2. T \ {x} \in P
      BY <1>1
    <3>3. T = (T \ {x}) \cup {x}
      OBVIOUS
    <3>4. QED
      BY <3>2, <3>3
  <2>2. QED
    BY <2>1
<1>2. QED
  BY <1>1, SetInduction, Zenon

\* One more element.
LEMMA SumAdd ==
    ASSUME NEW S, IsFiniteSet(S), NEW f, NEW y, y \notin S,
           \A x \in S \cup {y} : f[x] \in Int
    PROVE  /\ Sum(f, S \cup {y}) = f[y] + Sum(f, S)
           /\ f[y] \in Int /\ Sum(f, S) \in Int
<1>1. IsFiniteSet(S \cup {y}) /\ (S \cup {y}) \ {y} = S /\ y \in S \cup {y}
  BY FS_AddElement
<1>2. Sum(f, S \cup {y}) = f[y] + Sum(f, (S \cup {y}) \ {y})
  BY <1>1, SumRemove
<1>3. QED
  BY <1>1, <1>2, SumType

\* A sum of natural numbers is one.
LEMMA SumNat ==
    ASSUME NEW S, IsFiniteSet(S), NEW f, \A x \in S : f[x] \in Nat
    PROVE  Sum(f, S) \in Nat
<1> DEFINE P == {T \in SUBSET S : Sum(f, T) \in Nat}
<1>1. {} \in P
  BY SumEmpty
<1>2. ASSUME NEW T \in SUBSET S, NEW x \in S \ T, T \in P PROVE T \cup {x} \in P
  <2>1. Sum(f, T \cup {x}) = f[x] + Sum(f, T)
    <3>1. IsFiniteSet(T) /\ x \notin T /\ \A z \in T \cup {x} : f[z] \in Int
      BY FS_Subset
    <3> HIDE DEF P
    <3>2. QED
      BY <3>1, SumAdd
  <2>2. QED
    BY <1>2, <2>1
<1>3. S \in P
  <2> HIDE DEF P
  <2>1. QED
    BY <1>1, <1>2, OneAtATime, Zenon
<1>4. QED
  BY <1>3

\* It is zero only if each of them is.
LEMMA SumZero ==
    ASSUME NEW S, IsFiniteSet(S), NEW f, \A x \in S : f[x] \in Nat,
           Sum(f, S) = 0, NEW y \in S
    PROVE  f[y] = 0
<1>1. Sum(f, S) = f[y] + Sum(f, S \ {y})
  BY SumRemove
<1>2. Sum(f, S \ {y}) \in Nat
  BY FS_RemoveElement, SumNat
<1>3. QED
  BY <1>1, <1>2

\* The sum of a sum of two functions.
LEMMA SumPlus ==
    ASSUME NEW S, IsFiniteSet(S), NEW f, NEW g, NEW h,
           \A x \in S : g[x] \in Int /\ h[x] \in Int /\ f[x] = g[x] + h[x]
    PROVE  Sum(f, S) = Sum(g, S) + Sum(h, S)
<1> DEFINE P == {T \in SUBSET S : Sum(f, T) = Sum(g, T) + Sum(h, T)}
<1>1. {} \in P
  BY SumEmpty
<1>2. ASSUME NEW T \in SUBSET S, NEW x \in S \ T, T \in P PROVE T \cup {x} \in P
  <2>1. /\ Sum(f, T \cup {x}) = f[x] + Sum(f, T)
        /\ Sum(g, T \cup {x}) = g[x] + Sum(g, T) /\ Sum(g, T) \in Int
        /\ Sum(h, T \cup {x}) = h[x] + Sum(h, T) /\ Sum(h, T) \in Int
    <3>1. /\ IsFiniteSet(T) /\ x \notin T
          /\ \A z \in T \cup {x} : f[z] \in Int /\ g[z] \in Int /\ h[z] \in Int
      BY FS_Subset
    <3> HIDE DEF P
    <3>2. QED
      BY <3>1, SumAdd
  <2>2. f[x] = g[x] + h[x] /\ g[x] \in Int /\ h[x] \in Int
    OBVIOUS
  <2>3. Sum(f, T) = Sum(g, T) + Sum(h, T)
    BY <1>2
  <2>4. Sum(f, T \cup {x}) = Sum(g, T \cup {x}) + Sum(h, T \cup {x})
    BY <2>1, <2>2, <2>3
  <2>5. QED
    BY <2>4
<1>3. S \in P
  <2> HIDE DEF P
  <2>1. QED
    BY <1>1, <1>2, OneAtATime, Zenon
<1>4. QED
  BY <1>3

\* A sum depends on the function only at the elements of the set.
LEMMA SumSame ==
    ASSUME NEW S, IsFiniteSet(S), NEW f, NEW g, \A x \in S : g[x] \in Int /\ f[x] = g[x]
    PROVE  Sum(f, S) = Sum(g, S)
<1> DEFINE P == {T \in SUBSET S : Sum(f, T) = Sum(g, T)}
<1>1. {} \in P
  BY SumEmpty
<1>2. ASSUME NEW T \in SUBSET S, NEW x \in S \ T, T \in P PROVE T \cup {x} \in P
  <2>1. /\ Sum(f, T \cup {x}) = f[x] + Sum(f, T)
        /\ Sum(g, T \cup {x}) = g[x] + Sum(g, T)
    BY FS_Subset, SumAdd
  <2>2. QED
    BY <1>2, <2>1
<1>3. S \in P
  <2> HIDE DEF P
  <2>1. QED
    BY <1>1, <1>2, OneAtATime, Zenon
<1>4. QED
  BY <1>3

\* The sum over two sets without a common element.
LEMMA SumUnion ==
    ASSUME NEW S, IsFiniteSet(S), NEW Z, IsFiniteSet(Z), S \cap Z = {}, NEW f,
           \A x \in S \cup Z : f[x] \in Int
    PROVE  Sum(f, S \cup Z) = Sum(f, S) + Sum(f, Z)
<1> DEFINE P == {T \in SUBSET S : Sum(f, T \cup Z) = Sum(f, T) + Sum(f, Z)}
<1>1. Sum(f, Z) \in Int
  BY SumType
<1>2. {} \in P
  BY <1>1, SumEmpty
<1>3. ASSUME NEW T \in SUBSET S, NEW x \in S \ T, T \in P PROVE T \cup {x} \in P
  <2>1. IsFiniteSet(T) /\ IsFiniteSet(T \cup Z) /\ x \notin T \cup Z
    BY FS_Subset, FS_Union
  <2>2. (T \cup Z) \cup {x} = (T \cup {x}) \cup Z
    OBVIOUS
  <2>3. /\ Sum(f, T \cup {x}) = f[x] + Sum(f, T) /\ Sum(f, T) \in Int /\ f[x] \in Int
        /\ Sum(f, (T \cup Z) \cup {x}) = f[x] + Sum(f, T \cup Z)
    BY <2>1, SumAdd
  <2>4. Sum(f, T \cup Z) = Sum(f, T) + Sum(f, Z)
    BY <1>3
  <2>5. Sum(f, (T \cup {x}) \cup Z) = f[x] + Sum(f, T \cup Z)
    BY <2>2, <2>3
  <2>6. Sum(f, (T \cup {x}) \cup Z) = Sum(f, T \cup {x}) + Sum(f, Z)
    BY <1>1, <2>3, <2>4, <2>5
  <2>7. QED
    BY <2>6
<1>4. S \in P
  <2> HIDE DEF P
  <2>1. QED
    BY <1>2, <1>3, OneAtATime, Zenon
<1>5. QED
  BY <1>4

\* Counting is adding ones.
LEMMA SumOnes ==
    ASSUME NEW S, IsFiniteSet(S), NEW A, NEW f,
           \A x \in S : f[x] = IF x \in A THEN 1 ELSE 0
    PROVE  Sum(f, S) = Cardinality(S \cap A)
<1> DEFINE P == {T \in SUBSET S : Sum(f, T) = Cardinality(T \cap A)}
<1>1. {} \in P
  <2>1. {} \cap A = {}
    OBVIOUS
  <2>2. QED
    BY <2>1, SumEmpty, FS_EmptySet
<1>2. ASSUME NEW T \in SUBSET S, NEW x \in S \ T, T \in P PROVE T \cup {x} \in P
  <2>1. Sum(f, T \cup {x}) = f[x] + Sum(f, T)
    <3>1. IsFiniteSet(T) /\ x \notin T /\ \A z \in T \cup {x} : f[z] \in Int
      BY FS_Subset
    <3> HIDE DEF P
    <3>2. QED
      BY <3>1, SumAdd
  <2>2. Sum(f, T) = Cardinality(T \cap A)
    BY <1>2
  <2>3. IsFiniteSet(T \cap A) /\ Cardinality(T \cap A) \in Nat
    BY FS_Subset, FS_CardinalityType
  <2>4. CASE x \in A
    <3>1. (T \cup {x}) \cap A = (T \cap A) \cup {x} /\ x \notin T \cap A
      BY <2>4
    <3>2. Cardinality((T \cup {x}) \cap A) = Cardinality(T \cap A) + 1
      BY <2>3, <3>1, FS_AddElement
    <3>3. f[x] = 1
      BY <2>4
    <3>4. Sum(f, T \cup {x}) = Cardinality((T \cup {x}) \cap A)
      BY <2>1, <2>2, <2>3, <3>2, <3>3
    <3>5. QED
      BY <3>4
  <2>5. CASE x \notin A
    <3>1. (T \cup {x}) \cap A = T \cap A
      BY <2>5
    <3>2. f[x] = 0
      BY <2>5
    <3>3. Sum(f, T \cup {x}) = Cardinality(T \cap A)
      BY <2>1, <2>2, <2>3, <3>2
    <3>4. QED
      BY <3>1, <3>3
  <2>6. QED
    BY <2>4, <2>5
<1>3. S \in P
  <2> HIDE DEF P
  <2>1. QED
    BY <1>1, <1>2, OneAtATime, Zenon
<1>4. QED
  BY <1>3

\* The elements can be renamed.
LEMMA SumImage ==
    ASSUME NEW I, IsFiniteSet(I), NEW h, \A i, j \in I : h[i] = h[j] => i = j,
           NEW f, NEW g, \A i \in I : g[i] \in Int /\ g[i] = f[h[i]]
    PROVE  /\ IsFiniteSet({h[i] : i \in I})
           /\ Sum(g, I) = Sum(f, {h[i] : i \in I})
           /\ Cardinality({h[i] : i \in I}) = Cardinality(I)
<1> DEFINE image(T) == {h[i] : i \in T}
           P == {T \in SUBSET I : /\ IsFiniteSet(image(T))
                                  /\ Sum(g, T) = Sum(f, image(T))
                                  /\ Cardinality(image(T)) = Cardinality(T)}
<1>1. {} \in P
  <2>1. image({}) = {}
    OBVIOUS
  <2>2. QED
    BY <2>1, SumEmpty, FS_EmptySet
<1>2. ASSUME NEW T \in SUBSET I, NEW x \in I \ T, T \in P PROVE T \cup {x} \in P
  <2>1. image(T \cup {x}) = image(T) \cup {h[x]} /\ h[x] \notin image(T)
    OBVIOUS
  <2>2. \A y \in image(T) \cup {h[x]} : f[y] \in Int
    OBVIOUS
  <2>3. IsFiniteSet(T) /\ x \notin T /\ \A z \in T \cup {x} : g[z] \in Int
    BY FS_Subset
  <2>4. /\ IsFiniteSet(image(T)) /\ Sum(g, T) = Sum(f, image(T))
        /\ Cardinality(image(T)) = Cardinality(T)
    BY <1>2
  <2>5. g[x] = f[h[x]]
    OBVIOUS
  <2> HIDE DEF image
  <2>6. Sum(g, T \cup {x}) = g[x] + Sum(g, T)
    BY <2>3, SumAdd
  <2>7. Sum(f, image(T) \cup {h[x]}) = f[h[x]] + Sum(f, image(T))
    BY <2>1, <2>2, <2>4, SumAdd
  <2>8. /\ IsFiniteSet(image(T \cup {x}))
        /\ Cardinality(image(T \cup {x})) = Cardinality(T \cup {x})
    <3>1. Cardinality(T \cup {x}) = Cardinality(T) + 1
      BY <2>3, FS_AddElement
    <3>2. /\ IsFiniteSet(image(T) \cup {h[x]})
          /\ Cardinality(image(T) \cup {h[x]}) = Cardinality(image(T)) + 1
      BY <2>1, <2>4, FS_AddElement
    <3>3. QED
      BY <2>1, <2>4, <3>1, <3>2
  <2>9. Sum(g, T \cup {x}) = Sum(f, image(T \cup {x}))
    BY <2>1, <2>4, <2>5, <2>6, <2>7
  <2>10. T \cup {x} \in SUBSET I
    OBVIOUS
  <2>11. QED
    BY <2>8, <2>9, <2>10
<1>3. I \in P
  <2> HIDE DEF P
  <2>1. QED
    BY <1>1, <1>2, OneAtATime, Zenon
<1>4. QED
  BY <1>3

\* The sum over the elements of a subset.
LEMMA SumOnly ==
    ASSUME NEW S, IsFiniteSet(S), NEW A, NEW f, NEW h,
           \A x \in S : f[x] \in Int /\ h[x] = IF x \in A THEN f[x] ELSE 0
    PROVE  Sum(h, S) = Sum(f, S \cap A)
<1> DEFINE P == {T \in SUBSET S : Sum(h, T) = Sum(f, T \cap A)}
<1>1. {} \in P
  <2>1. {} \cap A = {}
    OBVIOUS
  <2>2. QED
    BY <2>1, SumEmpty
<1>2. ASSUME NEW T \in SUBSET S, NEW x \in S \ T, T \in P PROVE T \cup {x} \in P
  <2>1. /\ IsFiniteSet(T) /\ x \notin T /\ \A z \in T \cup {x} : h[z] \in Int
        /\ IsFiniteSet(T \cap A) /\ x \notin T \cap A
        /\ \A z \in (T \cap A) \cup {x} : f[z] \in Int
    BY FS_Subset
  <2>2. Sum(h, T) = Sum(f, T \cap A)
    BY <1>2
  <2> HIDE DEF P
  <2>3. Sum(h, T \cup {x}) = h[x] + Sum(h, T)
    BY <2>1, SumAdd
  <2>4. Sum(f, T \cap A) \in Int
    BY <2>1, SumType
  <2>5. CASE x \in A
    <3>1. (T \cup {x}) \cap A = (T \cap A) \cup {x} /\ h[x] = f[x]
      BY <2>5
    <3>2. Sum(f, (T \cap A) \cup {x}) = f[x] + Sum(f, T \cap A)
      BY <2>1, SumAdd
    <3>3. Sum(h, T \cup {x}) = Sum(f, (T \cup {x}) \cap A)
      BY <2>2, <2>3, <3>1, <3>2
    <3>4. QED
      BY <3>3 DEF P
  <2>6. CASE x \notin A
    <3>1. (T \cup {x}) \cap A = T \cap A /\ h[x] = 0
      BY <2>6
    <3>2. Sum(h, T \cup {x}) = Sum(f, T \cap A)
      BY <2>2, <2>3, <2>4, <3>1
    <3>3. Sum(h, T \cup {x}) = Sum(f, (T \cup {x}) \cap A)
      BY <3>1, <3>2
    <3>4. QED
      BY <3>3 DEF P
  <2>7. QED
    BY <2>5, <2>6
<1>3. S \in P
  <2> HIDE DEF P
  <2>1. QED
    BY <1>1, <1>2, OneAtATime, Zenon
<1>4. QED
  BY <1>3

-----------------------------------------------------------------------------
(***************************************************************************)
(* The inductive invariant.                                                *)
(***************************************************************************)
\* What is known of a group, or of what SCAN returned of a key.
Figures == [count : Nat, memoryUsage : Nat]

\* Groups with their figures.
IsGroups(f) == f \in [DOMAIN f -> Figures] /\ DOMAIN f \subseteq GroupNames

KeysOf(g) == {k \in Keys : Group[k] = g}

\* The figures of a group, 0 if there is no such group.
In(f, g, field) == IF g \in DOMAIN f THEN f[g][field] ELSE 0

\* The figures t of the keys K added up.
Added(t, K, field) == Sum([k \in Keys |-> t[k][field]], K)

\* SCAN has returned no key whose usage is denied.
NoneDenied(t) == \A k \in Denied : t[k].count = 0

\* The groups f say what SCAN returned of the keys, which is t.
Exact(f, t) ==
    \A g \in GroupNames :
        /\ In(f, g, "count") = Added(t, KeysOf(g), "count")
        /\ NoneDenied(t) => In(f, g, "memoryUsage") = Added(t, KeysOf(g), "memoryUsage")

\* The types, with those of the groups and of the history.
TypeInv ==
    /\ TypeOK
    /\ IsGroups(allGroups)
    /\ \A d \in DOMAIN metrics : IsGroups(metrics[d])
    /\ truth \in [Dbs -> [Keys -> Figures]]

\* The loops: where they are, and what the end of an iteration means.
Loops ==
    /\ pc \in {"batch", "aggregate"} => db \in Dbs
    /\ pc = "select" => batches = 0
    /\ pc = "batch" => batches < MaxBatches
    /\ pc = "aggregate" => lasting[db] \subseteq visited \/ db \in wide
    /\ \A d \in DOMAIN metrics : d < db

\* Nothing was returned of a database that the loop has not reached.
Ahead ==
    \A d \in Dbs, k \in Keys :
        d > db \/ (d = db /\ pc = "select") => truth[d][k] = [count |-> 0, memoryUsage |-> 0]

\* The groups at hand are exact, and a key that was visited has been counted.
AtHand ==
    pc \in {"batch", "aggregate"} =>
        /\ Exact(allGroups, truth[db])
        /\ \A k \in visited : truth[db][k].count > 0

\* So are the groups that have been stored.
StoredExact == \A d \in DOMAIN metrics : Exact(metrics[d], truth[d])

\* What is kept of a database with too many groups.
Folded ==
    \A d \in DOMAIN overflowed :
        /\ Cardinality(DOMAIN metrics[d]) > MaxDistinctKeyGroups
        /\ overflowed[d] = [top |-> Top(metrics[d]), aggregate |-> Aggregate(metrics[d])]

\* What is exported.
Exported ==
    pc = "done" => /\ series = UNION {Registered(d) : d \in DOMAIN metrics}
                   /\ DOMAIN distinct = DOMAIN metrics

IInv == TypeInv /\ Loops /\ Ahead /\ AtHand /\ StoredExact /\ Folded /\ Exported

-----------------------------------------------------------------------------
(***************************************************************************)
(* The script on one batch.                                                *)
(***************************************************************************)
\* Induction up to a number.
LEMMA UpTo ==
    ASSUME NEW n \in Nat, NEW Q, 0 \in Q, \A i \in 0 .. n - 1 : i \in Q => i + 1 \in Q
    PROVE  \A i \in 0 .. n : i \in Q
<1> DEFINE Bad == {i \in 0 .. n : i \notin Q}
<1> SUFFICES ASSUME Bad # {} PROVE FALSE
  OBVIOUS
<1>1. Bad \subseteq Nat
  OBVIOUS
<1>2. PICK m \in Bad : \A i \in Bad : ~(<<i, m>> \in OpToRel(<, Nat))
  <2> HIDE DEF Bad
  <2>1. QED
    BY <1>1, NatLessThanWellFounded, WFMin, Zenon
<1>3. m # 0 /\ m - 1 \in 0 .. n - 1 /\ m - 1 \in Nat /\ m \in Nat
  OBVIOUS
<1>4. m - 1 \notin Q
  BY <1>3
<1>5. m - 1 \in Bad
  BY <1>3, <1>4
<1>6. <<m - 1, m>> \in OpToRel(<, Nat)
  BY <1>3, SMT DEF OpToRel
<1>7. QED
  BY <1>2, <1>5, <1>6

\* The variable usage is a number, and the usage of the key where it is allowed.
LEMMA UsageFacts ==
    ASSUME NEW d \in Dbs, store[d] \in [Keys -> Nat], NEW n \in Nat,
           NEW batch \in [1 .. n -> Keys], Len(batch) = n
    PROVE  \A i \in 1 .. n :
              /\ UsageAt(d, batch)[i] \in Nat
              /\ batch[i] \notin Denied => UsageAt(d, batch)[i] = store[d][batch[i]]
<1> DEFINE Body(u, i) == IF i = 0 THEN 0
                         ELSE IF batch[i] \in Denied THEN u[i - 1] ELSE store[d][batch[i]]
           Is(u) == u = [i \in 0 .. n |-> Body(u, i)]
           Q == {m \in 0 .. n : \E u \in [0 .. m -> Nat] : \A i \in 0 .. m : u[i] = Body(u, i)}
<1>1. 0 \in Q
  <2> DEFINE u == [i \in 0 .. 0 |-> 0]
  <2>1. u \in [0 .. 0 -> Nat] /\ \A i \in 0 .. 0 : u[i] = Body(u, i)
    OBVIOUS
  <2> HIDE DEF u
  <2>2. \E z \in [0 .. 0 -> Nat] : \A i \in 0 .. 0 : z[i] = Body(z, i)
    BY <2>1, Zenon
  <2>3. QED
    BY <2>2
<1>2. ASSUME NEW m \in 0 .. n - 1, m \in Q PROVE m + 1 \in Q
  <2>1. PICK u \in [0 .. m -> Nat] : \A i \in 0 .. m : u[i] = Body(u, i)
    BY <1>2
  <2> DEFINE v == [i \in 0 .. m + 1 |-> IF i <= m THEN u[i] ELSE Body(u, i)]
  <2>2. \A i \in 0 .. m : v[i] = u[i]
    OBVIOUS
  <2>3. v \in [0 .. m + 1 -> Nat]
    OBVIOUS
  <2>4. ASSUME NEW i \in 0 .. m + 1 PROVE v[i] = Body(v, i)
    <3>1. v[i] = Body(u, i)
      BY <2>1
    <3>2. i # 0 => v[i - 1] = u[i - 1]
      BY <2>2
    <3> HIDE DEF v
    <3>3. QED
      BY <3>1, <3>2
  <2> HIDE DEF v
  <2>5. \E z \in [0 .. m + 1 -> Nat] : \A i \in 0 .. m + 1 : z[i] = Body(z, i)
    BY <2>3, <2>4, Zenon
  <2>6. m + 1 \in 0 .. n
    OBVIOUS
  <2>7. QED
    BY <2>5, <2>6, Zenon
<1>3. n \in Q
  <2> HIDE DEF Q
  <2>1. \A i \in 0 .. n : i \in Q
    BY <1>1, <1>2, UpTo
  <2>2. QED
    BY <2>1
<1>4. PICK u \in [0 .. n -> Nat] : Is(u)
  <2>1. PICK u \in [0 .. n -> Nat] : \A i \in 0 .. n : u[i] = Body(u, i)
    BY <1>3
  <2>2. u = [i \in 0 .. n |-> Body(u, i)]
    BY <2>1
  <2>3. QED
    BY <2>2
<1> DEFINE w == CHOOSE w : Is(w)
<1>5. UsageAt(d, batch) = w
  BY Zenon DEF UsageAt
<1>6. Is(w)
  <2> HIDE DEF Is
  <2>1. QED
    BY <1>4, Zenon
<1> HIDE DEF w
<1>7. \A i \in 0 .. n : w[i] = Body(w, i)
  BY <1>6, Zenon
<1>8. \A i \in 0 .. n : w[i] \in Nat
  <2> DEFINE R == {i \in 0 .. n : w[i] \in Nat}
  <2>1. 0 \in R
    BY <1>7
  <2>2. ASSUME NEW i \in 0 .. n - 1, i \in R PROVE i + 1 \in R
    <3>1. i + 1 \in 0 .. n /\ i + 1 # 0 /\ (i + 1) - 1 = i /\ w[i] \in Nat
      BY <2>2
    <3>2. w[i + 1] = Body(w, i + 1)
      BY <1>7, <3>1
    <3>3. QED
      BY <3>1, <3>2
  <2> HIDE DEF R
  <2>3. \A i \in 0 .. n : i \in R
    BY <2>1, <2>2, UpTo
  <2>4. QED
    BY <2>3 DEF R
<1>9. ASSUME NEW i \in 1 .. n, batch[i] \notin Denied PROVE w[i] = store[d][batch[i]]
  BY <1>7, <1>9
<1>10. \A i \in 1 .. n : i \in 0 .. n
  OBVIOUS
<1>11. QED
  BY <1>5, <1>8, <1>9, <1>10, Zenon

\* A batch lists the keys of S, each once.
LEMMA BatchLists ==
    ASSUME NEW S, IsFiniteSet(S), NEW batch \in SetToSeqs(S)
    PROVE  /\ Cardinality(S) \in Nat
           /\ batch \in [1 .. Cardinality(S) -> S] /\ Len(batch) = Cardinality(S)
           /\ \A i, j \in 1 .. Cardinality(S) : batch[i] = batch[j] => i = j
           /\ S = {batch[i] : i \in 1 .. Cardinality(S)}
<1> DEFINE n == Cardinality(S)
<1>1. n \in Nat
  BY FS_CardinalityType
<1>2. batch \in [1 .. n -> S] /\ \A i, j \in 1 .. n : batch[i] = batch[j] => i = j
  BY Zenon DEF SetToSeqs
<1> HIDE DEF n
<1>3. Len(batch) = n
  BY <1>1, <1>2
<1>4. batch \in Injection(1 .. n, S)
  BY <1>2, Zenon DEF Injection, IsInjective
<1>5. Cardinality(1 .. n) = n
  BY <1>1, FS_Interval
<1>6. batch \in Surjection(1 .. n, S)
  BY <1>4, <1>5, FS_Injection DEF n
<1>7. \A k \in S : \E i \in 1 .. n : batch[i] = k
  BY <1>6, Zenon DEF Surjection
<1>8. S = {batch[i] : i \in 1 .. n}
  BY <1>2, <1>7
<1>9. QED
  BY <1>1, <1>2, <1>3, <1>8 DEF n

\* There are finitely many groups.
LEMMA NamesFinite == IsFiniteSet(GroupNames)
<1>1. Group \in [Keys -> GroupNames] /\ \A g \in GroupNames : \E k \in Keys : Group[k] = g
  BY GroupAssumption DEF GroupNames
<1>2. Group \in Surjection(Keys, GroupNames)
  BY <1>1, Zenon DEF Surjection
<1>3. QED
  BY <1>2, KeysAssumption, FS_Surjection, Zenon

\* A sum over the keys can be taken group by group.
LEMMA SumByGroup ==
    ASSUME NEW f, \A k \in Keys : f[k] \in Int,
           NEW F, \A g \in GroupNames : F[g] = Sum(f, KeysOf(g))
    PROVE  Sum(F, GroupNames) = Sum(f, Keys)
<1> DEFINE of(T) == {k \in Keys : Group[k] \in T}
           P == {T \in SUBSET GroupNames : Sum(F, T) = Sum(f, of(T))}
<1>1. {} \in P
  <2>1. of({}) = {}
    OBVIOUS
  <2>2. QED
    BY <2>1, SumEmpty
<1>2. ASSUME NEW T \in SUBSET GroupNames, NEW x \in GroupNames \ T, T \in P
      PROVE  T \cup {x} \in P
  <2>1. of(T \cup {x}) = of(T) \cup KeysOf(x) /\ of(T) \cap KeysOf(x) = {}
    BY DEF KeysOf
  <2>2. \A g : IsFiniteSet(KeysOf(g)) /\ \A k \in KeysOf(g) : f[k] \in Int
    BY KeysAssumption, FS_Subset DEF KeysOf
  <2>3. IsFiniteSet(of(T)) /\ \A k \in of(T) : f[k] \in Int
    BY KeysAssumption, FS_Subset
  <2>4. Sum(F, T) = Sum(f, of(T))
    BY <1>2
  <2> HIDE DEF of, P
  <2>5. IsFiniteSet(T) /\ x \notin T /\ \A z \in T \cup {x} : F[z] \in Int
    BY <2>2, NamesFinite, FS_Subset, SumType
  <2>6. Sum(F, T \cup {x}) = F[x] + Sum(F, T)
    BY <2>5, SumAdd
  <2>7. Sum(f, of(T) \cup KeysOf(x)) = Sum(f, of(T)) + Sum(f, KeysOf(x))
    BY <2>1, <2>2, <2>3, SumUnion
  <2>8. Sum(f, of(T)) \in Int /\ Sum(f, KeysOf(x)) \in Int
    BY <2>2, <2>3, SumType
  <2>9. Sum(F, T \cup {x}) = Sum(f, of(T \cup {x}))
    <3>1. F[x] = Sum(f, KeysOf(x))
      OBVIOUS
    <3>2. Sum(f, of(T \cup {x})) = Sum(f, of(T)) + Sum(f, KeysOf(x))
      BY <2>1, <2>7
    <3>3. QED
      BY <2>4, <2>6, <2>8, <3>1, <3>2
  <2>10. QED
    BY <2>9 DEF P
<1>3. GroupNames \in P
  <2> HIDE DEF P
  <2>1. QED
    BY <1>1, <1>2, NamesFinite, OneAtATime, Zenon
<1>4. of(GroupNames) = Keys
  BY DEF GroupNames
<1>5. QED
  BY <1>3, <1>4

\* The members of Figures.
LEMMA FigureFacts ==
    /\ \A x \in Figures : x.count \in Nat /\ x.memoryUsage \in Nat
    /\ \A a, b \in Nat : [count |-> a, memoryUsage |-> b] \in Figures
BY DEF Figures

\* The groups of a batch.
LEMMA BatchFacts ==
    ASSUME NEW d \in Dbs, store[d] \in [Keys -> Nat], NEW S \in SUBSET Keys,
           NEW batch \in SetToSeqs(S)
    PROVE  /\ IsGroups(Groups(d, batch))
           /\ \A g \in DOMAIN Groups(d, batch) : Groups(d, batch)[g].count > 0
           /\ \A g \in GroupNames :
                 /\ In(Groups(d, batch), g, "count") = Cardinality(KeysOf(g) \cap S)
                 /\ S \cap Denied = {} =>
                       In(Groups(d, batch), g, "memoryUsage") = Sum(store[d], KeysOf(g) \cap S)
<1> DEFINE n == Cardinality(S)
           of(g) == {i \in 1 .. n : Group[batch[i]] = g}
           N == Groups(d, batch)
<1>1. IsFiniteSet(S)
  BY KeysAssumption, FS_Subset
<1>2. /\ n \in Nat /\ batch \in [1 .. n -> S] /\ Len(batch) = n
      /\ \A i, j \in 1 .. n : batch[i] = batch[j] => i = j
      /\ S = {batch[i] : i \in 1 .. n}
  BY <1>1, BatchLists
<1> HIDE DEF n
<1>3. batch \in [1 .. n -> Keys] /\ DOMAIN batch = 1 .. n
  BY <1>2
<1>4. \A i \in 1 .. n : /\ UsageAt(d, batch)[i] \in Nat
                        /\ batch[i] \notin Denied => UsageAt(d, batch)[i] = store[d][batch[i]]
  BY <1>2, <1>3, UsageFacts
<1>5. N = [g \in {Group[batch[i]] : i \in 1 .. n} |->
             [count |-> Cardinality(of(g)), memoryUsage |-> Sum(UsageAt(d, batch), of(g))]]
  BY <1>3, Zenon DEF Groups
<1>6. ASSUME NEW g
      PROVE  /\ IsFiniteSet(of(g)) /\ Cardinality(of(g)) \in Nat
             /\ Sum(UsageAt(d, batch), of(g)) \in Nat
             /\ of(g) # {} => Cardinality(of(g)) > 0
             /\ of(g) = {} => Cardinality(of(g)) = 0 /\ Sum(UsageAt(d, batch), of(g)) = 0
  <2>1. IsFiniteSet(1 .. n)
    BY <1>2, FS_Interval
  <2>2. IsFiniteSet(of(g)) /\ \A i \in of(g) : UsageAt(d, batch)[i] \in Nat
    BY <1>4, <2>1, FS_Subset
  <2> HIDE DEF of
  <2>3. Cardinality(of(g)) \in Nat /\ (Cardinality(of(g)) = 0 <=> of(g) = {})
    BY <2>2, FS_CardinalityType, FS_EmptySet
  <2>4. Sum(UsageAt(d, batch), of(g)) \in Nat
    BY <2>2, SumNat
  <2>5. of(g) = {} => Sum(UsageAt(d, batch), of(g)) = 0
    BY SumEmpty
  <2>6. QED
    BY <2>2, <2>3, <2>4, <2>5
<1>7. ASSUME NEW g \in GroupNames
      PROVE  /\ Cardinality(of(g)) = Cardinality(KeysOf(g) \cap S)
             /\ S \cap Denied = {} =>
                   Sum(UsageAt(d, batch), of(g)) = Sum(store[d], KeysOf(g) \cap S)
  <2>1. {batch[i] : i \in of(g)} = KeysOf(g) \cap S
    BY <1>2, <1>3 DEF KeysOf
  <2>2. \A i, j \in of(g) : batch[i] = batch[j] => i = j
    BY <1>2
  <2> DEFINE u == [i \in of(g) |-> store[d][batch[i]]]
  <2>3. \A i \in of(g) : u[i] \in Int /\ u[i] = store[d][batch[i]]
    BY <1>3
  <2>4. S \cap Denied = {} => \A i \in of(g) : u[i] \in Int /\ UsageAt(d, batch)[i] = u[i]
    BY <1>2, <1>3, <1>4
  <2> HIDE DEF of, u
  <2>5. Sum(u, of(g)) = Sum(store[d], {batch[i] : i \in of(g)})
        /\ Cardinality({batch[i] : i \in of(g)}) = Cardinality(of(g))
    BY <1>6, <2>2, <2>3, SumImage
  <2>6. S \cap Denied = {} => Sum(UsageAt(d, batch), of(g)) = Sum(u, of(g))
    BY <1>6, <2>4, SumSame
  <2>7. QED
    BY <2>1, <2>5, <2>6
<1>8. \A g : g \in DOMAIN N <=> of(g) # {}
  BY <1>5
<1>9. \A g \in DOMAIN N : /\ N[g] = [count |-> Cardinality(of(g)),
                                     memoryUsage |-> Sum(UsageAt(d, batch), of(g))]
                          /\ g \in GroupNames
  <2>1. \A g \in DOMAIN N : g \in GroupNames
    BY <1>3, <1>5 DEF GroupNames
  <2>2. QED
    BY <1>5, <2>1
<1>10. N \in [DOMAIN N -> Figures]
  <2>1. \A g \in DOMAIN N : N[g] \in Figures
    <3> SUFFICES ASSUME NEW g \in DOMAIN N PROVE N[g] \in Figures
      OBVIOUS
    <3>1. N[g] = [count |-> Cardinality(of(g)), memoryUsage |-> Sum(UsageAt(d, batch), of(g))]
      BY <1>9
    <3>2. Cardinality(of(g)) \in Nat /\ Sum(UsageAt(d, batch), of(g)) \in Nat
      BY <1>6
    <3> HIDE DEF N, of
    <3>3. QED
      BY <3>1, <3>2, FigureFacts
  <2>2. N = [g \in DOMAIN N |-> N[g]]
    BY <1>5
  <2> HIDE DEF N
  <2>3. QED
    BY <2>1, <2>2
<1> HIDE DEF N, of
<1>11. \A g : /\ In(N, g, "count") = Cardinality(of(g))
              /\ In(N, g, "memoryUsage") = Sum(UsageAt(d, batch), of(g))
  BY <1>6, <1>8, <1>9 DEF In
<1>12. \A g \in DOMAIN N : N[g].count > 0
  BY <1>6, <1>8, <1>9
<1>13. IsGroups(N)
  BY <1>9, <1>10 DEF IsGroups
<1>14. QED
  BY <1>7, <1>11, <1>12, <1>13 DEF N

\* Merging adds the figures.
LEMMA MergeFacts ==
    ASSUME NEW f, IsGroups(f), NEW new, IsGroups(new),
           \A g \in DOMAIN f : f[g].count > 0, \A g \in DOMAIN new : new[g].count > 0
    PROVE  /\ IsGroups(Merge(f, new)) /\ \A g \in DOMAIN Merge(f, new) : Merge(f, new)[g].count > 0
           /\ \A g : \A field \in {"count", "memoryUsage"} :
                 /\ In(Merge(f, new), g, field) = In(f, g, field) + In(new, g, field)
                 /\ In(f, g, field) \in Nat /\ In(new, g, field) \in Nat
<1> DEFINE M == Merge(f, new)
<1>1. /\ f \in [DOMAIN f -> Figures] /\ DOMAIN f \subseteq GroupNames
      /\ new \in [DOMAIN new -> Figures] /\ DOMAIN new \subseteq GroupNames
  BY DEF IsGroups
<1>2. M = [g \in DOMAIN M |-> M[g]] /\ DOMAIN M = DOMAIN f \cup DOMAIN new
  BY DEF Merge
<1>3. \A g \in DOMAIN M :
         M[g] = IF g \notin DOMAIN new THEN f[g]
                ELSE IF g \notin DOMAIN f THEN new[g]
                ELSE [count |-> f[g].count + new[g].count,
                      memoryUsage |-> f[g].memoryUsage + new[g].memoryUsage]
  BY DEF Merge
<1> HIDE DEF M
<1>4. \A g \in DOMAIN f : f[g] \in Figures
  BY <1>1
<1>5. \A g \in DOMAIN new : new[g] \in Figures
  BY <1>1
<1>6. ASSUME NEW g
      PROVE  /\ g \in DOMAIN f => f[g] \in Figures /\ f[g].count \in Nat /\ f[g].memoryUsage \in Nat
             /\ g \in DOMAIN new =>
                   new[g] \in Figures /\ new[g].count \in Nat /\ new[g].memoryUsage \in Nat
  BY <1>4, <1>5, FigureFacts
<1>7. ASSUME NEW g \in DOMAIN M PROVE M[g] \in Figures /\ M[g].count > 0
  <2>1. CASE g \notin DOMAIN new
    BY <1>2, <1>3, <1>6, <2>1
  <2>2. CASE g \notin DOMAIN f
    BY <1>2, <1>3, <1>6, <2>2
  <2>3. CASE g \in DOMAIN f /\ g \in DOMAIN new
    <3> DEFINE a == f[g].count + new[g].count
               b == f[g].memoryUsage + new[g].memoryUsage
    <3>1. a \in Nat /\ a > 0 /\ b \in Nat
      BY <1>6, <2>3
    <3>2. M[g] = [count |-> a, memoryUsage |-> b]
      BY <1>3, <2>3
    <3> HIDE DEF a, b
    <3>3. QED
      BY <3>1, <3>2, FigureFacts
  <2>4. QED
    BY <2>1, <2>2, <2>3
<1>8. IsGroups(M)
  BY <1>1, <1>2, <1>7 DEF IsGroups
<1>9. ASSUME NEW g, NEW field \in {"count", "memoryUsage"}
      PROVE  /\ In(M, g, field) = In(f, g, field) + In(new, g, field)
             /\ In(f, g, field) \in Nat /\ In(new, g, field) \in Nat
  <2>1. CASE g \in DOMAIN f /\ g \in DOMAIN new
    <3>1. M[g].count = f[g].count + new[g].count
          /\ M[g].memoryUsage = f[g].memoryUsage + new[g].memoryUsage
      <4>1. g \in DOMAIN M
        BY <1>2, <2>1
      <4>2. M[g] = [count |-> f[g].count + new[g].count,
                    memoryUsage |-> f[g].memoryUsage + new[g].memoryUsage]
        BY <1>3, <2>1, <4>1
      <4>3. QED
        BY <4>2
    <3>2. QED
      BY <1>2, <1>6, <2>1, <3>1 DEF In
  <2>2. CASE g \in DOMAIN f /\ g \notin DOMAIN new
    <3>1. M[g] = f[g] /\ g \in DOMAIN M
      BY <1>2, <1>3, <2>2
    <3>2. QED
      BY <1>6, <2>2, <3>1 DEF In
  <2>3. CASE g \notin DOMAIN f /\ g \in DOMAIN new
    <3>1. M[g] = new[g] /\ g \in DOMAIN M
      BY <1>2, <1>3, <2>3
    <3>2. QED
      BY <1>6, <2>3, <3>1 DEF In
  <2>4. CASE g \notin DOMAIN f /\ g \notin DOMAIN new
    BY <1>2, <2>4 DEF In
  <2>5. QED
    BY <2>1, <2>2, <2>3, <2>4
<1>10. QED
  BY <1>7, <1>8, <1>9 DEF M

\* The figures of the keys add up to numbers.
LEMMA AddedFacts ==
    ASSUME NEW t \in [Keys -> Figures], NEW K \in SUBSET Keys,
           NEW field \in {"count", "memoryUsage"}
    PROVE  /\ IsFiniteSet(K) /\ \A k \in K : [j \in Keys |-> t[j][field]][k] \in Nat
           /\ Added(t, K, field) \in Nat
<1>1. IsFiniteSet(K)
  BY KeysAssumption, FS_Subset
<1> DEFINE f == [j \in Keys |-> t[j][field]]
<1>2. \A k \in K : f[k] \in Nat
  <2> SUFFICES ASSUME NEW k \in K PROVE f[k] \in Nat
    OBVIOUS
  <2>1. t[k] \in Figures /\ f[k] = t[k][field]
    OBVIOUS
  <2>2. t[k].count \in Nat /\ t[k].memoryUsage \in Nat
    BY <2>1, FigureFacts
  <2>3. QED
    BY <2>1, <2>2
<1>3. Sum(f, K) \in Nat
  <2> HIDE DEF f
  <2>1. QED
    BY <1>1, <1>2, SumNat
<1>4. QED
  BY <1>1, <1>2, <1>3 DEF Added

\* What a batch of the keys S, whose usage is s, adds to what SCAN returned.
Also(t, S, s) ==
    [k \in Keys |-> IF k \in S THEN [count |-> t[k].count + 1,
                                     memoryUsage |-> t[k].memoryUsage + s[k]]
                    ELSE t[k]]

\* It adds the number of the keys and their usage.
LEMMA AlsoFacts ==
    ASSUME NEW t \in [Keys -> Figures], NEW s \in [Keys -> Nat], NEW S \in SUBSET Keys,
           NEW K \in SUBSET Keys
    PROVE  /\ Also(t, S, s) \in [Keys -> Figures]
           /\ Added(Also(t, S, s), K, "count") = Added(t, K, "count") + Cardinality(K \cap S)
           /\ Added(Also(t, S, s), K, "memoryUsage") =
                 Added(t, K, "memoryUsage") + Sum(s, K \cap S)
<1> DEFINE u == Also(t, S, s)
           cu == [k \in Keys |-> u[k]["count"]]
           ct == [k \in Keys |-> t[k]["count"]]
           ch == [k \in Keys |-> IF k \in S THEN 1 ELSE 0]
           mu == [k \in Keys |-> u[k]["memoryUsage"]]
           mt == [k \in Keys |-> t[k]["memoryUsage"]]
           mh == [k \in Keys |-> IF k \in S THEN s[k] ELSE 0]
<1>1. ASSUME NEW k \in Keys
      PROVE  /\ u[k] \in Figures /\ ct[k] \in Nat /\ mt[k] \in Nat
             /\ cu[k] = ct[k] + ch[k] /\ mu[k] = mt[k] + mh[k]
             /\ ch[k] = (IF k \in S THEN 1 ELSE 0) /\ ch[k] \in Nat
             /\ mh[k] = (IF k \in S THEN s[k] ELSE 0) /\ mh[k] \in Nat /\ s[k] \in Nat
  <2>1. t[k].count \in Nat /\ t[k].memoryUsage \in Nat /\ s[k] \in Nat
    BY FigureFacts
  <2> DEFINE a == t[k].count + 1
             b == t[k].memoryUsage + s[k]
  <2>2. a \in Nat /\ b \in Nat
    BY <2>1
  <2>3. u[k] = IF k \in S THEN [count |-> a, memoryUsage |-> b] ELSE t[k]
    BY DEF Also
  <2>4. u[k] \in Figures
    <3> HIDE DEF a, b, u
    <3>1. QED
      BY <2>2, <2>3, FigureFacts
  <2>5. /\ u[k].count = (IF k \in S THEN a ELSE t[k].count)
        /\ u[k].memoryUsage = (IF k \in S THEN b ELSE t[k].memoryUsage)
    <3> HIDE DEF a, b, u
    <3>1. QED
      BY <2>3
  <2> HIDE DEF u
  <2>6. QED
    BY <2>1, <2>4, <2>5
<1>2. u \in [Keys -> Figures]
  <2>1. u = [k \in Keys |-> u[k]]
    BY DEF Also
  <2> HIDE DEF u
  <2>2. QED
    BY <1>1, <2>1
<1>3. IsFiniteSet(K)
  BY KeysAssumption, FS_Subset
<1>4. /\ Added(u, K, "count") = Sum(cu, K) /\ Added(t, K, "count") = Sum(ct, K)
      /\ Added(u, K, "memoryUsage") = Sum(mu, K) /\ Added(t, K, "memoryUsage") = Sum(mt, K)
  BY Zenon DEF Added
<1> HIDE DEF u, cu, ct, ch, mu, mt, mh
<1>5. Sum(cu, K) = Sum(ct, K) + Sum(ch, K)
  <2>1. \A k \in K : ct[k] \in Int /\ ch[k] \in Int /\ cu[k] = ct[k] + ch[k]
    BY <1>1
  <2>2. QED
    BY <1>3, <2>1, SumPlus
<1>6. Sum(mu, K) = Sum(mt, K) + Sum(mh, K)
  <2>1. \A k \in K : mt[k] \in Int /\ mh[k] \in Int /\ mu[k] = mt[k] + mh[k]
    BY <1>1
  <2>2. QED
    BY <1>3, <2>1, SumPlus
<1>7. Sum(ch, K) = Cardinality(K \cap S)
  <2>1. \A k \in K : ch[k] = IF k \in S THEN 1 ELSE 0
    BY <1>1
  <2>2. QED
    BY <1>3, <2>1, SumOnes
<1>8. Sum(mh, K) = Sum(s, K \cap S)
  <2>1. \A k \in K : s[k] \in Int /\ mh[k] = IF k \in S THEN s[k] ELSE 0
    BY <1>1
  <2>2. QED
    BY <1>3, <2>1, SumOnly
<1>9. QED
  BY <1>2, <1>4, <1>5, <1>6, <1>7, <1>8 DEF u

\* Merging keeps the groups exact.
LEMMA ExactMerged ==
    ASSUME NEW t \in [Keys -> Figures], NEW s \in [Keys -> Nat], NEW S \in SUBSET Keys,
           NEW f, IsGroups(f), Exact(f, t), \A g \in DOMAIN f : f[g].count > 0,
           NEW new, IsGroups(new), \A g \in DOMAIN new : new[g].count > 0,
           \A g \in GroupNames :
              /\ In(new, g, "count") = Cardinality(KeysOf(g) \cap S)
              /\ S \cap Denied = {} => In(new, g, "memoryUsage") = Sum(s, KeysOf(g) \cap S)
    PROVE  Exact(Merge(f, new), Also(t, S, s))
<1> DEFINE u == Also(t, S, s)
<1> SUFFICES ASSUME NEW g \in GroupNames
             PROVE  /\ In(Merge(f, new), g, "count") = Added(u, KeysOf(g), "count")
                    /\ NoneDenied(u) => In(Merge(f, new), g, "memoryUsage")
                                           = Added(u, KeysOf(g), "memoryUsage")
  BY DEF Exact
<1>1. KeysOf(g) \in SUBSET Keys
  BY DEF KeysOf
<1>2. /\ Added(u, KeysOf(g), "count") = Added(t, KeysOf(g), "count") + Cardinality(KeysOf(g) \cap S)
      /\ Added(u, KeysOf(g), "memoryUsage") =
            Added(t, KeysOf(g), "memoryUsage") + Sum(s, KeysOf(g) \cap S)
  BY <1>1, AlsoFacts
<1>3. /\ In(Merge(f, new), g, "count") = In(f, g, "count") + In(new, g, "count")
      /\ In(Merge(f, new), g, "memoryUsage") = In(f, g, "memoryUsage") + In(new, g, "memoryUsage")
  BY MergeFacts
<1>4. In(f, g, "count") = Added(t, KeysOf(g), "count")
  BY DEF Exact
<1>5. ASSUME NoneDenied(u) PROVE NoneDenied(t) /\ S \cap Denied = {}
  <2>1. ASSUME NEW k \in Denied PROVE k \notin S /\ t[k].count = 0
    <3>1. u[k].count = 0 /\ k \in Keys /\ t[k].count \in Nat
      BY <1>5, DeniedAssumption, FigureFacts DEF NoneDenied
    <3>2. k \in S => u[k].count = t[k].count + 1
      BY <3>1 DEF Also
    <3>3. k \notin S => u[k] = t[k]
      BY <3>1 DEF Also
    <3> HIDE DEF u
    <3>4. QED
      BY <3>1, <3>2, <3>3
  <2>2. QED
    BY <2>1 DEF NoneDenied
<1>6. NoneDenied(t) => In(f, g, "memoryUsage") = Added(t, KeysOf(g), "memoryUsage")
  BY DEF Exact
<1> HIDE DEF u
<1>7. QED
  BY <1>2, <1>3, <1>4, <1>5, <1>6

-----------------------------------------------------------------------------
(***************************************************************************)
(* The steps.                                                              *)
(***************************************************************************)
\* The usages of the keys of a database.
LEMMA StoreFacts ==
    ASSUME TypeInv, NEW d \in Dbs
    PROVE  store[d] \in [Keys -> Nat] /\ truth[d] \in [Keys -> Figures]
<1>1. Usages \cup {0} \subseteq Nat
  BY UsagesAssumption
<1>2. store[d] \in [Keys -> Usages \cup {0}] /\ truth[d] \in [Keys -> Figures]
  BY DEF TypeInv, TypeOK
<1>3. QED
  BY <1>1, <1>2

\* The groups new are those of a batch of the keys S.
OfBatch(new, S) ==
    /\ IsGroups(new) /\ \A g \in DOMAIN new : new[g].count > 0
    /\ \A g \in GroupNames :
          /\ In(new, g, "count") = Cardinality(KeysOf(g) \cap S)
          /\ S \cap Denied = {} => In(new, g, "memoryUsage") = Sum(store[db], KeysOf(g) \cap S)

\* Zero fits into an integer.
LEMMA ZeroFits == 0 < 2 ^ (CursorBits - 1)
<1> DEFINE n == CursorBits - 1
           S == 1 .. n
<1>1. n \in Nat
  BY WidthAssumption
<1>2. IsFiniteSet(S) /\ Cardinality(S) = n
  BY <1>1, FS_Interval
<1>3. IsFiniteSet(SUBSET S) /\ Cardinality(SUBSET S) = 2 ^ n /\ SUBSET S # {}
  BY <1>2, FS_SUBSET
<1>4. Cardinality(SUBSET S) \in Nat \ {0}
  BY <1>3, FS_EmptySet, FS_CardinalityType
<1> HIDE DEF S
<1>5. QED
  BY <1>3, <1>4

\* What one run of the script does.
LEMMA ScriptFacts ==
    ASSUME TypeInv, Loops, Script
    PROVE  /\ db \in Dbs /\ pc = "batch"
           /\ \E S \in SUBSET Keys :
                 /\ \E new : OfBatch(new, S) /\ allGroups' = Merge(allGroups, new)
                 /\ truth' = [truth EXCEPT ![db] = Also(truth[db], S, store[db])]
                 /\ visited' = visited \cup S
                 /\ pc' \in {"batch", "aggregate"}
                 /\ wide' \in {wide, wide \cup {db}}
                 /\ pc' = "aggregate" => lasting[db] \subseteq visited \cup S \/ db \in wide'
                 /\ pc' = "batch" => batches + 1 # MaxBatches
<1>1. db \in Dbs /\ pc = "batch"
  BY DEF Script, Loops
<1>2. PICK S \in SUBSET Existing(db), c \in Cursors :
         /\ Cursor(c, visited \cup S)
         /\ \E batch \in SetToSeqs(S) : allGroups' = Merge(allGroups, Groups(db, batch))
         /\ pc' = AfterBatch(ParseCursor(c))
         /\ wide' = IF ParseCursor(c) # c THEN wide \cup {db} ELSE wide
         /\ truth' = [truth EXCEPT ![db] = Also(truth[db], S, store[db])]
         /\ visited' = visited \cup S
  BY Zenon DEF Script, Also
<1>3. PICK batch \in SetToSeqs(S) : allGroups' = Merge(allGroups, Groups(db, batch))
  BY <1>2
<1>4. S \in SUBSET Keys
  BY DEF Existing
<1>5. store[db] \in [Keys -> Nat]
  BY <1>1, StoreFacts
<1>6. OfBatch(Groups(db, batch), S)
  BY <1>1, <1>4, <1>5, BatchFacts DEF OfBatch
<1>7. ParseCursor(c) = c \/ wide' = wide \cup {db}
  BY <1>2
<1>8. wide' \in {wide, wide \cup {db}} /\ wide \subseteq wide'
  BY <1>2
<1>9. /\ c = 0 => lasting[db] \subseteq visited \cup S \/ db \in wide'
      /\ batches + 1 = MaxBatches => c = 0
  BY <1>2, <1>8 DEF Cursor
<1>10. pc' = IF ParseCursor(c) = 0 THEN "aggregate" ELSE "batch"
  BY <1>2 DEF AfterBatch
<1>11. ParseCursor(0) = 0
  BY ZeroFits DEF ParseCursor
<1>12. pc' = "aggregate" => lasting[db] \subseteq visited \cup S \/ db \in wide'
  BY <1>7, <1>9, <1>10
<1>13. pc' = "batch" => batches + 1 # MaxBatches
  BY <1>9, <1>10, <1>11
<1>14. QED
  BY <1>1, <1>2, <1>3, <1>4, <1>6, <1>8, <1>10, <1>12, <1>13

\* The steps that leave the groups at hand empty.
LEMMA NoGroupsFacts == IsGroups(NoGroups) /\ DOMAIN NoGroups = {}
BY DEF IsGroups, NoGroups

\* What is stored of a database.
LEMMA GatheredFacts ==
    ASSUME Gathered
    PROVE  /\ DOMAIN metrics' = DOMAIN metrics \cup {db} /\ metrics'[db] = allGroups
           /\ \A d \in DOMAIN metrics : d # db => metrics'[d] = metrics[d]
           /\ \/ overflowed' = overflowed
              \/ /\ Cardinality(DOMAIN allGroups) > MaxDistinctKeyGroups
                 /\ DOMAIN overflowed' = DOMAIN overflowed \cup {db}
                 /\ overflowed'[db] = [top |-> Top(allGroups), aggregate |-> Aggregate(allGroups)]
                 /\ \A d \in DOMAIN overflowed : d # db => overflowed'[d] = overflowed[d]
<1> DEFINE v == [top |-> Top(allGroups), aggregate |-> Aggregate(allGroups)]
<1>1. /\ metrics' = Put(metrics, db, allGroups)
      /\ \/ overflowed' = overflowed
         \/ /\ Cardinality(DOMAIN allGroups) > MaxDistinctKeyGroups
            /\ overflowed' = Put(overflowed, db, v)
  BY Zenon DEF Gathered
<1> HIDE DEF v
<1>2. /\ DOMAIN Put(metrics, db, allGroups) = DOMAIN metrics \cup {db}
      /\ Put(metrics, db, allGroups)[db] = allGroups
      /\ \A d \in DOMAIN metrics : d # db => Put(metrics, db, allGroups)[d] = metrics[d]
  BY DEF Put
<1>3. /\ DOMAIN Put(overflowed, db, v) = DOMAIN overflowed \cup {db}
      /\ Put(overflowed, db, v)[db] = v
      /\ \A d \in DOMAIN overflowed : d # db => Put(overflowed, db, v)[d] = overflowed[d]
  BY DEF Put
<1>4. QED
  BY <1>1, <1>2, <1>3 DEF v

\* The types hold after a step.
LEMMA TypeStep == TypeInv /\ Loops /\ [Next]_vars => TypeInv'
<1> SUFFICES ASSUME TypeInv, Loops, [Next]_vars PROVE TypeInv'
  OBVIOUS
<1>1. CASE Select
  <2>1. db \in Dbs
    BY <1>1, CountAssumption DEF Select, TypeInv, TypeOK, Dbs
  <2>2. lasting' \in [Dbs -> SUBSET Keys]
    BY <1>1, <2>1 DEF Select, TypeInv, TypeOK, Existing
  <2>3. db' \in 0 .. DbCount
    BY <1>1, CountAssumption DEF Select, Skip, TypeInv, TypeOK
  <2>4. /\ pc' \in {"select", "batch", "aggregate", "done"} /\ batches' \in 0 .. MaxBatches
        /\ visited' = {} /\ allGroups' = NoGroups
        /\ UNCHANGED <<store, metrics, overflowed, wide, changes, truth>>
    BY <1>1, BoundsAssumption DEF Select, Skip, TypeInv, TypeOK
  <2>5. QED
    BY <2>2, <2>3, <2>4, NoGroupsFacts DEF TypeInv, TypeOK
<1>2. CASE Script
  <2>1. db \in Dbs /\ pc = "batch"
    BY <1>2, ScriptFacts
  <2>2. PICK S \in SUBSET Keys :
           /\ \E new : OfBatch(new, S) /\ allGroups' = Merge(allGroups, new)
           /\ truth' = [truth EXCEPT ![db] = Also(truth[db], S, store[db])]
           /\ visited' = visited \cup S
           /\ pc' \in {"batch", "aggregate"} /\ wide' \in {wide, wide \cup {db}}
    BY <1>2, ScriptFacts
  <2>3. PICK new : OfBatch(new, S) /\ allGroups' = Merge(allGroups, new)
    BY <2>2
  <2>4. IsGroups(allGroups') /\ \A g \in DOMAIN allGroups' : allGroups'[g].count > 0
    BY <2>3, MergeFacts DEF OfBatch, TypeInv, TypeOK
  <2>5. \A g \in DOMAIN allGroups' : allGroups'[g].memoryUsage >= 0
    BY <2>4, FigureFacts DEF IsGroups
  <2>6. Also(truth[db], S, store[db]) \in [Keys -> Figures]
    BY <2>1, StoreFacts, AlsoFacts
  <2>7. truth' \in [Dbs -> [Keys -> Figures]]
    BY <2>1, <2>2, <2>6 DEF TypeInv
  <2>8. batches' \in 0 .. MaxBatches
    BY <1>2, <2>1, BoundsAssumption DEF Script, Loops, TypeInv, TypeOK
  <2>9. /\ UNCHANGED <<store, db, metrics, overflowed, lasting, changes>>
        /\ pc' \in {"select", "batch", "aggregate", "done"} /\ visited' \subseteq Keys
        /\ wide' \subseteq Dbs
    BY <1>2, <2>1, <2>2 DEF Script, TypeInv, TypeOK
  <2>10. DOMAIN allGroups' \subseteq GroupNames
    BY <2>4 DEF IsGroups
  <2>11. QED
    BY <2>4, <2>5, <2>7, <2>8, <2>9, <2>10 DEF TypeInv, TypeOK
<1>3. CASE ScriptFails
  <2>1. db' \in 0 .. DbCount
    BY <1>3, CountAssumption DEF ScriptFails, Skip, Loops, Dbs
  <2>2. QED
    BY <1>3, <2>1, NoGroupsFacts, BoundsAssumption DEF ScriptFails, Skip, TypeInv, TypeOK
<1>4. CASE Gathered
  <2>1. db \in Dbs /\ db' = db + 1
    BY <1>4 DEF Gathered, Loops
  <2>2. db' \in 0 .. DbCount
    BY <2>1, CountAssumption DEF Dbs
  <2>3. DOMAIN metrics' = DOMAIN metrics \cup {db}
        /\ \A d \in DOMAIN metrics' : IsGroups(metrics'[d])
    BY <1>4, GatheredFacts DEF TypeInv
  <2>4. DOMAIN overflowed' \subseteq DOMAIN overflowed \cup {db}
    BY <1>4, GatheredFacts
  <2>5. /\ pc' = "select" /\ batches' = 0 /\ visited' = {} /\ allGroups' = NoGroups
        /\ UNCHANGED <<store, lasting, wide, changes, truth>>
    BY <1>4 DEF Gathered
  <2>6. QED
    BY <2>1, <2>2, <2>3, <2>4, <2>5, NoGroupsFacts, BoundsAssumption DEF TypeInv, TypeOK
<1>5. CASE Register
  BY <1>5 DEF Register, TypeInv, TypeOK
<1>6. CASE OtherClient
  <2>1. PICK d \in Dbs, k \in Keys, u \in Usages \cup {0} :
           /\ store' = [store EXCEPT ![d][k] = u]
           /\ lasting' = IF u = 0 THEN [lasting EXCEPT ![d] = @ \ {k}] ELSE lasting
    BY <1>6 DEF OtherClient
  <2>2. store' \in [Dbs -> [Keys -> Usages \cup {0}]] /\ lasting' \in [Dbs -> SUBSET Keys]
    BY <2>1 DEF TypeInv, TypeOK
  <2>3. changes' \in 0 .. MaxChanges
    BY <1>6, BoundsAssumption DEF OtherClient, TypeInv, TypeOK
  <2>4. UNCHANGED <<pc, db, allGroups, metrics, overflowed, visited, wide, batches, truth>>
    BY <1>6 DEF OtherClient
  <2>5. QED
    BY <2>2, <2>3, <2>4 DEF TypeInv, TypeOK
<1>7. CASE UNCHANGED vars
  BY <1>7 DEF vars, TypeInv, TypeOK
<1>8. QED
  BY <1>1, <1>2, <1>3, <1>4, <1>5, <1>6, <1>7 DEF Next, Terminated

\* What the steps of the other clients leave alone.
LEMMA OtherFacts ==
    ASSUME TypeInv, OtherClient
    PROVE  /\ UNCHANGED <<pc, db, allGroups, metrics, overflowed, series, distinct, visited,
                          wide, batches, truth>>
           /\ \A d \in Dbs : lasting'[d] \subseteq lasting[d]
BY DEF OtherClient, TypeInv, TypeOK

\* The loops.
LEMMA LoopsStep == TypeInv /\ Loops /\ [Next]_vars => Loops'
<1> SUFFICES ASSUME TypeInv, Loops, [Next]_vars PROVE Loops'
  OBVIOUS
<1> USE DEF Loops
<1>1. CASE Select
  <2>1. db \in Dbs /\ db \in Int
    BY <1>1, CountAssumption DEF Select, TypeInv, TypeOK, Dbs
  <2>2. \A d \in DOMAIN metrics : d \in Int
    BY DEF TypeInv, TypeOK, Dbs
  <2>3. QED
    BY <1>1, <2>1, <2>2, BoundsAssumption DEF Select, Skip
<1>2. CASE Script
  <2>1. /\ db \in Dbs /\ pc = "batch"
        /\ \E S \in SUBSET Keys :
              /\ visited' = visited \cup S
              /\ pc' \in {"batch", "aggregate"}
              /\ pc' = "aggregate" => lasting[db] \subseteq visited \cup S \/ db \in wide'
              /\ pc' = "batch" => batches + 1 # MaxBatches
    BY <1>2, ScriptFacts
  <2>2. UNCHANGED <<db, metrics, lasting>> /\ batches' = batches + 1
    BY <1>2 DEF Script
  <2>3. pc' = "batch" => batches' < MaxBatches
    BY <2>1, <2>2, BoundsAssumption DEF TypeInv, TypeOK
  <2>4. QED
    BY <2>1, <2>2, <2>3
<1>3. CASE ScriptFails
  <2>1. db \in Int /\ \A d \in DOMAIN metrics : d \in Int
    BY DEF TypeInv, TypeOK, Dbs
  <2>2. QED
    BY <1>3, <2>1 DEF ScriptFails, Skip
<1>4. CASE Gathered
  <2>1. db \in Int /\ \A d \in DOMAIN metrics : d \in Int
    BY DEF TypeInv, TypeOK, Dbs
  <2>2. DOMAIN metrics' = DOMAIN metrics \cup {db}
    BY <1>4, GatheredFacts
  <2>3. QED
    BY <1>4, <2>1, <2>2 DEF Gathered
<1>5. CASE Register
  BY <1>5 DEF Register
<1>6. CASE OtherClient
  BY <1>6, OtherFacts
<1>7. CASE UNCHANGED vars
  BY <1>7 DEF vars
<1>8. QED
  BY <1>1, <1>2, <1>3, <1>4, <1>5, <1>6, <1>7 DEF Next, Terminated

\* Nothing is returned of a database before its turn.
LEMMA AheadStep == TypeInv /\ Loops /\ Ahead /\ [Next]_vars => Ahead'
<1> SUFFICES ASSUME TypeInv, Loops, Ahead, [Next]_vars PROVE Ahead'
  OBVIOUS
<1> USE DEF Ahead
<1>1. db \in Int /\ \A d \in Dbs : d \in Int
  BY DEF TypeInv, TypeOK, Dbs
<1>2. CASE Script
  <2>1. db \in Dbs /\ db' = db /\ pc' # "select" /\ \E t : truth' = [truth EXCEPT ![db] = t]
    <3>1. db' = db
      BY <1>2 DEF Script
    <3>2. QED
      BY <1>2, <3>1, ScriptFacts
  <2>2. \A d \in Dbs : d # db => truth'[d] = truth[d]
    BY <2>1 DEF TypeInv
  <2>3. SUFFICES ASSUME NEW d \in Dbs, NEW k \in Keys, d > db \/ (d = db /\ pc' = "select")
                 PROVE  truth'[d][k] = [count |-> 0, memoryUsage |-> 0]
    BY <2>1 DEF Ahead
  <2>4. d # db /\ d > db
    BY <1>1, <2>1, <2>3
  <2>5. QED
    BY <2>2, <2>4
<1>3. CASE Select
  BY <1>1, <1>3 DEF Select, Skip
<1>4. CASE ScriptFails
  BY <1>1, <1>4 DEF ScriptFails, Skip
<1>5. CASE Gathered
  BY <1>1, <1>5 DEF Gathered
<1>6. CASE Register
  BY <1>1, <1>6 DEF Register
<1>7. CASE OtherClient
  BY <1>7, OtherFacts
<1>8. CASE UNCHANGED vars
  BY <1>8 DEF vars
<1>9. QED
  BY <1>2, <1>3, <1>4, <1>5, <1>6, <1>7, <1>8 DEF Next, Terminated

\* Before the first batch nothing is counted, and no group is there.
LEMMA ExactAtFirst ==
    ASSUME NEW t \in [Keys -> Figures],
           \A k \in Keys : t[k] = [count |-> 0, memoryUsage |-> 0]
    PROVE  Exact(NoGroups, t)
<1> SUFFICES ASSUME NEW g \in GroupNames, NEW field \in {"count", "memoryUsage"}
             PROVE  In(NoGroups, g, field) = Added(t, KeysOf(g), field)
  BY DEF Exact
<1> DEFINE f == [k \in Keys |-> t[k][field]]
<1>1. IsFiniteSet(KeysOf(g)) /\ KeysOf(g) \subseteq Keys
  BY KeysAssumption, FS_Subset DEF KeysOf
<1>2. \A k \in KeysOf(g) : f[k] = IF k \in {} THEN 1 ELSE 0
  <2> SUFFICES ASSUME NEW k \in KeysOf(g) PROVE f[k] = 0
    OBVIOUS
  <2>1. f[k] = t[k][field] /\ t[k] = [count |-> 0, memoryUsage |-> 0]
    BY <1>1
  <2>2. QED
    BY <2>1
<1> HIDE DEF f
<1>3. Sum(f, KeysOf(g)) = Cardinality(KeysOf(g) \cap {})
  BY <1>1, <1>2, SumOnes
<1>4. Cardinality(KeysOf(g) \cap {}) = 0
  <2>1. KeysOf(g) \cap {} = {}
    OBVIOUS
  <2>2. QED
    BY <2>1, FS_EmptySet
<1>5. Added(t, KeysOf(g), field) = 0
  BY <1>3, <1>4 DEF Added, f
<1>6. In(NoGroups, g, field) = 0
  BY DEF In, NoGroups
<1>7. QED
  BY <1>5, <1>6

\* The groups at hand stay exact.
LEMMA AtHandStep == TypeInv /\ Loops /\ Ahead /\ AtHand /\ [Next]_vars => AtHand'
<1> SUFFICES ASSUME TypeInv, Loops, Ahead, AtHand, [Next]_vars, pc' \in {"batch", "aggregate"}
             PROVE  /\ Exact(allGroups', truth'[db'])
                    /\ \A k \in visited' : truth'[db'][k].count > 0
  BY DEF AtHand
<1>1. CASE Select
  <2>1. pc = "select" /\ db' = db /\ allGroups' = NoGroups /\ visited' = {} /\ truth' = truth
    BY <1>1 DEF Select, Skip
  <2>2. db \in Dbs
    BY <1>1, CountAssumption DEF Select, TypeInv, TypeOK, Dbs
  <2>3. truth[db] \in [Keys -> Figures]
    BY <2>2, StoreFacts
  <2>4. \A k \in Keys : truth[db][k] = [count |-> 0, memoryUsage |-> 0]
    BY <2>1, <2>2 DEF Ahead
  <2>5. Exact(NoGroups, truth[db])
    BY <2>3, <2>4, ExactAtFirst
  <2>6. QED
    BY <2>1, <2>5
<1>2. CASE Script
  <2>1. db \in Dbs /\ pc = "batch"
    BY <1>2, ScriptFacts
  <2>2. PICK S \in SUBSET Keys :
           /\ \E new : OfBatch(new, S) /\ allGroups' = Merge(allGroups, new)
           /\ truth' = [truth EXCEPT ![db] = Also(truth[db], S, store[db])]
           /\ visited' = visited \cup S
    BY <1>2, ScriptFacts
  <2>3. PICK new : OfBatch(new, S) /\ allGroups' = Merge(allGroups, new)
    BY <2>2
  <2>4. store[db] \in [Keys -> Nat] /\ truth[db] \in [Keys -> Figures]
    BY <2>1, StoreFacts
  <2>5. Exact(allGroups, truth[db]) /\ \A k \in visited : truth[db][k].count > 0
    BY <2>1 DEF AtHand
  <2>6. IsGroups(allGroups) /\ \A g \in DOMAIN allGroups : allGroups[g].count > 0
    BY DEF TypeInv, TypeOK
  <2>7. Exact(Merge(allGroups, new), Also(truth[db], S, store[db]))
    BY <2>3, <2>4, <2>5, <2>6, ExactMerged DEF OfBatch
  <2>8. db' = db /\ truth'[db] = Also(truth[db], S, store[db])
    BY <1>2, <2>1, <2>2 DEF Script, TypeInv
  <2>9. ASSUME NEW k \in visited \cup S PROVE Also(truth[db], S, store[db])[k].count > 0
    <3>1. k \in Keys /\ truth[db][k].count \in Nat
      BY <2>4, FigureFacts DEF TypeInv, TypeOK
    <3>2. CASE k \in S
      <4>1. Also(truth[db], S, store[db])[k].count = truth[db][k].count + 1
        BY <3>1, <3>2 DEF Also
      <4>2. QED
        BY <3>1, <4>1
    <3>3. CASE k \notin S
      <4>1. Also(truth[db], S, store[db])[k] = truth[db][k]
        BY <3>1, <3>3 DEF Also
      <4>2. QED
        BY <2>5, <3>3, <4>1
    <3>4. QED
      BY <3>2, <3>3
  <2>10. QED
    BY <2>2, <2>3, <2>7, <2>8, <2>9
<1>3. CASE ScriptFails \/ Gathered \/ Register
  BY <1>3 DEF ScriptFails, Skip, Gathered, Register
<1>4. CASE OtherClient
  BY <1>4, OtherFacts DEF AtHand
<1>5. CASE UNCHANGED vars
  BY <1>5 DEF vars, AtHand
<1>6. QED
  BY <1>1, <1>2, <1>3, <1>4, <1>5 DEF Next, Terminated

\* A step that gathers no database leaves what was stored, and of these databases the
\* history, alone.
LEMMA StoredFrame ==
    ASSUME TypeInv, Loops, [Next]_vars
    PROVE  /\ \A d \in DOMAIN metrics : d \in Dbs /\ d # db /\ truth'[d] = truth[d]
           /\ ~Gathered => UNCHANGED <<metrics, overflowed>>
<1>1. \A d \in DOMAIN metrics : d \in Dbs /\ d # db
  <2>1. db \in Int /\ \A d \in Dbs : d \in Int
    BY DEF TypeInv, TypeOK, Dbs
  <2>2. QED
    BY <2>1 DEF TypeInv, TypeOK, Loops
<1>2. \A d \in DOMAIN metrics : truth'[d] = truth[d]
  <2>1. CASE Script
    <3>1. \E t : truth' = [truth EXCEPT ![db] = t]
      BY <2>1, ScriptFacts
    <3>2. QED
      BY <1>1, <3>1 DEF TypeInv
  <2>2. CASE ~Script
    <3>1. truth' = truth
      BY <2>2 DEF Next, Select, ScriptFails, Gathered, Register, OtherClient, Terminated, vars
    <3>2. QED
      BY <3>1
  <2>3. QED
    BY <2>1, <2>2
<1>3. ~Gathered => UNCHANGED <<metrics, overflowed>>
  BY DEF Next, Select, Script, ScriptFails, Skip, Register, OtherClient, Terminated, vars
<1>4. QED
  BY <1>1, <1>2, <1>3

\* The groups that are stored stay exact.
LEMMA StoredStep ==
    TypeInv /\ Loops /\ AtHand /\ StoredExact /\ [Next]_vars => StoredExact'
<1> SUFFICES ASSUME TypeInv, Loops, AtHand, StoredExact, [Next]_vars,
                    NEW d \in DOMAIN metrics'
             PROVE  Exact(metrics'[d], truth'[d])
  BY DEF StoredExact
<1>1. CASE d \in DOMAIN metrics /\ metrics'[d] = metrics[d]
  BY <1>1, StoredFrame DEF StoredExact
<1>2. CASE Gathered /\ d = db
  <2>1. metrics'[d] = allGroups /\ pc = "aggregate" /\ truth' = truth
    <3>1. pc = "aggregate" /\ truth' = truth
      BY <1>2 DEF Gathered
    <3>2. QED
      BY <1>2, <3>1, GatheredFacts
  <2>2. Exact(allGroups, truth[db])
    BY <2>1 DEF AtHand
  <2>3. QED
    BY <1>2, <2>1, <2>2
<1>3. CASE Gathered /\ d # db
  BY <1>1, <1>3, GatheredFacts
<1>4. CASE ~Gathered
  BY <1>1, <1>4, StoredFrame
<1>5. QED
  BY <1>2, <1>3, <1>4

\* So does what is kept of a database with too many groups.
LEMMA FoldedStep == TypeInv /\ Loops /\ Folded /\ [Next]_vars => Folded'
<1> SUFFICES ASSUME TypeInv, Loops, Folded, [Next]_vars, NEW d \in DOMAIN overflowed'
             PROVE  /\ Cardinality(DOMAIN metrics'[d]) > MaxDistinctKeyGroups
                    /\ overflowed'[d] = [top |-> Top(metrics'[d]),
                                         aggregate |-> Aggregate(metrics'[d])]
  BY DEF Folded
<1>1. CASE d \in DOMAIN overflowed /\ overflowed'[d] = overflowed[d] /\ metrics'[d] = metrics[d]
  BY <1>1 DEF Folded
<1>2. \A e \in DOMAIN overflowed : e # db /\ e \in DOMAIN metrics
  BY StoredFrame DEF TypeInv, TypeOK
<1>3. CASE Gathered
  <2>1. CASE d = db
    BY <1>2, <1>3, <2>1, GatheredFacts
  <2>2. CASE d # db
    BY <1>1, <1>2, <1>3, <2>2, GatheredFacts
  <2>3. QED
    BY <2>1, <2>2
<1>4. CASE ~Gathered
  BY <1>1, <1>4, StoredFrame
<1>5. QED
  BY <1>3, <1>4

\* And what has been exported.
LEMMA ExportedStep == TypeInv /\ Loops /\ Exported /\ [Next]_vars => Exported'
<1> SUFFICES ASSUME TypeInv, Loops, Exported, [Next]_vars, pc' = "done"
             PROVE  /\ series' = UNION {Registered(d)' : d \in DOMAIN metrics'}
                    /\ DOMAIN distinct' = DOMAIN metrics'
  BY DEF Exported
<1>1. CASE Register
  <2>1. /\ series' = UNION {Registered(d) : d \in DOMAIN metrics}
        /\ DOMAIN distinct' = DOMAIN metrics /\ metrics' = metrics /\ overflowed' = overflowed
    BY <1>1 DEF Register
  <2>2. \A d : Registered(d)' = Registered(d)
    BY <2>1 DEF Registered
  <2>3. QED
    BY <2>1, <2>2
<1>2. CASE UNCHANGED <<pc, metrics, overflowed, series, distinct>>
  <2>1. \A d : Registered(d)' = Registered(d)
    BY <1>2 DEF Registered
  <2>2. QED
    BY <1>2, <2>1 DEF Exported
<1>3. CASE Select \/ ScriptFails \/ Gathered
  BY <1>3 DEF Select, ScriptFails, Skip, Gathered
<1>4. CASE Script
  BY <1>4, ScriptFacts
<1>5. QED
  BY <1>1, <1>2, <1>3, <1>4 DEF Next, OtherClient, Terminated, vars

-----------------------------------------------------------------------------
(***************************************************************************)
(* The invariant, and what follows from it at once.                        *)
(***************************************************************************)
LEMMA Initially == Init => IInv
<1> SUFFICES ASSUME Init PROVE IInv
  OBVIOUS
<1>1. /\ store \in [Dbs -> [Keys -> Usages \cup {0}]]
      /\ pc = "select" /\ db = 0 /\ batches = 0 /\ changes = 0 /\ visited = {}
      /\ allGroups = NoGroups /\ metrics = NoGroups /\ overflowed = NoGroups
      /\ lasting = [d \in Dbs |-> {}] /\ wide = {}
      /\ truth = [d \in Dbs |-> [k \in Keys |-> [count |-> 0, memoryUsage |-> 0]]]
  BY StoresAssumption DEF Init
<1>2. truth \in [Dbs -> [Keys -> Figures]]
  BY <1>1, FigureFacts
<1>3. db \in 0 .. DbCount /\ batches \in 0 .. MaxBatches /\ changes \in 0 .. MaxChanges
  BY <1>1, CountAssumption, BoundsAssumption
<1>4. lasting \in [Dbs -> SUBSET Keys]
  BY <1>1
<1>5. TypeInv
  BY <1>1, <1>2, <1>3, <1>4, NoGroupsFacts DEF TypeInv, TypeOK
<1>6. Loops /\ Ahead /\ AtHand
  BY <1>1, NoGroupsFacts DEF Loops, Ahead, AtHand
<1>7. StoredExact /\ Folded /\ Exported
  BY <1>1, NoGroupsFacts DEF StoredExact, Folded, Exported
<1>8. QED
  BY <1>5, <1>6, <1>7 DEF IInv

\* The script, the merging and the storing of the groups keep the books: this is the
\* inductive invariant behind the results below.
THEOREM Invariant == Spec => []IInv
<1>1. IInv /\ [Next]_vars => IInv'
  BY TypeStep, LoopsStep, AheadStep, AtHandStep, StoredStep, FoldedStep, ExportedStep DEF IInv
<1>2. QED
  BY Initially, <1>1, PTL DEF Spec

\* The variables have their types: no group without a key, no more batches than SCAN
\* gives, no folded database that was not stored.
THEOREM TypeCorrect == Spec => []TypeOK
<1>1. IInv => TypeOK
  BY DEF IInv, TypeInv
<1>2. QED
  BY <1>1, Invariant, PTL

\* Whatever other clients do and wherever the script fails, only the groups of a database
\* whose SCAN iteration came to its end, or met a cursor too wide for an integer, are stored.
THEOREM OnlyComplete == Spec => CompleteOnly
<1> DEFINE A == \A d \in (DOMAIN metrics' \ DOMAIN metrics) \ wide : lasting[d] \subseteq visited
<1>1. IInv /\ [Next]_vars => [A]_vars
  <2> SUFFICES ASSUME IInv, [Next]_vars PROVE A
    OBVIOUS
  <2>1. CASE Gathered
    <3>1. DOMAIN metrics' = DOMAIN metrics \cup {db}
      BY <2>1, GatheredFacts
    <3>2. lasting[db] \subseteq visited \/ db \in wide
      BY <2>1 DEF Gathered, IInv, Loops
    <3>3. QED
      BY <3>1, <3>2
  <2>2. CASE ~Gathered
    BY <2>2, StoredFrame DEF IInv
  <2>3. QED
    BY <2>1, <2>2
<1>2. QED
  BY <1>1, Invariant, PTL DEF Spec, CompleteOnly

\* Numbers of which some are positive add up to as many at least.
LEMMA SumAtLeast ==
    ASSUME NEW S, IsFiniteSet(S), NEW A \in SUBSET S, NEW f,
           \A x \in S : f[x] \in Nat, \A x \in A : f[x] > 0
    PROVE  Sum(f, S) >= Cardinality(A)
<1> DEFINE g == [x \in S |-> IF x \in A THEN 1 ELSE 0]
           h == [x \in S |-> f[x] - g[x]]
<1>1. \A x \in S : /\ g[x] \in Int /\ h[x] \in Nat /\ h[x] \in Int /\ f[x] = g[x] + h[x]
                   /\ g[x] = IF x \in A THEN 1 ELSE 0
  OBVIOUS
<1> HIDE DEF g, h
<1>2. Sum(f, S) = Sum(g, S) + Sum(h, S)
  BY <1>1, SumPlus
<1>3. Sum(g, S) = Cardinality(S \cap A)
  BY <1>1, SumOnes
<1>4. Sum(h, S) \in Nat
  BY <1>1, SumNat
<1>5. S \cap A = A /\ Cardinality(A) \in Nat
  BY FS_Subset, FS_CardinalityType
<1>6. QED
  BY <1>2, <1>3, <1>4, <1>5

\* A key that is there from the beginning of an iteration to its end is in the count of
\* its group, whatever the other keys do and however SCAN cuts its batches, unless a cursor
\* did not fit into an integer.
THEOREM LastingAreCounted == Spec => []LastingCounted
<1>1. ASSUME IInv, pc = "aggregate", db \notin wide, NEW g \in GroupNames,
             {k \in lasting[db] : Group[k] = g} # {}
      PROVE  /\ g \in DOMAIN allGroups
             /\ allGroups[g].count >= Cardinality({k \in lasting[db] : Group[k] = g})
  <2> DEFINE A == {k \in lasting[db] : Group[k] = g}
             f == [k \in Keys |-> truth[db][k]["count"]]
  <2>1. /\ db \in Dbs /\ lasting[db] \subseteq visited /\ TypeInv
        /\ Exact(allGroups, truth[db]) /\ \A k \in visited : truth[db][k].count > 0
    BY <1>1 DEF IInv, Loops, AtHand
  <2>2. truth[db] \in [Keys -> Figures] /\ lasting[db] \subseteq Keys
    BY <2>1, StoreFacts DEF TypeInv, TypeOK
  <2>3. KeysOf(g) \in SUBSET Keys /\ A \in SUBSET KeysOf(g) /\ A # {}
    BY <1>1, <2>2 DEF KeysOf
  <2>4. IsFiniteSet(KeysOf(g)) /\ \A k \in KeysOf(g) : f[k] \in Nat
    BY <2>2, <2>3, AddedFacts
  <2>5. \A k \in A : f[k] > 0
    BY <2>1, <2>2
  <2>6. In(allGroups, g, "count") = Sum(f, KeysOf(g))
    BY <2>1 DEF Exact, Added
  <2> HIDE DEF A, f
  <2>7. Sum(f, KeysOf(g)) >= Cardinality(A)
    BY <2>3, <2>4, <2>5, SumAtLeast
  <2>8. Cardinality(A) \in Nat /\ Cardinality(A) # 0
    BY <2>3, <2>4, FS_Subset, FS_CardinalityType, FS_EmptySet
  <2>9. g \in DOMAIN allGroups
    BY <2>6, <2>7, <2>8 DEF In
  <2>10. allGroups[g].count >= Cardinality(A)
    BY <2>6, <2>7, <2>9 DEF In
  <2>11. QED
    BY <2>9, <2>10 DEF A
<1>2. IInv => LastingCounted
  BY <1>1 DEF LastingCounted
<1>3. QED
  BY <1>2, Invariant, PTL

-----------------------------------------------------------------------------
(***************************************************************************)
(* The sorting of the groups.                                              *)
(***************************************************************************)
\* The groups sorted before g.
Before(f, g) == {h \in DOMAIN f : Heavier(f, h, g)}

\* The sort has a place for each group, and no two have the same.
LEMMA Ranked ==
    ASSUME NEW f, IsGroups(f)
    PROVE  /\ IsFiniteSet(DOMAIN f) /\ DOMAIN f \subseteq Nat
           /\ \A g, h \in DOMAIN f :
                 /\ Cardinality(Before(f, g)) \in 0 .. Cardinality(DOMAIN f) - 1
                 /\ g # h => Heavier(f, g, h) \/ Heavier(f, h, g)
                 /\ Heavier(f, g, h) => /\ f[g].memoryUsage >= f[h].memoryUsage
                                        /\ Cardinality(Before(f, g)) < Cardinality(Before(f, h))
<1>1. GroupNames \subseteq Nat /\ DOMAIN f \subseteq GroupNames
  BY GroupAssumption DEF IsGroups, GroupNames
<1>2. IsFiniteSet(DOMAIN f) /\ Cardinality(DOMAIN f) \in Nat
  BY <1>1, NamesFinite, FS_Subset, FS_CardinalityType
<1>3. \A g \in DOMAIN f : g \in Nat /\ f[g].count \in Nat /\ f[g].memoryUsage \in Nat
  BY <1>1, FigureFacts DEF IsGroups
<1>4. ASSUME NEW g \in DOMAIN f
      PROVE  /\ Before(f, g) \in SUBSET DOMAIN f /\ IsFiniteSet(Before(f, g))
             /\ g \notin Before(f, g) /\ Cardinality(Before(f, g)) \in Nat
  <2>1. Before(f, g) \in SUBSET DOMAIN f /\ g \notin Before(f, g)
    BY <1>3 DEF Before, Heavier
  <2>2. QED
    BY <1>2, <2>1, FS_Subset, FS_CardinalityType
<1>5. ASSUME NEW g \in DOMAIN f PROVE Cardinality(Before(f, g)) < Cardinality(DOMAIN f)
  <2>1. Cardinality(Before(f, g)) <= Cardinality(DOMAIN f)
        /\ (Cardinality(DOMAIN f) = Cardinality(Before(f, g)) => DOMAIN f = Before(f, g))
    BY <1>2, <1>4, FS_Subset
  <2>2. QED
    BY <1>2, <1>4, <2>1
<1>6. ASSUME NEW g \in DOMAIN f, NEW h \in DOMAIN f, Heavier(f, g, h)
      PROVE  /\ f[g].memoryUsage >= f[h].memoryUsage
             /\ Cardinality(Before(f, g)) < Cardinality(Before(f, h))
  <2>1. f[g].memoryUsage >= f[h].memoryUsage
    BY <1>3, <1>6 DEF Heavier
  <2>2. g \in Before(f, h)
    BY <1>6 DEF Before
  <2>3. ASSUME NEW e \in Before(f, g) PROVE e \in Before(f, h)
    <3>1. e \in DOMAIN f /\ Heavier(f, e, g)
      BY <2>3 DEF Before
    <3>2. Heavier(f, e, h)
      BY <1>3, <1>6, <3>1 DEF Heavier
    <3>3. QED
      BY <3>1, <3>2 DEF Before
  <2>4. Before(f, g) \in SUBSET Before(f, h) /\ Before(f, g) # Before(f, h)
    BY <1>4, <2>2, <2>3
  <2>5. Cardinality(Before(f, g)) <= Cardinality(Before(f, h))
        /\ (Cardinality(Before(f, h)) = Cardinality(Before(f, g)) => Before(f, h) = Before(f, g))
    BY <1>4, <2>4, FS_Subset
  <2>6. QED
    BY <1>4, <2>1, <2>4, <2>5
<1>7. ASSUME NEW g \in DOMAIN f, NEW h \in DOMAIN f, g # h
      PROVE  Heavier(f, g, h) \/ Heavier(f, h, g)
  BY <1>3, <1>7 DEF Heavier
<1>8. \A g \in DOMAIN f : Cardinality(Before(f, g)) \in 0 .. Cardinality(DOMAIN f) - 1
  BY <1>2, <1>4, <1>5
<1>9. QED
  BY <1>1, <1>2, <1>6, <1>7, <1>8

\* The first MaxDistinctKeyGroups places are taken.
LEMMA TopFacts ==
    ASSUME NEW f, IsGroups(f), Cardinality(DOMAIN f) > MaxDistinctKeyGroups
    PROVE  /\ Top(f) \subseteq DOMAIN f /\ Cardinality(Top(f)) = MaxDistinctKeyGroups
           /\ \A g \in Top(f), h \in DOMAIN f \ Top(f) : f[g].memoryUsage >= f[h].memoryUsage
<1> DEFINE D == DOMAIN f
           n == Cardinality(D)
           rank == [g \in D |-> Cardinality(Before(f, g))]
           T == {g \in D : rank[g] < MaxDistinctKeyGroups}
<1>1. Top(f) = T
  BY DEF Top, Before
<1>2. IsFiniteSet(D) /\ n \in Nat
  BY Ranked, FS_CardinalityType
<1>3. ASSUME NEW g \in D, NEW h \in D
      PROVE  /\ rank[g] \in 0 .. n - 1
             /\ g # h => Heavier(f, g, h) \/ Heavier(f, h, g)
             /\ Heavier(f, g, h) => f[g].memoryUsage >= f[h].memoryUsage /\ rank[g] < rank[h]
  BY Ranked
<1>4. rank = [g \in D |-> rank[g]]
  OBVIOUS
<1> HIDE DEF D, n, rank
<1>5. rank \in [D -> 0 .. n - 1] /\ \A g, h \in D : rank[g] = rank[h] => g = h
  <2>1. \A g \in D : rank[g] \in 0 .. n - 1
    BY <1>3
  <2>2. ASSUME NEW g \in D, NEW h \in D, rank[g] = rank[h] PROVE g = h
    BY <1>3, <2>1, <2>2
  <2>3. QED
    BY <1>4, <2>1, <2>2
<1>6. rank \in Injection(D, 0 .. n - 1)
  BY <1>5, Zenon DEF Injection, IsInjective
<1>7. IsFiniteSet(0 .. n - 1) /\ Cardinality(0 .. n - 1) = n
  BY <1>2, FS_Interval
<1>8. rank \in Surjection(D, 0 .. n - 1)
  BY <1>6, <1>7, FS_Injection DEF n
<1>9. \A i \in 0 .. n - 1 : \E g \in D : rank[g] = i
  BY <1>8, Zenon DEF Surjection
<1>10. {rank[g] : g \in T} = 0 .. MaxDistinctKeyGroups - 1
  <2>1. MaxDistinctKeyGroups \in Nat /\ MaxDistinctKeyGroups < n
    BY LimitAssumption DEF n, D
  <2>2. ASSUME NEW i \in 0 .. MaxDistinctKeyGroups - 1 PROVE \E g \in T : rank[g] = i
    <3>1. i \in 0 .. n - 1 /\ i < MaxDistinctKeyGroups
      BY <1>2, <2>1
    <3>2. QED
      BY <1>9, <3>1
  <2>3. ASSUME NEW g \in T PROVE rank[g] \in 0 .. MaxDistinctKeyGroups - 1
    BY <1>2, <1>5, <2>1
  <2>4. QED
    BY <2>2, <2>3
<1>11. IsFiniteSet(T) /\ \A g, h \in T : rank[g] = rank[h] => g = h
  BY <1>2, <1>5, FS_Subset
<1>12. /\ T \subseteq D /\ \A g \in T : rank[g] < MaxDistinctKeyGroups
       /\ \A h \in D \ T : ~(rank[h] < MaxDistinctKeyGroups)
  OBVIOUS
<1>13. Cardinality(T) = MaxDistinctKeyGroups
  <2> DEFINE z == [g \in T |-> 0]
             zero == [i \in {rank[g] : g \in T} |-> 0]
  <2>1. \A g \in T : z[g] \in Int /\ z[g] = zero[rank[g]]
    OBVIOUS
  <2> HIDE DEF T, z, zero
  <2>2. /\ Sum(z, T) = Sum(zero, {rank[g] : g \in T})
        /\ Cardinality({rank[g] : g \in T}) = Cardinality(T)
    BY <1>11, <2>1, SumImage
  <2>3. Cardinality(0 .. MaxDistinctKeyGroups - 1) = MaxDistinctKeyGroups
    BY LimitAssumption, FS_Interval
  <2>4. QED
    BY <1>10, <2>2, <2>3
<1>14. ASSUME NEW g \in T, NEW h \in D \ T PROVE f[g].memoryUsage >= f[h].memoryUsage
  <2>1. g \in D /\ h \in D /\ rank[g] \in Int /\ rank[h] \in Int /\ rank[g] < rank[h]
    <3>1. g \in D /\ h \in D /\ rank[g] \in Int /\ rank[h] \in Int
      BY <1>5, <1>2
    <3>2. QED
      BY <1>12, <3>1, LimitAssumption
  <2>2. Heavier(f, g, h)
    BY <1>3, <2>1
  <2>3. QED
    BY <1>3, <2>1, <2>2
<1>15. QED
  BY <1>1, <1>12, <1>13, <1>14 DEF D

\* When there are too many groups, exactly MaxDistinctKeyGroups of them are reported by
\* themselves, and none that "overflow" stands for is heavier than one of these.
THEOREM HeaviestAreKept == Spec => []HeaviestKept
<1>1. ASSUME IInv, NEW d \in DOMAIN overflowed
      PROVE  /\ Cardinality(overflowed[d].top) = MaxDistinctKeyGroups
             /\ \A g \in overflowed[d].top, h \in DOMAIN metrics[d] \ overflowed[d].top :
                   metrics[d][g].memoryUsage >= metrics[d][h].memoryUsage
  <2>1. /\ IsGroups(metrics[d]) /\ Cardinality(DOMAIN metrics[d]) > MaxDistinctKeyGroups
        /\ overflowed[d].top = Top(metrics[d])
    BY <1>1 DEF IInv, TypeInv, TypeOK, Folded
  <2>2. QED
    BY <2>1, TopFacts
<1>2. IInv => HeaviestKept
  BY <1>1 DEF HeaviestKept
<1>3. QED
  BY <1>2, Invariant, PTL

-----------------------------------------------------------------------------
(***************************************************************************)
(* The exported series add up.                                             *)
(***************************************************************************)
Fields == {"count", "memoryUsage"}

\* One figure of each group.
Column(f, field) == [g \in DOMAIN f |-> f[g][field]]

\* The figures of the groups are numbers.
LEMMA ColumnFacts ==
    ASSUME NEW f, IsGroups(f), NEW field \in Fields
    PROVE  \A g \in DOMAIN f : Column(f, field)[g] = f[g][field] /\ f[g][field] \in Nat
<1> SUFFICES ASSUME NEW g \in DOMAIN f
             PROVE  Column(f, field)[g] = f[g][field] /\ f[g][field] \in Nat
  OBVIOUS
<1>1. f[g].count \in Nat /\ f[g].memoryUsage \in Nat
  BY FigureFacts DEF IsGroups
<1>2. QED
  BY <1>1 DEF Column, Fields

\* If the groups say what SCAN returned of each group, they add up to all of it.
LEMMA ColumnTotal ==
    ASSUME NEW f, IsGroups(f), NEW t \in [Keys -> Figures], NEW field \in Fields,
           \A g \in GroupNames : In(f, g, field) = Added(t, KeysOf(g), field)
    PROVE  Sum(Column(f, field), DOMAIN f) = Added(t, Keys, field)
<1> DEFINE F == [g \in GroupNames |-> In(f, g, field)]
           c == [k \in Keys |-> t[k][field]]
<1>1. IsFiniteSet(GroupNames) /\ DOMAIN f \subseteq GroupNames
  BY NamesFinite DEF IsGroups
<1>2. \A k \in Keys : c[k] \in Int
  <2>1. Keys \in SUBSET Keys
    OBVIOUS
  <2>2. \A k \in Keys : c[k] \in Nat
    BY <2>1, AddedFacts DEF Fields
  <2>3. QED
    BY <2>2
<1>3. \A g \in GroupNames : F[g] = Sum(c, KeysOf(g))
  BY DEF Added
<1>4. \A g \in GroupNames : F[g] \in Int /\ F[g] = IF g \in DOMAIN f THEN F[g] ELSE 0
  BY ColumnFacts DEF In
<1>5. \A g \in DOMAIN f : F[g] \in Int /\ Column(f, field)[g] = F[g]
  BY <1>1, ColumnFacts DEF In
<1>6. Added(t, Keys, field) = Sum(c, Keys)
  BY DEF Added
<1> HIDE DEF F, c
<1>7. Sum(F, GroupNames) = Sum(c, Keys)
  BY <1>2, <1>3, SumByGroup
<1>8. Sum(F, GroupNames) = Sum(F, GroupNames \cap DOMAIN f)
  BY <1>1, <1>4, SumOnly
<1>9. GroupNames \cap DOMAIN f = DOMAIN f /\ IsFiniteSet(DOMAIN f)
  BY <1>1, FS_Subset
<1>10. Sum(Column(f, field), DOMAIN f) = Sum(F, DOMAIN f)
  BY <1>5, <1>9, SumSame
<1>11. QED
  BY <1>6, <1>7, <1>8, <1>9, <1>10

\* The series of some groups.
Single(d, f, G) == {Series(d, g, f[g], FALSE) : g \in G}

\* They add up to the figures of these groups.
LEMMA SingleTotal ==
    ASSUME NEW f, IsGroups(f), NEW G \in SUBSET DOMAIN f, IsFiniteSet(G), NEW d,
           NEW field \in Fields, NEW F, \A s \in Single(d, f, G) : F[s] = s[field]
    PROVE  /\ IsFiniteSet(Single(d, f, G)) /\ \A s \in Single(d, f, G) : F[s] \in Int
           /\ Sum(F, Single(d, f, G)) = Sum(Column(f, field), G)
<1> DEFINE h == [g \in G |-> Series(d, g, f[g], FALSE)]
           C == Column(f, field)
<1>1. {h[g] : g \in G} = Single(d, f, G)
  BY DEF Single
<1>2. \A g \in G : h[g].group = g /\ h[g] \in Single(d, f, G)
  BY DEF Series, Single
<1>3. \A g \in G : h[g][field] = f[g][field]
  BY DEF Series, Fields
<1>4. \A g \in G : C[g] = f[g][field] /\ f[g][field] \in Nat
  BY ColumnFacts
<1> HIDE DEF h, C
<1>5. ASSUME NEW g \in G PROVE C[g] \in Int /\ C[g] = F[h[g]]
  <2>1. F[h[g]] = h[g][field]
    BY <1>2
  <2>2. QED
    BY <1>3, <1>4, <2>1
<1>6. \A g, e \in G : h[g] = h[e] => g = e
  BY <1>2
<1>7. IsFiniteSet({h[g] : g \in G}) /\ Sum(C, G) = Sum(F, {h[g] : g \in G})
  BY <1>5, <1>6, SumImage
<1>8. ASSUME NEW s \in Single(d, f, G) PROVE F[s] \in Int
  <2>1. PICK g \in G : s = h[g]
    BY <1>1
  <2>2. QED
    BY <1>5, <2>1
<1>9. QED
  BY <1>1, <1>7, <1>8 DEF C

\* The series of a database add up to the figures of its groups, folded or not.
LEMMA RegisteredTotal ==
    ASSUME IInv, NEW d \in DOMAIN metrics, NEW field \in Fields
    PROVE  Total(Registered(d), field) = Sum(Column(metrics[d], field), DOMAIN metrics[d])
<1> DEFINE f == metrics[d]
           C == Column(f, field)
           S == Registered(d)
           F == [s \in S |-> s[field]]
<1>1. IsGroups(f) /\ IsFiniteSet(DOMAIN f)
  BY Ranked DEF IInv, TypeInv
<1>2. Total(S, field) = Sum(F, S) /\ \A s \in S : F[s] = s[field]
  BY DEF Total
<1>3. CASE d \notin DOMAIN overflowed
  <2>1. S = Single(d, f, DOMAIN f)
    BY <1>3 DEF Registered, Single
  <2> HIDE DEF F, S, f
  <2>2. Sum(F, S) = Sum(Column(f, field), DOMAIN f)
    BY <1>1, <1>2, <2>1, SingleTotal
  <2>3. QED
    BY <1>2, <2>2 DEF F, S, f
<1>4. CASE d \in DOMAIN overflowed
  <2> DEFINE T == Top(f)
             rest == DOMAIN f \ T
             s == Series(d, Overflow, Aggregate(f), TRUE)
             A == Single(d, f, T)
  <2>1. /\ Cardinality(DOMAIN f) > MaxDistinctKeyGroups
        /\ overflowed[d] = [top |-> T, aggregate |-> Aggregate(f)]
    BY <1>4 DEF IInv, Folded
  <2>2. T \in SUBSET DOMAIN f
    BY DEF Top
  <2>3. S = A \cup {s}
    <3>1. overflowed[d].top = T /\ overflowed[d].aggregate = Aggregate(f)
      BY <2>1
    <3>2. QED
      BY <1>4, <3>1 DEF Registered, Single
  <2>4. s \notin A
    BY DEF Single, Series
  <2>5. s[field] = Sum(C, rest)
    <3>1. s.count = Aggregate(f).count /\ s.memoryUsage = Aggregate(f).memoryUsage
      BY DEF Series
    <3>2. /\ Aggregate(f).count = Sum(Column(f, "count"), rest)
          /\ Aggregate(f).memoryUsage = Sum(Column(f, "memoryUsage"), rest)
      BY DEF Aggregate, Column
    <3> HIDE DEF s, T, rest
    <3>3. CASE field = "count"
      BY <3>1, <3>2, <3>3
    <3>4. CASE field = "memoryUsage"
      BY <3>1, <3>2, <3>4
    <3>5. QED
      BY <3>3, <3>4 DEF Fields
  <2>6. IsFiniteSet(T) /\ IsFiniteSet(rest) /\ T \cap rest = {} /\ T \cup rest = DOMAIN f
    BY <1>1, <2>2, FS_Subset
  <2>7. \A g \in DOMAIN f : C[g] \in Int
    BY <1>1, ColumnFacts
  <2> HIDE DEF F, C, S, s, A, T, rest, f
  <2>8. \A x \in A : F[x] = x[field]
    BY <1>2, <2>3
  <2>9. IsFiniteSet(A) /\ (\A x \in A : F[x] \in Int) /\ Sum(F, A) = Sum(C, T)
    BY <1>1, <2>2, <2>6, <2>8, SingleTotal DEF A, C
  <2>10. Sum(C, DOMAIN f) = Sum(C, T) + Sum(C, rest)
    BY <2>6, <2>7, SumUnion
  <2>11. Sum(C, T) \in Int /\ Sum(C, rest) \in Int
    BY <2>6, <2>7, SumType
  <2>12. F[s] = Sum(C, rest)
    BY <1>2, <2>3, <2>5
  <2>13. Sum(F, A \cup {s}) = F[s] + Sum(F, A)
    <3>1. \A x \in A \cup {s} : F[x] \in Int
      BY <2>9, <2>11, <2>12
    <3>2. QED
      BY <2>4, <2>9, <3>1, SumAdd
  <2>14. Sum(F, S) = Sum(C, DOMAIN f)
    BY <2>3, <2>9, <2>10, <2>11, <2>12, <2>13
  <2>15. QED
    BY <1>2, <2>14 DEF F, C, S, f
<1>5. QED
  BY <1>3, <1>4

\* The series of a database are those registered for it.
LEMMA SeriesOfFacts ==
    ASSUME IInv, pc = "done", NEW d \in DOMAIN metrics
    PROVE  SeriesOf(d) = Registered(d)
<1>1. series = UNION {Registered(e) : e \in DOMAIN metrics}
  BY DEF IInv, Exported
<1>2. \A e : \A s \in Registered(e) : s.db = e
  BY DEF Registered, Series
<1>3. QED
  BY <1>1, <1>2 DEF SeriesOf

\* What SCAN returned of the keys of a database, and what its series add up to.
LEMMA Accounted ==
    ASSUME IInv, pc = "done", NEW d \in DOMAIN distinct
    PROVE  /\ Total(SeriesOf(d), "count") = Returned(d, Keys, "count")
           /\ Returned(d, Denied, "count") = 0 =>
                 Total(SeriesOf(d), "memoryUsage") = Returned(d, Keys, "memoryUsage")
<1> DEFINE f == metrics[d]
           t == truth[d]
<1>1. d \in DOMAIN metrics /\ d \in Dbs
  BY DEF IInv, Exported, TypeInv, TypeOK
<1>2. IsGroups(f) /\ Exact(f, t) /\ t \in [Keys -> Figures]
  BY <1>1, StoreFacts DEF IInv, TypeInv, StoredExact
<1>3. ASSUME NEW field \in Fields
      PROVE  Total(SeriesOf(d), field) = Sum(Column(f, field), DOMAIN f)
  <2>1. Total(Registered(d), field) = Sum(Column(f, field), DOMAIN f)
    BY <1>1, RegisteredTotal
  <2>2. SeriesOf(d) = Registered(d)
    BY <1>1, SeriesOfFacts
  <2>3. QED
    BY <2>1, <2>2
<1>4. \A K, field : Returned(d, K, field) = Added(t, K, field)
  BY DEF Returned, Added
<1>5. "count" \in Fields /\ "memoryUsage" \in Fields
  BY DEF Fields
<1> HIDE DEF f, t
<1>6. Sum(Column(f, "count"), DOMAIN f) = Added(t, Keys, "count")
  BY <1>2, <1>5, ColumnTotal DEF Exact
<1>7. ASSUME Added(t, Denied, "count") = 0 PROVE NoneDenied(t)
  <2> DEFINE c == [k \in Keys |-> t[k]["count"]]
  <2>1. Denied \in SUBSET Keys
    BY DeniedAssumption
  <2>2. IsFiniteSet(Denied) /\ \A k \in Denied : c[k] \in Nat
    BY <1>2, <2>1, AddedFacts
  <2>3. Sum(c, Denied) = 0
    BY <1>7 DEF Added
  <2>4. \A k \in Denied : c[k] = t[k].count
    BY <2>1
  <2> HIDE DEF c
  <2>5. \A k \in Denied : c[k] = 0
    BY <2>2, <2>3, SumZero
  <2>6. QED
    BY <2>4, <2>5 DEF NoneDenied
<1>8. NoneDenied(t) => Sum(Column(f, "memoryUsage"), DOMAIN f) = Added(t, Keys, "memoryUsage")
  BY <1>2, <1>5, ColumnTotal DEF Exact
<1>9. QED
  BY <1>3, <1>4, <1>5, <1>6, <1>7, <1>8

\* However the keys are cut into batches and the groups folded, the series of a database
\* count every key that SCAN returned once for each time it was returned.
THEOREM KeysAreAccounted == Spec => []KeysAccounted
<1>1. IInv => KeysAccounted
  BY Accounted DEF KeysAccounted
<1>2. QED
  BY <1>1, Invariant, PTL

\* And if MEMORY USAGE was allowed on all these keys, the memory of the series is theirs.
THEOREM MemoryIsAccounted == Spec => []MemoryAccounted
<1>1. IInv => MemoryAccounted
  BY Accounted DEF MemoryAccounted
<1>2. QED
  BY <1>1, Invariant, PTL

=============================================================================
