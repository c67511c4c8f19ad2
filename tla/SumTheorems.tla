---------------------------- MODULE SumTheorems ----------------------------
(***************************************************************************)
(* Induction over natural numbers and finite sets, stated for sets instead *)
(* of predicates, and what SumFunctionOnSet adds up, for every finite set. *)
(***************************************************************************)
EXTENDS Integers, FiniteSetTheorems, TLAPS

\* A set of natural numbers has a least element.
LEMMA Least ==
  ASSUME NEW T \in SUBSET Nat, T # {}
  PROVE  \E n \in T : \A m \in T : n <= m
<1> DEFINE R == {ss \in Nat \X Nat : ss[1] < ss[2]}
<1>1. IsWellFoundedOn(R, Nat)
  BY NatLessThanWellFounded DEF OpToRel
<1>2. \A m, n \in Nat : m < n => <<m, n>> \in R
  OBVIOUS
<1> HIDE DEF R
<1>3. PICK n \in T : \A m \in T : ~(<<m, n>> \in R)
  BY <1>1, WFMin, Zenon
<1>4. \A m \in T : n <= m
  <2> TAKE m \in T
  <2>1. m \in Nat /\ n \in Nat
    OBVIOUS
  <2>2. ~(m < n)
    BY <1>2, <1>3, <2>1, Zenon
  <2> QED BY <2>1, <2>2
<1> QED BY <1>4

\* Induction: a set with 0 that is closed under successors has every natural number.
LEMMA Induction ==
  ASSUME NEW N, 0 \in N, \A n \in Nat : n \in N => n + 1 \in N
  PROVE  Nat \subseteq N
<1> SUFFICES ASSUME Nat \ N # {} PROVE FALSE
  OBVIOUS
<1>1. PICK n \in Nat \ N : \A m \in Nat \ N : n <= m
  BY Least, Zenon
<1>2. n # 0 /\ n - 1 \in Nat /\ (n - 1) + 1 = n
  BY <1>1
<1>3. n - 1 \in N
  BY <1>1, <1>2
<1> QED BY <1>1, <1>2, <1>3

\* Induction over a finite set: a family of sets that has {} and grows by any element has the set.
LEMMA FiniteInduction ==
  ASSUME NEW S, IsFiniteSet(S), NEW F, {} \in F,
         \A s \in SUBSET S : s \in F => \A x \in S \ s : s \cup {x} \in F
  PROVE  S \in F
<1> DEFINE N == {n \in Nat : \A s \in SUBSET S : Cardinality(s) = n => s \in F}
<1>1. \A s \in SUBSET S : IsFiniteSet(s) /\ Cardinality(s) \in Nat
  BY FS_Subset, FS_CardinalityType
<1>2. 0 \in N
  BY <1>1, FS_EmptySet, Zenon
<1>3. ASSUME NEW n \in Nat, n \in N PROVE n + 1 \in N
  <2> SUFFICES ASSUME NEW s \in SUBSET S, Cardinality(s) = n + 1 PROVE s \in F
    OBVIOUS
  <2>0. IsFiniteSet(s) /\ n + 1 # 0 /\ (n + 1) - 1 = n
    BY <1>1
  <2>1. PICK x : x \in s
    BY <2>0, FS_EmptySet
  <2>2. Cardinality(s \ {x}) = n
    BY <2>0, <2>1, FS_RemoveElement, Zenon
  <2>3. s \ {x} \in SUBSET S /\ s \ {x} \in F
    BY <1>3, <2>2
  <2>4. s = (s \ {x}) \cup {x} /\ x \in S \ (s \ {x})
    BY <2>1
  <2> QED BY <2>3, <2>4
<1> HIDE DEF N
<1>4. Nat \subseteq N
  BY <1>2, <1>3, Induction
<1>5. Cardinality(S) \in N
  BY <1>1, <1>4
<1> QED BY <1>5 DEF N
-----------------------------------------------------------------------------
\* The recursion behind SumFunctionOnSet: which element is added next.
Pick(s) == CHOOSE x \in s : TRUE
Rest(s) == s \ {Pick(s)}
AddsUp(it, f, s) == it[s] = IF s = {} THEN 0 ELSE f[Pick(s)] + it[Rest(s)]
IsSum(it, f, S) == it = [s \in SUBSET S |-> IF s = {} THEN 0 ELSE f[Pick(s)] + it[Rest(s)]]

LEMMA RestSmaller ==
  ASSUME NEW s, IsFiniteSet(s), s # {}
  PROVE  /\ Pick(s) \in s /\ Rest(s) \subseteq s /\ IsFiniteSet(Rest(s))
         /\ Cardinality(Rest(s)) = Cardinality(s) - 1
         /\ Cardinality(s) \in Nat \ {0}
<1>1. Pick(s) \in s
  BY DEF Pick
<1> QED BY <1>1, FS_RemoveElement, FS_CardinalityType, FS_EmptySet DEF Rest

\* There is a function that adds up the subsets of a finite set, ...
LEMMA SumExists ==
  ASSUME NEW f, NEW S, IsFiniteSet(S)
  PROVE  \E it : IsSum(it, f, S)
<1> DEFINE L(n) == {s \in SUBSET S : Cardinality(s) <= n}
           Adds(it, n) == \A s \in L(n) : AddsUp(it, f, s)
           N == {n \in Nat : \E it : Adds(it, n)}
<1>1. \A s \in SUBSET S : IsFiniteSet(s) /\ Cardinality(s) \in Nat /\ (Cardinality(s) = 0 <=> s = {})
  BY FS_Subset, FS_CardinalityType, FS_EmptySet
<1>2. \A s \in SUBSET S : s # {} => Rest(s) \in SUBSET S /\ Cardinality(Rest(s)) = Cardinality(s) - 1
  BY <1>1, RestSmaller
<1>3. 0 \in N
  <2> DEFINE it == [s \in SUBSET S |-> 0]
  <2>1. Adds(it, 0)
    BY <1>1 DEF AddsUp
  <2> QED BY <2>1
<1>4. ASSUME NEW n \in Nat, n \in N PROVE n + 1 \in N
  <2>1. PICK jt : Adds(jt, n)
    BY <1>4
  <2> DEFINE it == [s \in SUBSET S |-> IF s \in L(n) THEN jt[s] ELSE f[Pick(s)] + jt[Rest(s)]]
  <2>2. ASSUME NEW s \in L(n + 1) PROVE AddsUp(it, f, s)
    <3>1. CASE s = {}
      <4>1. s \in L(n)
        BY <1>1, <3>1
      <4>2. it[s] = jt[s] /\ jt[s] = 0
        BY <2>1, <3>1, <4>1 DEF AddsUp
      <4> QED BY <3>1, <4>2 DEF AddsUp
    <3>2. CASE s # {}
      <4>1. Rest(s) \in L(n)
        BY <1>1, <1>2, <2>2, <3>2
      <4>2. it[Rest(s)] = jt[Rest(s)]
        BY <4>1
      <4>3. CASE s \in L(n)
        BY <2>1, <3>2, <4>2, <4>3 DEF AddsUp
      <4>4. CASE s \notin L(n)
        BY <2>2, <3>2, <4>2, <4>4 DEF AddsUp
      <4> QED BY <4>3, <4>4
    <3> QED BY <3>1, <3>2
  <2>3. Adds(it, n + 1)
    BY <2>2
  <2> HIDE DEF it, Adds
  <2> QED BY <2>3
<1> HIDE DEF N
<1>5. Cardinality(S) \in N
  BY <1>1, <1>3, <1>4, Induction
<1>6. PICK jt : Adds(jt, Cardinality(S))
  BY <1>5 DEF N
<1>7. \A s \in SUBSET S : AddsUp(jt, f, s)
  BY <1>1, <1>6, FS_Subset
<1> DEFINE it == [s \in SUBSET S |-> jt[s]]
<1>8. IsSum(it, f, S)
  BY <1>2, <1>7 DEF AddsUp, IsSum
<1> QED BY <1>8

\* ... and SumFunctionOnSet is its value at the whole set.
LEMMA SumIs ==
  ASSUME NEW f, NEW S, IsFiniteSet(S)
  PROVE  \E it : it[S] = SumFunctionOnSet(f, S) /\ \A s \in SUBSET S : AddsUp(it, f, s)
<1> DEFINE it == CHOOSE jt : IsSum(jt, f, S)
<1>1. SumFunctionOnSet(f, S) = it[S]
  BY DEF SumFunctionOnSet, FoldFunctionOnSet, MapThenFoldSet, IsSum, Pick, Rest
<1>3. IsSum(it, f, S)
  BY SumExists, Zenon
<1> HIDE DEF it
<1>4. \A s \in SUBSET S : AddsUp(it, f, s)
  BY <1>3 DEF AddsUp, IsSum
<1> QED BY <1>1, <1>4

\* Two functions that add up the subsets of one set agree on them.
LEMMA SumUnique ==
  ASSUME NEW f, NEW S, IsFiniteSet(S), NEW it, NEW jt,
         \A s \in SUBSET S : AddsUp(it, f, s), \A s \in SUBSET S : AddsUp(jt, f, s)
  PROVE  it[S] = jt[S]
<1> DEFINE N == {n \in Nat : \A s \in SUBSET S : Cardinality(s) = n => it[s] = jt[s]}
<1>1. \A s \in SUBSET S : IsFiniteSet(s) /\ Cardinality(s) \in Nat /\ (Cardinality(s) = 0 <=> s = {})
  BY FS_Subset, FS_CardinalityType, FS_EmptySet
<1>2. 0 \in N
  BY <1>1, Zenon DEF AddsUp
<1>3. ASSUME NEW n \in Nat, n \in N PROVE n + 1 \in N
  <2> SUFFICES ASSUME NEW s \in SUBSET S, Cardinality(s) = n + 1 PROVE it[s] = jt[s]
    OBVIOUS
  <2>1. s # {} /\ (n + 1) - 1 = n
    BY <1>1
  <2>2. Rest(s) \in SUBSET S /\ Cardinality(Rest(s)) = n
    BY <1>1, <2>1, RestSmaller
  <2>3. it[Rest(s)] = jt[Rest(s)]
    BY <1>3, <2>2
  <2> QED BY <2>1, <2>3 DEF AddsUp
<1> HIDE DEF N
<1>4. Cardinality(S) \in N
  BY <1>1, <1>2, <1>3, Induction
<1> QED BY <1>4 DEF N

\* Nothing adds up to 0; a set adds up to one of its elements and the rest.
LEMMA SumEmpty ==
  ASSUME NEW f
  PROVE  SumFunctionOnSet(f, {}) = 0
BY SumIs, FS_EmptySet DEF AddsUp

LEMMA SumPick ==
  ASSUME NEW f, NEW S, IsFiniteSet(S), S # {}
  PROVE  SumFunctionOnSet(f, S) = f[Pick(S)] + SumFunctionOnSet(f, Rest(S))
<1>1. PICK it : it[S] = SumFunctionOnSet(f, S) /\ \A s \in SUBSET S : AddsUp(it, f, s)
  BY SumIs, Zenon
<1>2. IsFiniteSet(Rest(S)) /\ Rest(S) \subseteq S
  BY RestSmaller
<1>3. PICK jt : jt[Rest(S)] = SumFunctionOnSet(f, Rest(S)) /\ \A s \in SUBSET Rest(S) : AddsUp(jt, f, s)
  BY <1>2, SumIs
<1>4. \A s \in SUBSET Rest(S) : AddsUp(it, f, s)
  BY <1>1, <1>2
<1>5. it[Rest(S)] = jt[Rest(S)]
  BY <1>2, <1>3, <1>4, SumUnique, Zenon
<1> QED BY <1>1, <1>3, <1>5 DEF AddsUp

\* Functions that agree on a set have the same sum over it.
LEMMA SumSame ==
  ASSUME NEW S, IsFiniteSet(S), NEW f, NEW g, \A x \in S : f[x] = g[x]
  PROVE  SumFunctionOnSet(f, S) = SumFunctionOnSet(g, S)
<1> DEFINE N == {n \in Nat : \A s \in SUBSET S :
                   Cardinality(s) = n => SumFunctionOnSet(f, s) = SumFunctionOnSet(g, s)}
<1>1. \A s \in SUBSET S : IsFiniteSet(s) /\ Cardinality(s) \in Nat /\ (Cardinality(s) = 0 <=> s = {})
  BY FS_Subset, FS_CardinalityType, FS_EmptySet
<1>2. 0 \in N
  BY <1>1, SumEmpty
<1>3. ASSUME NEW n \in Nat, n \in N PROVE n + 1 \in N
  <2> SUFFICES ASSUME NEW s \in SUBSET S, Cardinality(s) = n + 1
               PROVE  SumFunctionOnSet(f, s) = SumFunctionOnSet(g, s)
    OBVIOUS
  <2>1. IsFiniteSet(s) /\ s # {} /\ (n + 1) - 1 = n
    BY <1>1
  <2>2. Pick(s) \in S /\ Rest(s) \in SUBSET S /\ Cardinality(Rest(s)) = n
    BY <2>1, RestSmaller
  <2>3. SumFunctionOnSet(f, Rest(s)) = SumFunctionOnSet(g, Rest(s)) /\ f[Pick(s)] = g[Pick(s)]
    BY <1>3, <2>2
  <2>4. SumFunctionOnSet(f, s) = f[Pick(s)] + SumFunctionOnSet(f, Rest(s))
        /\ SumFunctionOnSet(g, s) = g[Pick(s)] + SumFunctionOnSet(g, Rest(s))
    BY <2>1, SumPick
  <2> QED BY <2>3, <2>4
<1> HIDE DEF N
<1>4. Cardinality(S) \in N
  BY <1>1, <1>2, <1>3, Induction
<1> QED BY <1>4 DEF N

\* The sum of integers is an integer, ...
LEMMA SumType ==
  ASSUME NEW S, IsFiniteSet(S), NEW f, \A x \in S : f[x] \in Int
  PROVE  SumFunctionOnSet(f, S) \in Int
<1> DEFINE N == {n \in Nat : \A s \in SUBSET S : Cardinality(s) = n => SumFunctionOnSet(f, s) \in Int}
<1>1. \A s \in SUBSET S : IsFiniteSet(s) /\ Cardinality(s) \in Nat /\ (Cardinality(s) = 0 <=> s = {})
  BY FS_Subset, FS_CardinalityType, FS_EmptySet
<1>2. 0 \in N
  BY <1>1, SumEmpty
<1>3. ASSUME NEW n \in Nat, n \in N PROVE n + 1 \in N
  <2> SUFFICES ASSUME NEW s \in SUBSET S, Cardinality(s) = n + 1 PROVE SumFunctionOnSet(f, s) \in Int
    OBVIOUS
  <2>1. IsFiniteSet(s) /\ s # {} /\ (n + 1) - 1 = n
    BY <1>1
  <2>2. Pick(s) \in S /\ Rest(s) \in SUBSET S /\ Cardinality(Rest(s)) = n
    BY <2>1, RestSmaller
  <2>3. SumFunctionOnSet(f, Rest(s)) \in Int /\ f[Pick(s)] \in Int
    BY <1>3, <2>2
  <2>4. SumFunctionOnSet(f, s) = f[Pick(s)] + SumFunctionOnSet(f, Rest(s))
    BY <2>1, SumPick
  <2> QED BY <2>3, <2>4
<1> HIDE DEF N
<1>4. Cardinality(S) \in N
  BY <1>1, <1>2, <1>3, Induction
<1> QED BY <1>4 DEF N

\* ... and any element may be taken out of it, whichever one the fold would add first.
LEMMA SumRemove ==
  ASSUME NEW S, IsFiniteSet(S), NEW f, \A x \in S : f[x] \in Int, NEW y \in S
  PROVE  SumFunctionOnSet(f, S) = f[y] + SumFunctionOnSet(f, S \ {y})
<1> DEFINE N == {n \in Nat : \A s \in SUBSET S : Cardinality(s) = n =>
                    \A z \in s : SumFunctionOnSet(f, s) = f[z] + SumFunctionOnSet(f, s \ {z})}
<1>1. \A s \in SUBSET S : IsFiniteSet(s) /\ Cardinality(s) \in Nat /\ (Cardinality(s) = 0 <=> s = {})
  BY FS_Subset, FS_CardinalityType, FS_EmptySet
<1>2. 0 \in N
  BY <1>1
<1>3. ASSUME NEW n \in Nat, n \in N PROVE n + 1 \in N
  <2> SUFFICES ASSUME NEW s \in SUBSET S, Cardinality(s) = n + 1, NEW z \in s
               PROVE  SumFunctionOnSet(f, s) = f[z] + SumFunctionOnSet(f, s \ {z})
    OBVIOUS
  <2> DEFINE p == Pick(s)
  <2>1. IsFiniteSet(s) /\ s # {} /\ (n + 1) - 1 = n
    BY <1>1
  <2>2. p \in s /\ Rest(s) = s \ {p}
    BY <2>1, RestSmaller DEF Rest
  <2>3. SumFunctionOnSet(f, s) = f[p] + SumFunctionOnSet(f, s \ {p})
    BY <2>1, <2>2, SumPick
  <2> HIDE DEF p
  <2>4. CASE z = p
    BY <2>3, <2>4
  <2>5. CASE z # p
    <3>1. /\ s \ {p} \in SUBSET S /\ Cardinality(s \ {p}) = n /\ z \in s \ {p}
          /\ s \ {z} \in SUBSET S /\ Cardinality(s \ {z}) = n /\ p \in s \ {z}
      BY <2>1, <2>2, <2>5, FS_RemoveElement, ZenonT(30)
    <3>2. SumFunctionOnSet(f, s \ {p}) = f[z] + SumFunctionOnSet(f, (s \ {p}) \ {z})
      BY <1>3, <3>1
    <3>3. SumFunctionOnSet(f, s \ {z}) = f[p] + SumFunctionOnSet(f, (s \ {z}) \ {p})
      BY <1>3, <3>1
    <3>4. (s \ {z}) \ {p} = (s \ {p}) \ {z}
      OBVIOUS
    <3>5. SumFunctionOnSet(f, (s \ {p}) \ {z}) \in Int
      <4> DEFINE u == (s \ {p}) \ {z}
      <4>1. u \in SUBSET S /\ IsFiniteSet(u)
        BY <1>1
      <4> QED BY <4>1, SumType
    <3>6. f[z] \in Int /\ f[p] \in Int
      BY <2>2
    <3> DEFINE q == SumFunctionOnSet(f, (s \ {p}) \ {z})
    <3>7. SumFunctionOnSet(f, s) = f[p] + (f[z] + q) /\ SumFunctionOnSet(f, s \ {z}) = f[p] + q
      BY <2>3, <3>2, <3>3, <3>4, Zenon
    <3> HIDE DEF q
    <3>8. f[p] + (f[z] + q) = f[z] + (f[p] + q)
      BY <3>5, <3>6 DEF q
    <3> QED BY <3>7, <3>8, Zenon
  <2> QED BY <2>4, <2>5
<1> HIDE DEF N
<1>4. Cardinality(S) \in N
  BY <1>1, <1>2, <1>3, Induction
<1> QED BY <1>4 DEF N

LEMMA SumAdd ==
  ASSUME NEW S, IsFiniteSet(S), NEW f, NEW y, y \notin S, \A x \in S \cup {y} : f[x] \in Int
  PROVE  SumFunctionOnSet(f, S \cup {y}) = f[y] + SumFunctionOnSet(f, S)
<1>1. IsFiniteSet(S \cup {y}) /\ y \in S \cup {y} /\ (S \cup {y}) \ {y} = S
  BY FS_AddElement
<1> QED BY <1>1, SumRemove

\* Changing the value of one element changes the sum by the difference.
LEMMA SumChange ==
  ASSUME NEW S, IsFiniteSet(S), NEW f, NEW g, NEW y \in S,
         \A x \in S : f[x] \in Int /\ g[x] \in Int, \A x \in S \ {y} : f[x] = g[x]
  PROVE  /\ SumFunctionOnSet(g, S) = SumFunctionOnSet(f, S) + (g[y] - f[y])
         /\ SumFunctionOnSet(f, S) \in Int /\ SumFunctionOnSet(g, S) \in Int
<1>1. IsFiniteSet(S \ {y})
  BY FS_RemoveElement
<1>2. SumFunctionOnSet(f, S \ {y}) = SumFunctionOnSet(g, S \ {y}) /\ SumFunctionOnSet(f, S \ {y}) \in Int
  BY <1>1, SumSame, SumType
<1>3. SumFunctionOnSet(f, S) = f[y] + SumFunctionOnSet(f, S \ {y})
      /\ SumFunctionOnSet(g, S) = g[y] + SumFunctionOnSet(g, S \ {y})
  BY SumRemove
<1>4. f[y] \in Int /\ g[y] \in Int
  OBVIOUS
<1> QED BY <1>2, <1>3, <1>4

\* The same, for provers that have to find f, g, S and y.
SameBut(f, g, S, y) ==
  /\ IsFiniteSet(S) /\ y \in S
  /\ \A x \in S : f[x] \in Int /\ g[x] \in Int
  /\ \A x \in S \ {y} : f[x] = g[x]
SumMoves(f, g, S, y) == SumFunctionOnSet(g, S) = SumFunctionOnSet(f, S) + (g[y] - f[y])

LEMMA SumMove ==
  ASSUME NEW S, NEW f, NEW g, NEW y, SameBut(f, g, S, y)
  PROVE  SumMoves(f, g, S, y)
<1>1. /\ IsFiniteSet(S) /\ y \in S
      /\ \A x \in S : f[x] \in Int /\ g[x] \in Int
      /\ \A x \in S \ {y} : f[x] = g[x]
  BY DEF SameBut
<1>2. SumFunctionOnSet(g, S) = SumFunctionOnSet(f, S) + (g[y] - f[y])
  BY <1>1, SumChange
<1> QED BY <1>2 DEF SumMoves

\* A function that is nowhere larger has no larger sum.
LEMMA SumMonotone ==
  ASSUME NEW S, IsFiniteSet(S), NEW f, NEW g,
         \A x \in S : f[x] \in Int /\ g[x] \in Int /\ f[x] <= g[x]
  PROVE  SumFunctionOnSet(f, S) <= SumFunctionOnSet(g, S)
<1> DEFINE F == {s \in SUBSET S : SumFunctionOnSet(f, s) <= SumFunctionOnSet(g, s)}
<1>1. {} \in F
  BY SumEmpty
<1>2. ASSUME NEW s \in SUBSET S, s \in F, NEW x \in S \ s PROVE s \cup {x} \in F
  <2>1. IsFiniteSet(s)
    BY FS_Subset
  <2>2. SumFunctionOnSet(f, s \cup {x}) = f[x] + SumFunctionOnSet(f, s)
        /\ SumFunctionOnSet(g, s \cup {x}) = g[x] + SumFunctionOnSet(g, s)
    BY <2>1, SumAdd, Zenon
  <2>3. SumFunctionOnSet(f, s) \in Int /\ SumFunctionOnSet(g, s) \in Int
        /\ SumFunctionOnSet(f, s) <= SumFunctionOnSet(g, s)
    BY <1>2, <2>1, SumType
  <2>4. f[x] \in Int /\ g[x] \in Int /\ f[x] <= g[x]
    OBVIOUS
  <2>5. SumFunctionOnSet(f, s \cup {x}) <= SumFunctionOnSet(g, s \cup {x})
    BY <2>2, <2>3, <2>4
  <2> QED BY <2>5
<1> HIDE DEF F
<1>3. S \in F
  BY <1>1, <1>2, FiniteInduction, Zenon
<1> QED BY <1>3 DEF F

\* A constant adds up to the constant times the size.
LEMMA SumConstant ==
  ASSUME NEW S, IsFiniteSet(S), NEW f, NEW k \in Int, \A x \in S : f[x] = k
  PROVE  SumFunctionOnSet(f, S) = k * Cardinality(S)
<1> DEFINE F == {s \in SUBSET S : SumFunctionOnSet(f, s) = k * Cardinality(s)}
<1>1. {} \in F
  BY SumEmpty, FS_EmptySet
<1>2. ASSUME NEW s \in SUBSET S, s \in F, NEW x \in S \ s PROVE s \cup {x} \in F
  <2>1. IsFiniteSet(s) /\ Cardinality(s) \in Nat
    BY FS_Subset, FS_CardinalityType
  <2>2. SumFunctionOnSet(f, s \cup {x}) = k + SumFunctionOnSet(f, s)
    BY <2>1, SumAdd, ZenonT(30)
  <2>3. Cardinality(s \cup {x}) = Cardinality(s) + 1
    BY <2>1, FS_AddElement, Zenon
  <2>4. k + k * Cardinality(s) = k * (Cardinality(s) + 1)
    BY <2>1
  <2> QED BY <1>2, <2>2, <2>3, <2>4
<1> HIDE DEF F
<1>3. S \in F
  BY <1>1, <1>2, FiniteInduction, Zenon
<1> QED BY <1>3 DEF F

\* Two disjoint sets add up to the sum of their sums.
LEMMA SumUnion ==
  ASSUME NEW S, IsFiniteSet(S), NEW T, IsFiniteSet(T), S \cap T = {},
         NEW f, \A x \in S \cup T : f[x] \in Int
  PROVE  SumFunctionOnSet(f, S \cup T) = SumFunctionOnSet(f, S) + SumFunctionOnSet(f, T)
<1> DEFINE F == {s \in SUBSET S :
                   SumFunctionOnSet(f, s \cup T) = SumFunctionOnSet(f, s) + SumFunctionOnSet(f, T)}
<1>0. SumFunctionOnSet(f, T) \in Int
  BY SumType
<1>1. {} \in F
  <2>1. {} \cup T = T
    OBVIOUS
  <2> QED BY <1>0, <2>1, SumEmpty
<1>2. ASSUME NEW s \in SUBSET S, s \in F, NEW x \in S \ s PROVE s \cup {x} \in F
  <2>1. IsFiniteSet(s) /\ IsFiniteSet(s \cup T)
    BY FS_Subset, FS_Union, Zenon
  <2>2. (s \cup {x}) \cup T = (s \cup T) \cup {x} /\ x \notin s \cup T
    OBVIOUS
  <2>3. SumFunctionOnSet(f, (s \cup T) \cup {x}) = f[x] + SumFunctionOnSet(f, s \cup T)
    BY <2>1, <2>2, SumAdd
  <2>4. SumFunctionOnSet(f, s \cup {x}) = f[x] + SumFunctionOnSet(f, s)
    BY <2>1, SumAdd, Zenon
  <2>5. SumFunctionOnSet(f, s) \in Int /\ f[x] \in Int
    BY <2>1, SumType
  <2>6. SumFunctionOnSet(f, s \cup T) = SumFunctionOnSet(f, s) + SumFunctionOnSet(f, T)
    BY <1>2
  <2>7. SumFunctionOnSet(f, (s \cup {x}) \cup T) = SumFunctionOnSet(f, s \cup {x}) + SumFunctionOnSet(f, T)
    <3> DEFINE a == SumFunctionOnSet(f, s)
               b == SumFunctionOnSet(f, T)
    <3>1. SumFunctionOnSet(f, (s \cup {x}) \cup T) = f[x] + (a + b)
          /\ SumFunctionOnSet(f, s \cup {x}) = f[x] + a
      BY <2>2, <2>3, <2>4, <2>6, Zenon
    <3>2. a \in Int /\ b \in Int /\ f[x] \in Int
      BY <1>0, <2>5
    <3> HIDE DEF a, b
    <3>3. f[x] + (a + b) = (f[x] + a) + b
      BY <3>2
    <3> QED BY <3>1, <3>3, Zenon DEF b
  <2> QED BY <2>7
<1> HIDE DEF F
<1>3. S \in F
  BY <1>1, <1>2, FiniteInduction, Zenon
<1> QED BY <1>3 DEF F

\* Natural numbers add up to one.
LEMMA SumNat ==
  ASSUME NEW S, IsFiniteSet(S), NEW f, \A x \in S : f[x] \in Nat
  PROVE  SumFunctionOnSet(f, S) \in Nat
<1> DEFINE z == [x \in S |-> 0]
<1>1. \A x \in S : z[x] = 0 /\ z[x] \in Int /\ f[x] \in Int /\ z[x] <= f[x]
  OBVIOUS
<1> HIDE DEF z
<1>2. SumFunctionOnSet(z, S) <= SumFunctionOnSet(f, S)
  BY <1>1, SumMonotone
<1>3. SumFunctionOnSet(z, S) = 0 * Cardinality(S) /\ Cardinality(S) \in Nat
  BY <1>1, SumConstant, FS_CardinalityType
<1>4. SumFunctionOnSet(f, S) \in Int
  BY <1>1, SumType
<1> QED BY <1>2, <1>3, <1>4

\* Clearing some of the numbers takes their sum away.
ZeroOn(f, g, S, X) ==
  /\ IsFiniteSet(S) /\ X \subseteq S
  /\ \A x \in S : f[x] \in Int /\ g[x] = IF x \in X THEN 0 ELSE f[x]

LEMMA SumCleared ==
  ASSUME NEW S, NEW X, NEW f, NEW g, ZeroOn(f, g, S, X)
  PROVE  SumFunctionOnSet(g, S) = SumFunctionOnSet(f, S) - SumFunctionOnSet(f, X)
<1> USE DEF ZeroOn
<1> DEFINE Y == S \ X
<1>1. IsFiniteSet(X) /\ IsFiniteSet(Y) /\ X \cap Y = {} /\ S = X \cup Y
  BY FS_Subset
<1>2. (\A x \in X \cup Y : f[x] \in Int) /\ (\A x \in X \cup Y : g[x] \in Int)
  BY <1>1
<1>3. (\A x \in X : g[x] = 0) /\ (\A x \in Y : g[x] = f[x])
  BY <1>1
<1> HIDE DEF Y
<1>4. SumFunctionOnSet(f, S) = SumFunctionOnSet(f, X) + SumFunctionOnSet(f, Y)
  BY <1>1, <1>2, SumUnion, Zenon
<1>5. SumFunctionOnSet(g, S) = SumFunctionOnSet(g, X) + SumFunctionOnSet(g, Y)
  BY <1>1, <1>2, SumUnion, Zenon
<1>6. SumFunctionOnSet(g, X) = 0
  <2>1. SumFunctionOnSet(g, X) = 0 * Cardinality(X) /\ Cardinality(X) \in Nat
    BY <1>1, <1>3, SumConstant, FS_CardinalityType
  <2> QED BY <2>1
<1>7. SumFunctionOnSet(g, Y) = SumFunctionOnSet(f, Y)
  BY <1>1, <1>3, SumSame, Zenon
<1>8. SumFunctionOnSet(f, X) \in Int /\ SumFunctionOnSet(f, Y) \in Int
  BY <1>1, <1>2, SumType
<1> QED BY <1>4, <1>5, <1>6, <1>7, <1>8

\* Counting the elements of C at every place of P counts those at a place of P.
PlacedIn(C, at, P) == {i \in C : at[i] \in P}
CountsPlaces(f, C, at, P) == \A p \in P : f[p] = Cardinality({i \in C : at[i] = p})

LEMMA SumOfPlaces ==
  ASSUME NEW C, IsFiniteSet(C), NEW at, NEW P, IsFiniteSet(P), NEW f, CountsPlaces(f, C, at, P)
  PROVE  SumFunctionOnSet(f, P) = Cardinality(PlacedIn(C, at, P))
<1> USE DEF PlacedIn, CountsPlaces
<1> DEFINE In(s) == {i \in C : at[i] \in s}
           F == {s \in SUBSET P : SumFunctionOnSet(f, s) = Cardinality(In(s))}
<1>1. {} \in F
  <2>1. In({}) = {}
    OBVIOUS
  <2> QED BY <2>1, SumEmpty, FS_EmptySet
<1>2. ASSUME NEW s \in SUBSET P, s \in F, NEW x \in P \ s PROVE s \cup {x} \in F
  <2> DEFINE X == {i \in C : at[i] = x}
  <2>1. IsFiniteSet(s) /\ IsFiniteSet(X) /\ IsFiniteSet(In(s))
    BY FS_Subset
  <2>2. In(s \cup {x}) = In(s) \cup X /\ In(s) \cap X = {}
    OBVIOUS
  <2>3. \A p \in P : f[p] \in Int
    <3> SUFFICES ASSUME NEW p \in P PROVE f[p] \in Int
      OBVIOUS
    <3>1. IsFiniteSet({i \in C : at[i] = p})
      BY FS_Subset
    <3>2. Cardinality({i \in C : at[i] = p}) \in Nat
      BY <3>1, FS_CardinalityType, Zenon
    <3>3. f[p] \in Nat
      BY <3>2, Zenon
    <3> QED BY <3>3
  <2>4. SumFunctionOnSet(f, s \cup {x}) = f[x] + SumFunctionOnSet(f, s)
    BY <2>1, <2>3, SumAdd
  <2>5. f[x] = Cardinality(X) /\ SumFunctionOnSet(f, s) = Cardinality(In(s))
    BY <1>2, Zenon
  <2> HIDE DEF X, In
  <2>6. Cardinality(In(s)) \in Nat /\ Cardinality(X) \in Nat
    BY <2>1, FS_CardinalityType
  <2>7. Cardinality(In(s) \cup X) = Cardinality(In(s)) + Cardinality(X)
    <3>1. Cardinality(In(s) \cup X) = Cardinality(In(s)) + Cardinality(X) - Cardinality(In(s) \cap X)
      BY <2>1, FS_Union, Zenon
    <3>2. Cardinality(In(s) \cap X) = 0
      BY <2>2, FS_EmptySet, Zenon
    <3> QED BY <2>6, <3>1, <3>2
  <2>8. SumFunctionOnSet(f, s \cup {x}) = Cardinality(X) + Cardinality(In(s))
    BY <2>4, <2>5, Zenon
  <2>9. Cardinality(In(s \cup {x})) = Cardinality(In(s)) + Cardinality(X)
    BY <2>2, <2>7, Zenon
  <2>10. Cardinality(X) + Cardinality(In(s)) = Cardinality(In(s)) + Cardinality(X)
    BY <2>6, SMTT(20)
  <2> QED BY <2>8, <2>9, <2>10
<1> HIDE DEF F
<1>3. P \in F
  BY <1>1, <1>2, FiniteInduction, Zenon
<1> QED BY <1>3 DEF F
-----------------------------------------------------------------------------
\* Division by a positive number, by the inequalities it solves.
LEMMA Division ==
  ASSUME NEW a \in Int, NEW b \in Nat \ {0}
  PROVE  /\ a \div b \in Int
         /\ b * (a \div b) <= a /\ a < b * (a \div b) + b
         /\ a % b = a - b * (a \div b)
OBVIOUS

LEMMA DivisionNat ==
  ASSUME NEW a \in Nat, NEW b \in Nat \ {0}
  PROVE  a \div b \in Nat
<1> DEFINE d == a \div b
<1>1. d \in Int /\ a < b * d + b
  BY Division
<1> HIDE DEF d
<1>2. ~(d < 0)
  <2> SUFFICES ASSUME d + 1 <= 0 PROVE FALSE
    BY <1>1
  <2>1. b * (d + 1) <= 0 /\ b * (d + 1) = b * d + b
    BY <1>1
  <2> QED BY <1>1, <2>1
<1> QED BY <1>1, <1>2 DEF d

\* Numbers with the same remainder that are less than the divisor apart are equal.
LEMMA SameRemainder ==
  ASSUME NEW a \in Int, NEW c \in Int, NEW b \in Nat \ {0}, a % b = c % b, a - c < b, c - a < b
  PROVE  a = c
<1> DEFINE d == a \div b
           e == c \div b
<1>1. d \in Int /\ e \in Int /\ a % b = a - b * d /\ c % b = c - b * e
  BY Division
<1> HIDE DEF d, e
<1>2. a - b * d = c - b * e
  BY <1>1
<1>3. ~(d < e)
  <2> SUFFICES ASSUME d + 1 <= e PROVE FALSE
    BY <1>1
  <2>1. b * (d + 1) <= b * e /\ b * (d + 1) = b * d + b
    BY <1>1
  <2>2. b * d \in Int /\ b * e \in Int
    BY <1>1
  <2> QED BY <1>2, <2>1, <2>2
<1>4. ~(e < d)
  <2> SUFFICES ASSUME e + 1 <= d PROVE FALSE
    BY <1>1
  <2>1. b * (e + 1) <= b * d /\ b * (e + 1) = b * e + b
    BY <1>1
  <2>2. b * d \in Int /\ b * e \in Int
    BY <1>1
  <2> QED BY <1>2, <2>1, <2>2
<1>5. d = e
  BY <1>1, <1>3, <1>4
<1>6. b * d \in Int /\ b * e = b * d
  BY <1>1, <1>5
<1> QED BY <1>2, <1>6

\* A remainder, also after adding the divisor.
LEMMA Remainder ==
  ASSUME NEW a \in Int, NEW b \in Nat \ {0}
  PROVE  a % b \in 0..(b - 1) /\ (a + b) % b = a % b
<1> DEFINE d == a \div b
           e == (a + b) \div b
<1>1. /\ d \in Int /\ b * d <= a /\ a < b * d + b /\ a % b = a - b * d
      /\ e \in Int /\ b * e <= a + b /\ a + b < b * e + b /\ (a + b) % b = (a + b) - b * e
  BY Division
<1> HIDE DEF d, e
<1>2. b * d \in Int /\ b * e \in Int
  BY <1>1
<1>3. a % b \in 0..(b - 1)
  BY <1>1, <1>2
<1>4. ~(e < d + 1)
  <2> SUFFICES ASSUME e <= d PROVE FALSE
    BY <1>1
  <2>1. b * e <= b * d
    BY <1>1
  <2> QED BY <1>1, <1>2, <2>1
<1>5. ~(e > d + 1)
  <2> SUFFICES ASSUME d + 2 <= e PROVE FALSE
    BY <1>1
  <2>1. b * (d + 2) <= b * e /\ b * (d + 2) = b * d + b + b
    BY <1>1
  <2> QED BY <1>1, <1>2, <2>1
<1>6. e = d + 1
  BY <1>1, <1>4, <1>5
<1>7. b * e = b * d + b
  BY <1>1, <1>6
<1> QED BY <1>1, <1>2, <1>3, <1>7
=============================================================================
