---------------------------- MODULE SumTheorems ----------------------------
(***************************************************************************)
(* Facts about SumFunctionOnSet over a finite set, for the counters that   *)
(* are sums over streams or packets, about Max and Min, and about folds,   *)
(* of which the sum is one: a function defined by recursion over the       *)
(* subsets of a set.  Induction is by smallest counterexample: WFMin,      *)
(* applied to the set of the counterexamples.                              *)
(***************************************************************************)
EXTENDS FiniteSetTheorems, FiniteSetsExt, TLAPS

\* The element with which the fold goes on, and one step of the recursion.
Pick(s) == CHOOSE x \in s : TRUE
SumStep(f, g, s) == IF s = {} THEN 0 ELSE f[Pick(s)] + g[s \ {Pick(s)}]

\* g holds the sums of f over the subsets of S.
SumsOver(f, S, g) == g = [s \in SUBSET S |-> SumStep(f, g, s)]

-----------------------------------------------------------------------------
\* A set of numbers that is not empty has a smallest element.
LEMMA SmallestNumber ==
  ASSUME NEW T, T \subseteq Nat, T # {}
  PROVE  \E m \in T : \A n \in T : m <= n
<1> DEFINE R == OpToRel(<, Nat)
<1>1. IsWellFoundedOn(R, Nat)
  BY NatLessThanWellFounded, Zenon
<1>2. R = {ss \in Nat \X Nat : ss[1] < ss[2]}
  BY Zenon DEF OpToRel
<1> HIDE DEF R
<1>3. PICK m \in T : \A n \in T : ~(<<n, m>> \in R)
  BY <1>1, WFMin
<1>4. ASSUME NEW n \in T, n < m PROVE FALSE
  <2>1. <<n, m>> \in {ss \in Nat \X Nat : ss[1] < ss[2]}
    BY <1>4
  <2> QED BY <1>2, <1>3, <2>1, Zenon
<1> QED BY <1>3, <1>4

\* A set of subsets of a finite set that is not empty has a smallest element.
LEMMA SmallestSubset ==
  ASSUME NEW S, IsFiniteSet(S), NEW T, T \subseteq SUBSET S, T # {}
  PROVE  \E s \in T : \A u \in T : ~(u \subseteq s /\ u # s)
<1>1. IsWellFoundedOn(StrictSubsetOrdering(S), SUBSET S)
  BY FS_StrictSubsetOrderingWellFounded, FS_FiniteSubsetsOfFinite
<1>2. PICK s \in T : \A u \in T : ~(<<u, s>> \in StrictSubsetOrdering(S))
  BY <1>1, WFMin
<1>3. \A u \in T : ~(u \subseteq s /\ u # s)
  BY <1>2 DEF StrictSubsetOrdering
<1> QED BY <1>3

LEMMA PickIn == ASSUME NEW s, s # {} PROVE Pick(s) \in s
BY DEF Pick

-----------------------------------------------------------------------------
\* The recursion has a solution: one for the subsets of n elements gives one
\* for those of n + 1.
LEMMA SumsExist ==
  ASSUME NEW S, IsFiniteSet(S), NEW f
  PROVE  \E g : SumsOver(f, S, g)
<1> DEFINE Upto(n) == {s \in SUBSET S : Cardinality(s) <= n}
           Good(n) == \E g : g = [s \in Upto(n) |-> SumStep(f, g, s)]
           Bad == {n \in Nat : ~Good(n)}
<1>1. \A s \in SUBSET S : IsFiniteSet(s) /\ Cardinality(s) \in Nat /\ Cardinality(s) <= Cardinality(S)
  BY FS_Subset, FS_CardinalityType
<1>2. Cardinality(S) \in Nat
  BY FS_CardinalityType
<1>3. \A s \in SUBSET S : s # {} => /\ s \ {Pick(s)} \in SUBSET S
                                    /\ Cardinality(s \ {Pick(s)}) = Cardinality(s) - 1
  BY <1>1, PickIn, FS_RemoveElement
<1>4. Good(0)
  <2>1. \A s \in Upto(0) : s = {}
    BY <1>1, FS_EmptySet
  <2> DEFINE g == [s \in Upto(0) |-> 0]
  <2>2. g = [s \in Upto(0) |-> SumStep(f, g, s)]
    BY <2>1 DEF SumStep
  <2> QED BY <2>2
<1>5. ASSUME NEW n \in Nat, Good(n) PROVE Good(n + 1)
  <2>1. PICK g : g = [s \in Upto(n) |-> SumStep(f, g, s)]
    BY <1>5
  <2> DEFINE h == [s \in Upto(n + 1) |-> SumStep(f, g, s)]
  <2>2. \A s \in Upto(n + 1) : s # {} => s \ {Pick(s)} \in Upto(n)
    BY <1>1, <1>3
  <2>3. Upto(n) \subseteq Upto(n + 1)
    BY <1>1
  <2>4. \A s \in Upto(n) : h[s] = g[s]
    BY <2>1, <2>3
  <2>5. \A s \in Upto(n + 1) : SumStep(f, g, s) = SumStep(f, h, s)
    BY <2>2, <2>4 DEF SumStep
  <2>6. h = [s \in Upto(n + 1) |-> SumStep(f, h, s)]
    BY <2>5
  <2> QED BY <2>6
<1>7. Upto(Cardinality(S)) = SUBSET S
  BY <1>1
<1> HIDE DEF Good
<1>6. Bad = {}
  <2> SUFFICES ASSUME Bad # {} PROVE FALSE
    OBVIOUS
  <2>1. PICK m \in Bad : \A n \in Bad : m <= n
    BY SmallestNumber
  <2>2. m # 0 /\ m - 1 \in Nat
    BY <1>4, <2>1
  <2>3. Good(m - 1)
    BY <2>1, <2>2
  <2>4. Good((m - 1) + 1)
    BY <1>5, <2>2, <2>3
  <2> QED BY <2>1, <2>2, <2>4
<1>8. Good(Cardinality(S))
  BY <1>2, <1>6
<1>9. PICK g : g = [s \in Upto(Cardinality(S)) |-> SumStep(f, g, s)]
  BY <1>8 DEF Good
<1>10. g = [s \in SUBSET S |-> SumStep(f, g, s)]
  BY <1>7, <1>9
<1> QED BY <1>10 DEF SumsOver

\* The sum is the value of such a solution.
LEMMA SumDef ==
  ASSUME NEW S, IsFiniteSet(S), NEW f
  PROVE  \E g : SumsOver(f, S, g) /\ SumFunctionOnSet(f, S) = g[S]
<1> DEFINE iter == CHOOSE g : SumsOver(f, S, g)
<1>1. SumsOver(f, S, iter)
  BY SumsExist
<1>2. SumFunctionOnSet(f, S) = iter[S]
  BY Zenon DEF SumFunctionOnSet, FoldFunctionOnSet, MapThenFoldSet, SumsOver, SumStep, Pick
<1> QED BY <1>1, <1>2

-----------------------------------------------------------------------------
\* What the solution is for the empty set and for a set with an element.
LEMMA SumsAtEmpty ==
  ASSUME NEW S, NEW f, NEW g, SumsOver(f, S, g)
  PROVE  g[{}] = 0
<1>1. g[{}] = SumStep(f, g, {})
  BY DEF SumsOver
<1> QED BY <1>1 DEF SumStep

LEMMA SumsAt ==
  ASSUME NEW S, NEW f, NEW g, SumsOver(f, S, g), NEW s \in SUBSET S, s # {}
  PROVE  /\ g[s] = f[Pick(s)] + g[s \ {Pick(s)}]
         /\ Pick(s) \in s /\ s \ {Pick(s)} \in SUBSET S
         /\ s \ {Pick(s)} \subseteq s /\ s \ {Pick(s)} # s
<1>1. g[s] = SumStep(f, g, s)
  BY DEF SumsOver
<1> QED BY <1>1, PickIn DEF SumStep

\* A sum of numbers is a number.
LEMMA SumType ==
  ASSUME NEW S, IsFiniteSet(S), NEW f, \A x \in S : f[x] \in Nat
  PROVE  SumFunctionOnSet(f, S) \in Nat
<1>1. PICK g : SumsOver(f, S, g) /\ SumFunctionOnSet(f, S) = g[S]
  BY SumDef
<1> DEFINE Good(s) == g[s] \in Nat
           Bad == {s \in SUBSET S : ~Good(s)}
<1>2. Bad = {}
  <2> SUFFICES ASSUME Bad # {} PROVE FALSE
    OBVIOUS
  <2>1. PICK s \in Bad : \A u \in Bad : ~(u \subseteq s /\ u # s)
    <3>1. Bad \subseteq SUBSET S
      OBVIOUS
    <3> HIDE DEF Bad
    <3> QED BY <3>1, SmallestSubset
  <2>2. s # {}
    <3>1. Good({})
      BY <1>1, SumsAtEmpty
    <3> HIDE DEF Good
    <3> QED BY <2>1, <3>1, Zenon
  <2>3. /\ g[s] = f[Pick(s)] + g[s \ {Pick(s)}] /\ s \ {Pick(s)} \in SUBSET S
        /\ Pick(s) \in s /\ s \ {Pick(s)} \subseteq s /\ s \ {Pick(s)} # s
    BY <1>1, <2>1, <2>2, SumsAt
  <2>4. g[s \ {Pick(s)}] \in Nat
    BY <2>1, <2>3
  <2>5. f[Pick(s)] \in Nat
    BY <2>1, <2>3
  <2> QED BY <2>1, <2>3, <2>4, <2>5
<1> QED BY <1>1, <1>2

\* The sum of a sum.
LEMMA SumAdd ==
  ASSUME NEW S, IsFiniteSet(S), NEW f, NEW d, NEW h,
         \A x \in S : f[x] \in Nat /\ d[x] \in Nat /\ h[x] = f[x] + d[x]
  PROVE  SumFunctionOnSet(h, S) = SumFunctionOnSet(f, S) + SumFunctionOnSet(d, S)
<1>1. PICK a : SumsOver(f, S, a) /\ SumFunctionOnSet(f, S) = a[S]
  BY SumDef
<1>2. PICK b : SumsOver(d, S, b) /\ SumFunctionOnSet(d, S) = b[S]
  BY SumDef
<1>3. PICK c : SumsOver(h, S, c) /\ SumFunctionOnSet(h, S) = c[S]
  BY SumDef
<1> DEFINE Good(s) == a[s] \in Nat /\ b[s] \in Nat /\ c[s] = a[s] + b[s]
           Bad == {s \in SUBSET S : ~Good(s)}
<1>4. Bad = {}
  <2> SUFFICES ASSUME Bad # {} PROVE FALSE
    OBVIOUS
  <2>1. PICK s \in Bad : \A u \in Bad : ~(u \subseteq s /\ u # s)
    <3>1. Bad \subseteq SUBSET S
      OBVIOUS
    <3> HIDE DEF Bad
    <3> QED BY <3>1, SmallestSubset
  <2>2. s # {}
    <3>1. a[{}] = 0 /\ b[{}] = 0 /\ c[{}] = 0
      BY <1>1, <1>2, <1>3, SumsAtEmpty
    <3>2. Good({})
      BY <3>1
    <3> HIDE DEF Good
    <3> QED BY <2>1, <3>2, Zenon
  <2> DEFINE x == Pick(s)
             t == s \ {x}
  <2>3. /\ a[s] = f[x] + a[t] /\ b[s] = d[x] + b[t] /\ c[s] = h[x] + c[t]
        /\ x \in s /\ t \in SUBSET S /\ t \subseteq s /\ t # s
    BY <1>1, <1>2, <1>3, <2>1, <2>2, SumsAt
  <2>4. Good(t)
    BY <2>1, <2>3
  <2>5. Good(s)
    <3> HIDE DEF x, t
    <3> QED BY <2>3, <2>4
  <2> QED BY <2>1, <2>5
<1> QED BY <1>1, <1>2, <1>3, <1>4

\* A function that is 0 but for x sums to its value at x.
LEMMA SumSingle ==
  ASSUME NEW S, IsFiniteSet(S), NEW f, NEW x \in S, f[x] \in Nat,
         \A y \in S \ {x} : f[y] = 0
  PROVE  SumFunctionOnSet(f, S) = f[x]
<1>1. PICK g : SumsOver(f, S, g) /\ SumFunctionOnSet(f, S) = g[S]
  BY SumDef
<1> DEFINE Good(s) == (x \in s => g[s] = f[x]) /\ (x \notin s => g[s] = 0)
           Bad == {s \in SUBSET S : ~Good(s)}
<1>2. Bad = {}
  <2> SUFFICES ASSUME Bad # {} PROVE FALSE
    OBVIOUS
  <2>1. PICK s \in Bad : \A u \in Bad : ~(u \subseteq s /\ u # s)
    <3>1. Bad \subseteq SUBSET S
      OBVIOUS
    <3> HIDE DEF Bad
    <3> QED BY <3>1, SmallestSubset
  <2>2. s # {}
    <3>1. Good({})
      BY <1>1, SumsAtEmpty
    <3> HIDE DEF Good
    <3> QED BY <2>1, <3>1, Zenon
  <2> DEFINE y == Pick(s)
             t == s \ {y}
  <2>a. s \in SUBSET S
    BY <2>1
  <2>3. /\ g[s] = f[y] + g[t]
        /\ y \in s /\ t \in SUBSET S /\ t \subseteq s /\ t # s
    BY <1>1, <2>2, <2>a, SumsAt
  <2>4. Good(t)
    <3> HIDE DEF Good
    <3> QED BY <2>1, <2>3
  <2>b. x \in t <=> x \in s /\ x # y
    OBVIOUS
  <2>5. Good(s)
    <3> HIDE DEF y, t
    <3>1. CASE y = x
      BY <2>3, <2>4, <2>b, <3>1
    <3>2. CASE y # x
      BY <2>a, <2>3, <2>4, <2>b, <3>2
    <3> QED BY <3>1, <3>2
  <2> QED BY <2>1, <2>5
<1> QED BY <1>1, <1>2

-----------------------------------------------------------------------------
LEMMA SumZero ==
  ASSUME NEW S, IsFiniteSet(S), NEW f, \A x \in S : f[x] = 0
  PROVE  SumFunctionOnSet(f, S) = 0
<1>1. SumFunctionOnSet(f, S) \in Nat
  BY SumType
<1>2. SumFunctionOnSet(f, S) = SumFunctionOnSet(f, S) + SumFunctionOnSet(f, S)
  BY SumAdd
<1>3. \A n \in Nat : n = n + n => n = 0
  OBVIOUS
<1> QED BY <1>1, <1>2, <1>3, Zenon

LEMMA SumSame ==
  ASSUME NEW S, IsFiniteSet(S), NEW f, NEW h, \A x \in S : f[x] \in Nat /\ h[x] = f[x]
  PROVE  SumFunctionOnSet(h, S) = SumFunctionOnSet(f, S)
<1> DEFINE d == [x \in S |-> 0]
<1>1. /\ \A x \in S : d[x] = 0 /\ d[x] \in Nat
      /\ \A x \in S : f[x] \in Nat /\ d[x] \in Nat /\ h[x] = f[x] + d[x]
  OBVIOUS
<1> HIDE DEF d
<1>2. SumFunctionOnSet(h, S) = SumFunctionOnSet(f, S) + SumFunctionOnSet(d, S)
  BY <1>1, SumAdd
<1>3. SumFunctionOnSet(d, S) = 0 /\ SumFunctionOnSet(f, S) \in Nat
  BY <1>1, SumZero, SumType
<1> QED BY <1>2, <1>3

\* The sum of a larger function is larger.
LEMMA SumMonotone ==
  ASSUME NEW S, IsFiniteSet(S), NEW f, NEW h,
         \A x \in S : f[x] \in Nat /\ h[x] \in Nat /\ f[x] <= h[x]
  PROVE  SumFunctionOnSet(f, S) <= SumFunctionOnSet(h, S)
<1> DEFINE d == [x \in S |-> h[x] - f[x]]
<1>1. \A x \in S : f[x] \in Nat /\ d[x] \in Nat /\ h[x] = f[x] + d[x]
  OBVIOUS
<1> HIDE DEF d
<1>2. SumFunctionOnSet(h, S) = SumFunctionOnSet(f, S) + SumFunctionOnSet(d, S)
  BY <1>1, SumAdd
<1>3. SumFunctionOnSet(d, S) \in Nat /\ SumFunctionOnSet(f, S) \in Nat
  BY <1>1, SumType
<1> QED BY <1>2, <1>3

\* What is added at one place is added to the sum.
LEMMA SumBump ==
  ASSUME NEW S, IsFiniteSet(S), NEW f, NEW h, NEW x \in S, NEW n \in Nat,
         \A y \in S : f[y] \in Nat, h[x] = f[x] + n,
         \A y \in S \ {x} : h[y] = f[y]
  PROVE  SumFunctionOnSet(h, S) = SumFunctionOnSet(f, S) + n
<1> DEFINE d == [y \in S |-> IF y = x THEN n ELSE 0]
<1>1. /\ \A y \in S : f[y] \in Nat /\ d[y] \in Nat /\ h[y] = f[y] + d[y]
      /\ d[x] = n /\ d[x] \in Nat /\ \A y \in S \ {x} : d[y] = 0
  OBVIOUS
<1> HIDE DEF d
<1>2. SumFunctionOnSet(h, S) = SumFunctionOnSet(f, S) + SumFunctionOnSet(d, S)
  BY <1>1, SumAdd
<1>3. SumFunctionOnSet(d, S) = n
  BY <1>1, SumSingle
<1> QED BY <1>2, <1>3
-----------------------------------------------------------------------------
\* The largest and the smallest of finitely many numbers.
LEMMA MaxExists ==
  ASSUME NEW S, IsFiniteSet(S)
  PROVE  S \subseteq Int /\ S # {} => \E x \in S : \A y \in S : x >= y
<1> DEFINE Bad == {s \in SUBSET S : s \subseteq Int /\ s # {} /\ ~ \E x \in s : \A y \in s : x >= y}
<1>1. SUFFICES ASSUME Bad # {} PROVE FALSE
  <2>1. S \notin Bad
    BY <1>1
  <2> QED BY <2>1
<1>2. PICK s \in Bad : \A u \in Bad : ~(u \subseteq s /\ u # s)
  <2>1. Bad \subseteq SUBSET S /\ Bad # {}
    BY <1>1
  <2> HIDE DEF Bad
  <2> QED BY <2>1, SmallestSubset
<1>3. PICK a \in s : TRUE
  BY <1>2
<1>4. s \ {a} \notin Bad
  BY <1>2, <1>3
<1>5. CASE s = {a}
  <2>1. a \in Int
    BY <1>2, <1>3
  <2> QED BY <1>2, <1>5, <2>1
<1>6. CASE s # {a}
  <2>1. PICK m \in s \ {a} : \A y \in s \ {a} : m >= y
    BY <1>2, <1>3, <1>4, <1>6
  <2>2. a \in Int /\ m \in Int /\ s \subseteq Int
    BY <1>2, <1>3, <2>1
  <2>3. CASE a >= m
    BY <1>2, <1>3, <2>1, <2>2, <2>3
  <2>4. CASE ~(a >= m)
    BY <1>2, <1>3, <2>1, <2>2, <2>4
  <2> QED BY <2>3, <2>4
<1> QED BY <1>5, <1>6

\* Max of a finite set is its largest element.
LEMMA MaxIn ==
  ASSUME NEW S, S \subseteq Int, S # {}, IsFiniteSet(S)
  PROVE  Max(S) \in S /\ \A y \in S : y <= Max(S)
<1>1. PICK x \in S : \A y \in S : x >= y
  BY MaxExists
<1>2. Max(S) \in S /\ \A y \in S : Max(S) >= y
  BY <1>1 DEF Max
<1> QED BY <1>2

\* Min of a set of naturals is its least element.
LEMMA MinIn ==
  ASSUME NEW S, S \subseteq Nat, S # {}
  PROVE  Min(S) \in S /\ \A y \in S : Min(S) <= y
<1>1. PICK x \in S : \A y \in S : x <= y
  BY SmallestNumber
<1> QED BY <1>1 DEF Min

\* Min and Max of two numbers.
LEMMA TwoMin == ASSUME NEW a \in Int, NEW b \in Int
                PROVE  Min({a, b}) \in {a, b} /\ Min({a, b}) <= a /\ Min({a, b}) <= b
<1>1. PICK x \in {a, b} : \A y \in {a, b} : x <= y
  <2>1. CASE a <= b
    BY <2>1
  <2>2. CASE ~(a <= b)
    BY <2>2
  <2> QED BY <2>1, <2>2
<1>2. Min({a, b}) \in {a, b} /\ \A y \in {a, b} : Min({a, b}) <= y
  BY <1>1 DEF Min
<1> QED BY <1>2
LEMMA TwoMax == ASSUME NEW a \in Int, NEW b \in Int
                PROVE  Max({a, b}) \in {a, b} /\ Max({a, b}) >= a /\ Max({a, b}) >= b
<1>1. IsFiniteSet({a, b})
  <2>1. {a, b} = {a} \cup {b}
    OBVIOUS
  <2>2. IsFiniteSet({a})
    BY FS_Singleton
  <2>3. IsFiniteSet({a} \cup {b})
    BY <2>2, FS_AddElement
  <2> QED BY <2>1, <2>3
<1> QED BY <1>1, MaxIn

-----------------------------------------------------------------------------
(* Folds.  What op is folded is a function here, so that one lemma serves  *)
(* for all folds: a lemma cannot take an operator.                         *)

\* One step of a fold of F over the subsets of D, which takes out the element
\* pick[s], and the solutions of this recursion.
FoldStep(F, base, pick, g, s) == IF s = {} THEN base ELSE F[pick[s]][g[s \ {pick[s]}]]
FoldsOver(F, base, pick, D, g) == g = [s \in SUBSET D |-> FoldStep(F, base, pick, g, s)]

LEMMA FoldsExist ==
  ASSUME NEW D, IsFiniteSet(D), NEW F, NEW base, NEW pick,
         \A s \in SUBSET D : s # {} => pick[s] \in s
  PROVE  \E g : FoldsOver(F, base, pick, D, g)
<1> DEFINE Upto(n) == {s \in SUBSET D : Cardinality(s) <= n}
           Good(n) == \E g : g = [s \in Upto(n) |-> FoldStep(F, base, pick, g, s)]
           Bad == {n \in Nat : ~Good(n)}
<1>1. \A s \in SUBSET D : IsFiniteSet(s) /\ Cardinality(s) \in Nat /\ Cardinality(s) <= Cardinality(D)
  BY FS_Subset, FS_CardinalityType
<1>2. Cardinality(D) \in Nat
  BY FS_CardinalityType
<1>3. \A s \in SUBSET D : s # {} => /\ s \ {pick[s]} \in SUBSET D
                                    /\ Cardinality(s \ {pick[s]}) = Cardinality(s) - 1
  BY <1>1, FS_RemoveElement
<1>4. Good(0)
  <2>1. \A s \in Upto(0) : s = {}
    BY <1>1, FS_EmptySet
  <2> DEFINE g == [s \in Upto(0) |-> base]
  <2>2. g = [s \in Upto(0) |-> FoldStep(F, base, pick, g, s)]
    BY <2>1 DEF FoldStep
  <2> QED BY <2>2
<1>5. ASSUME NEW n \in Nat, Good(n) PROVE Good(n + 1)
  <2>1. PICK g : g = [s \in Upto(n) |-> FoldStep(F, base, pick, g, s)]
    BY <1>5
  <2> DEFINE h == [s \in Upto(n + 1) |-> FoldStep(F, base, pick, g, s)]
  <2>2. \A s \in Upto(n + 1) : s # {} => s \ {pick[s]} \in Upto(n)
    BY <1>1, <1>3
  <2>3. Upto(n) \subseteq Upto(n + 1)
    BY <1>1
  <2>4. \A s \in Upto(n) : h[s] = g[s]
    BY <2>1, <2>3
  <2>5. \A s \in Upto(n + 1) : FoldStep(F, base, pick, g, s) = FoldStep(F, base, pick, h, s)
    BY <2>2, <2>4 DEF FoldStep
  <2>6. h = [s \in Upto(n + 1) |-> FoldStep(F, base, pick, h, s)]
    BY <2>5
  <2> QED BY <2>6
<1>7. Upto(Cardinality(D)) = SUBSET D
  BY <1>1
<1> HIDE DEF Good
<1>6. Bad = {}
  <2> SUFFICES ASSUME Bad # {} PROVE FALSE
    OBVIOUS
  <2>1. PICK m \in Bad : \A n \in Bad : m <= n
    BY SmallestNumber
  <2>2. m # 0 /\ m - 1 \in Nat
    BY <1>4, <2>1
  <2>3. Good(m - 1)
    BY <2>1, <2>2
  <2>4. Good((m - 1) + 1)
    BY <1>5, <2>2, <2>3
  <2> QED BY <2>1, <2>2, <2>4
<1>8. Good(Cardinality(D))
  BY <1>2, <1>6
<1>9. PICK g : g = [s \in Upto(Cardinality(D)) |-> FoldStep(F, base, pick, g, s)]
  BY <1>8 DEF Good
<1>10. g = [s \in SUBSET D |-> FoldStep(F, base, pick, g, s)]
  BY <1>7, <1>9
<1> QED BY <1>10 DEF FoldsOver

\* If F stays within V, so does its fold.
LEMMA FoldsStay ==
  ASSUME NEW D, IsFiniteSet(D), NEW F, NEW base, NEW pick, NEW V, base \in V,
         \A s \in SUBSET D : s # {} => pick[s] \in s,
         \A x \in D : \A v \in V : F[x][v] \in V,
         NEW g, FoldsOver(F, base, pick, D, g)
  PROVE  \A s \in SUBSET D : g[s] \in V
<1> DEFINE Bad == {s \in SUBSET D : g[s] \notin V}
<1>1. SUFFICES ASSUME Bad # {} PROVE FALSE
  OBVIOUS
<1>2. PICK s \in Bad : \A u \in Bad : ~(u \subseteq s /\ u # s)
  <2>1. Bad \subseteq SUBSET D
    OBVIOUS
  <2> HIDE DEF Bad
  <2> QED BY <1>1, <2>1, SmallestSubset
<1>3. s \in SUBSET D /\ g[s] = FoldStep(F, base, pick, g, s)
  BY DEF FoldsOver
<1>4. s # {}
  BY <1>2, <1>3 DEF FoldStep
<1>5. g[s \ {pick[s]}] \in V
  BY <1>2, <1>3, <1>4
<1>6. g[s] \in V
  BY <1>3, <1>4, <1>5 DEF FoldStep
<1> QED BY <1>2, <1>6

\* Induction over the first n numbers, for the set of those that have a property.
LEMMA CountUp ==
  ASSUME NEW n \in Nat, NEW G, 0 \in G, \A i \in 1 .. n : i - 1 \in G => i \in G
  PROVE  0 .. n \subseteq G
<1> DEFINE Bad == (0 .. n) \ G
<1>1. SUFFICES ASSUME Bad # {} PROVE FALSE
  OBVIOUS
<1>2. PICK i \in Bad : \A j \in Bad : i <= j
  <2>1. Bad \subseteq Nat
    OBVIOUS
  <2> HIDE DEF Bad
  <2> QED BY <1>1, <2>1, SmallestNumber
<1>3. i \in 1 .. n /\ i - 1 \in 0 .. n
  BY <1>2
<1>4. i - 1 \in G
  BY <1>2, <1>3
<1> QED BY <1>2, <1>3, <1>4
=============================================================================
