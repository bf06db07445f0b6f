---------------------------- MODULE FunctionSums ----------------------------
(***************************************************************************)
(* What SumFunctionOnSet of the community modules computes: the sum of a   *)
(* function over a finite set, whatever order the elements are taken in.   *)
(* Induction is by a minimal counterexample: a property is the set of the  *)
(* things that have it.                                                    *)
(***************************************************************************)
EXTENDS Functions, FiniteSetTheorems, TLAPS

(* A set of numbers that holds each number below which it holds all.       *)
LEMMA NumbersByInduction ==
  ASSUME NEW P, \A n \in Nat : (\A m \in Nat : m < n => m \in P) => n \in P
  PROVE  Nat \subseteq P
<1> SUFFICES ASSUME Nat \ P # {} PROVE FALSE
  OBVIOUS
<1>1. IsWellFoundedOn(OpToRel(<, Nat), Nat)
  BY NatLessThanWellFounded
<1>2. PICK n \in Nat \ P : \A m \in Nat \ P : ~(<<m, n>> \in OpToRel(<, Nat))
  <2>1. Nat \ P \subseteq Nat
    OBVIOUS
  <2> QED
    BY <1>1, <2>1, WFMin
<1>3. \A m \in Nat : m < n => m \in P
  <2> SUFFICES ASSUME NEW m \in Nat, m < n, m \notin P PROVE FALSE
    OBVIOUS
  <2>1. <<m, n>> \in OpToRel(<, Nat)
    BY DEF OpToRel
  <2> QED
    BY <2>1, <1>2
<1> QED
  BY <1>2, <1>3

(* A set of sets that holds a set if it holds all that lack one element.   *)
LEMMA SubsetsByInduction ==
  ASSUME NEW U, IsFiniteSet(U), NEW P,
         \A S \in SUBSET U : (\A x \in S : S \ {x} \in P) => S \in P
  PROVE  SUBSET U \subseteq P
<1> SUFFICES ASSUME (SUBSET U) \ P # {} PROVE FALSE
  OBVIOUS
<1>1. IsWellFoundedOn(StrictSubsetOrdering(U), SUBSET U)
  <2>1. FiniteSubsetsOf(U) = SUBSET U
    BY FS_FiniteSubsetsOfFinite
  <2>2. IsWellFoundedOn(StrictSubsetOrdering(U), FiniteSubsetsOf(U))
    BY FS_StrictSubsetOrderingWellFounded
  <2> QED
    BY <2>1, <2>2
<1>2. PICK S \in (SUBSET U) \ P : \A T \in (SUBSET U) \ P : ~(<<T, S>> \in StrictSubsetOrdering(U))
  <2>1. (SUBSET U) \ P \subseteq SUBSET U
    OBVIOUS
  <2> QED
    BY <1>1, <2>1, WFMin
<1>3. \A x \in S : S \ {x} \in P
  <2> SUFFICES ASSUME NEW x \in S, S \ {x} \notin P PROVE FALSE
    OBVIOUS
  <2>1. <<S \ {x}, S>> \in StrictSubsetOrdering(U)
    BY DEF StrictSubsetOrdering
  <2>2. S \ {x} \in (SUBSET U) \ P
    OBVIOUS
  <2> QED
    BY <2>1, <2>2, <1>2
<1> QED
  BY <1>2, <1>3

-----------------------------------------------------------------------------
(* The recursive function of the definition: what it adds to a set next,   *)
(* and its equation.                                                       *)
NextOf(s) == CHOOSE x \in s : TRUE
Adding(f, g, s) == IF s = {} THEN 0 ELSE f[NextOf(s)] + g[s \ {NextOf(s)}]
SumsUp(f, g, S) == g = [s \in SUBSET S |-> Adding(f, g, s)]

LEMMA NextIsIn == ASSUME NEW s, s # {} PROVE NextOf(s) \in s
BY DEF NextOf

LEMMA SumIs ==
  ASSUME NEW f, NEW S
  PROVE  SumFunctionOnSet(f, S) = (CHOOSE g : SumsUp(f, g, S))[S]
BY DEF SumFunctionOnSet, FoldFunctionOnSet, MapThenFoldSet, SumsUp, Adding, NextOf

(* The equation has a solution, found set size by set size.                *)
LEMMA SumsExist ==
  ASSUME NEW f, NEW S, IsFiniteSet(S)
  PROVE  \E g : SumsUp(f, g, S)
<1> DEFINE Upto(g, n) == \A s \in SUBSET S : Cardinality(s) <= n => g[s] = Adding(f, g, s)
           P == {n \in Nat : \E g : g = [s \in SUBSET S |-> g[s]] /\ Upto(g, n)}
<1>0. \A s \in SUBSET S : Cardinality(s) \in Nat /\ IsFiniteSet(s)
  BY FS_Subset, FS_CardinalityType
<1>1. ASSUME NEW n \in Nat, \A m \in Nat : m < n => m \in P
      PROVE  n \in P
  <2>1. CASE n = 0
    <3> DEFINE g == [s \in SUBSET S |-> 0]
    <3>1. g = [s \in SUBSET S |-> g[s]]
      OBVIOUS
    <3>2. Upto(g, n)
      BY <1>0, <2>1, FS_EmptySet DEF Adding
    <3> QED
      BY <3>1, <3>2, <2>1
  <2>2. CASE n # 0
    <3>0. n - 1 \in P
      <4> HIDE DEF P
      <4>1. n - 1 \in Nat /\ n - 1 < n
        BY <2>2
      <4> QED
        BY <4>1, <1>1
    <3>1. PICK g : g = [s \in SUBSET S |-> g[s]] /\ Upto(g, n - 1)
      BY <3>0
    <3> DEFINE h == [s \in SUBSET S |-> IF Cardinality(s) <= n - 1 THEN g[s] ELSE Adding(f, g, s)]
    <3>2. h = [s \in SUBSET S |-> h[s]]
      OBVIOUS
    <3>3. ASSUME NEW s \in SUBSET S, Cardinality(s) <= n
          PROVE  h[s] = Adding(f, h, s)
      <4>1. CASE s = {}
        <5>1. Cardinality(s) = 0
          BY <4>1, FS_EmptySet
        <5>2. g[s] = Adding(f, g, s)
          <6>1. Cardinality(s) <= n - 1
            BY <5>1, <2>2
          <6> QED
            BY <6>1, <3>1
        <5>3. h[s] = g[s]
          BY <5>1, <2>2
        <5> QED
          BY <4>1, <5>2, <5>3 DEF Adding
      <4>2. CASE s # {}
        <5> DEFINE x == NextOf(s)
        <5>1. x \in s
          BY <4>2, NextIsIn
        <5>2. Cardinality(s \ {x}) = Cardinality(s) - 1 /\ s \ {x} \in SUBSET S
          BY <5>1, <1>0, FS_RemoveElement
        <5>3. h[s \ {x}] = g[s \ {x}]
          BY <5>2, <1>0, <3>3
        <5>4. Adding(f, h, s) = Adding(f, g, s)
          BY <5>3 DEF Adding
        <5>5. h[s] = Adding(f, g, s)
          BY <3>1, <3>3 DEF Upto
        <5> QED
          BY <5>4, <5>5
      <4> QED
        BY <4>1, <4>2
    <3> HIDE DEF h
    <3> QED
      BY <3>2, <3>3
  <2> QED
    BY <2>1, <2>2
<1>2. Cardinality(S) \in P
  <2> HIDE DEF P
  <2>1. Nat \subseteq P
    BY <1>1, NumbersByInduction
  <2> QED
    BY <2>1, FS_CardinalityType
<1>3. PICK g : g = [s \in SUBSET S |-> g[s]] /\ Upto(g, Cardinality(S))
  BY <1>2
<1>4. \A s \in SUBSET S : g[s] = Adding(f, g, s)
  BY <1>3, FS_Subset
<1>5. g = [s \in SUBSET S |-> Adding(f, g, s)]
  <2>1. [s \in SUBSET S |-> g[s]] = [s \in SUBSET S |-> Adding(f, g, s)]
    BY <1>4
  <2> QED
    BY <2>1, <1>3
<1> QED
  BY <1>5 DEF SumsUp

(* Solutions agree on what both are defined for.                           *)
LEMMA SumsAgree ==
  ASSUME NEW f, NEW S, NEW T \in SUBSET S, IsFiniteSet(T),
         NEW g, SumsUp(f, g, S), NEW h, SumsUp(f, h, T)
  PROVE  \A s \in SUBSET T : g[s] = h[s]
<1> DEFINE P == {s \in SUBSET T : g[s] = h[s]}
<1>1. ASSUME NEW s \in SUBSET T, \A x \in s : s \ {x} \in P
      PROVE  s \in P
  <2>1. g[s] = Adding(f, g, s) /\ h[s] = Adding(f, h, s)
    BY DEF SumsUp
  <2>2. CASE s = {}
    BY <2>1, <2>2 DEF Adding
  <2>3. CASE s # {}
    <3>1. g[s \ {NextOf(s)}] = h[s \ {NextOf(s)}]
      BY <2>3, <1>1, NextIsIn
    <3> QED
      BY <3>1, <2>1 DEF Adding
  <2> QED
    BY <2>2, <2>3
<1>2. SUBSET T \subseteq P
  <2> HIDE DEF P
  <2> QED
    BY <1>1, SubsetsByInduction
<1> QED
  BY <1>2

-----------------------------------------------------------------------------
LEMMA SumOfNothing ==
  ASSUME NEW f
  PROVE  SumFunctionOnSet(f, {}) = 0
<1>1. PICK g : SumsUp(f, g, {})
  BY SumsExist, FS_EmptySet
<1> DEFINE h == CHOOSE g0 : SumsUp(f, g0, {})
<1>2. SumsUp(f, h, {})
  BY <1>1
<1>3. h[{}] = Adding(f, h, {})
  BY <1>2 DEF SumsUp
<1> QED
  BY <1>3, SumIs DEF Adding

LEMMA SumOfPicked ==
  ASSUME NEW f, NEW S, IsFiniteSet(S), S # {}
  PROVE  SumFunctionOnSet(f, S) = f[NextOf(S)] + SumFunctionOnSet(f, S \ {NextOf(S)})
<1> DEFINE x == NextOf(S)
           T == S \ {x}
           g == CHOOSE g0 : SumsUp(f, g0, S)
           h == CHOOSE g0 : SumsUp(f, g0, T)
<1>1. T \in SUBSET S /\ IsFiniteSet(T)
  BY FS_RemoveElement
<1>2. SumsUp(f, g, S) /\ SumsUp(f, h, T)
  BY <1>1, SumsExist
<1>3. SumFunctionOnSet(f, S) = g[S] /\ SumFunctionOnSet(f, T) = h[T]
  BY SumIs
<1>4. g[S] = f[x] + g[T]
  BY <1>2 DEF SumsUp, Adding
<1>5. g[T] = h[T]
  <2> HIDE DEF g, h, T
  <2> QED
    BY <1>1, <1>2, SumsAgree
<1> QED
  BY <1>3, <1>4, <1>5

(* A sum of natural numbers is one.                                        *)
LEMMA SumInNat ==
  ASSUME NEW f, NEW U, IsFiniteSet(U), \A x \in U : f[x] \in Nat
  PROVE  \A S \in SUBSET U : SumFunctionOnSet(f, S) \in Nat
<1> DEFINE P == {S \in SUBSET U : SumFunctionOnSet(f, S) \in Nat}
<1>1. ASSUME NEW S \in SUBSET U, \A x \in S : S \ {x} \in P
      PROVE  S \in P
  <2>1. CASE S = {}
    BY <2>1, SumOfNothing
  <2>2. CASE S # {}
    <3>1. NextOf(S) \in S /\ IsFiniteSet(S)
      BY <2>2, NextIsIn, FS_Subset
    <3>2. SumFunctionOnSet(f, S) = f[NextOf(S)] + SumFunctionOnSet(f, S \ {NextOf(S)})
      BY <2>2, <3>1, SumOfPicked
    <3>3. SumFunctionOnSet(f, S \ {NextOf(S)}) \in Nat /\ f[NextOf(S)] \in Nat
      BY <3>1, <1>1
    <3> QED
      BY <3>2, <3>3
  <2> QED
    BY <2>1, <2>2
<1>2. SUBSET U \subseteq P
  <2> HIDE DEF P
  <2> QED
    BY <1>1, SubsetsByInduction
<1> QED
  BY <1>2

(* Any element may be added last.                                          *)
LEMMA SumOfElement ==
  ASSUME NEW f, NEW U, IsFiniteSet(U), \A x \in U : f[x] \in Nat, NEW y \in U
  PROVE  SumFunctionOnSet(f, U) = f[y] + SumFunctionOnSet(f, U \ {y})
<1> DEFINE Sum(S) == SumFunctionOnSet(f, S)
           P == {S \in SUBSET U : \A x \in S : Sum(S) = f[x] + Sum(S \ {x})}
<1>1. ASSUME NEW S \in SUBSET U, \A x \in S : S \ {x} \in P
      PROVE  S \in P
  <2> SUFFICES ASSUME NEW x \in S PROVE Sum(S) = f[x] + Sum(S \ {x})
    OBVIOUS
  <2> DEFINE z == NextOf(S)
  <2>1. z \in S /\ IsFiniteSet(S)
    BY NextIsIn, FS_Subset
  <2>2. Sum(S) = f[z] + Sum(S \ {z})
    BY <2>1, SumOfPicked
  <2>3. CASE x = z
    BY <2>2, <2>3
  <2>4. CASE x # z
    <3>1. x \in S \ {z} /\ z \in S \ {x}
      BY <2>1, <2>4
    <3>2. Sum(S \ {z}) = f[x] + Sum((S \ {z}) \ {x})
      BY <3>1, <2>1, <1>1
    <3>3. Sum(S \ {x}) = f[z] + Sum((S \ {x}) \ {z})
      BY <3>1, <1>1
    <3>4. Sum((S \ {z}) \ {x}) = Sum((S \ {x}) \ {z})
      <4>1. (S \ {z}) \ {x} = (S \ {x}) \ {z}
        OBVIOUS
      <4> QED
        BY <4>1
    <3>5. f[x] \in Nat /\ f[z] \in Nat /\ Sum((S \ {x}) \ {z}) \in Nat
      BY <2>1, SumInNat
    <3> HIDE DEF z, Sum
    <3> QED
      BY <2>2, <3>2, <3>3, <3>4, <3>5
  <2> QED
    BY <2>3, <2>4
<1>2. SUBSET U \subseteq P
  <2> HIDE DEF P
  <2> QED
    BY <1>1, SubsetsByInduction
<1> QED
  BY <1>2

(* Only the values on the set count.                                       *)
LEMMA SumOfSame ==
  ASSUME NEW f, NEW g, NEW U, IsFiniteSet(U), \A x \in U : f[x] = g[x]
  PROVE  SumFunctionOnSet(f, U) = SumFunctionOnSet(g, U)
<1> DEFINE P == {S \in SUBSET U : SumFunctionOnSet(f, S) = SumFunctionOnSet(g, S)}
<1>1. ASSUME NEW S \in SUBSET U, \A x \in S : S \ {x} \in P
      PROVE  S \in P
  <2>1. CASE S = {}
    BY <2>1, SumOfNothing
  <2>2. CASE S # {}
    <3>1. NextOf(S) \in S /\ IsFiniteSet(S)
      BY <2>2, NextIsIn, FS_Subset
    <3>2. /\ SumFunctionOnSet(f, S) = f[NextOf(S)] + SumFunctionOnSet(f, S \ {NextOf(S)})
          /\ SumFunctionOnSet(g, S) = g[NextOf(S)] + SumFunctionOnSet(g, S \ {NextOf(S)})
      BY <2>2, <3>1, SumOfPicked
    <3>3. SumFunctionOnSet(f, S \ {NextOf(S)}) = SumFunctionOnSet(g, S \ {NextOf(S)})
      BY <3>1, <1>1
    <3> QED
      BY <3>1, <3>2, <3>3
  <2> QED
    BY <2>1, <2>2
<1>2. SUBSET U \subseteq P
  <2> HIDE DEF P
  <2> QED
    BY <1>1, SubsetsByInduction
<1> QED
  BY <1>2

(* Larger values on a larger set give a sum that is not smaller.           *)
LEMMA SumOfMore ==
  ASSUME NEW U, IsFiniteSet(U), NEW T \in SUBSET U, NEW f, NEW g,
         \A x \in T : f[x] \in Nat /\ f[x] <= g[x], \A x \in U : g[x] \in Nat
  PROVE  SumFunctionOnSet(f, T) <= SumFunctionOnSet(g, U)
<1> DEFINE F(S) == SumFunctionOnSet(f, S)
           G(S) == SumFunctionOnSet(g, S)
           P == {S \in SUBSET U : F(S \cap T) <= G(S)}
<1>0. IsFiniteSet(T) /\ (\A S \in SUBSET U : G(S) \in Nat) /\ (\A S \in SUBSET T : F(S) \in Nat)
  <2>1. IsFiniteSet(T)
    BY FS_Subset
  <2>2. \A x \in T : f[x] \in Nat
    OBVIOUS
  <2> QED
    BY <2>1, <2>2, SumInNat
<1>1. ASSUME NEW S \in SUBSET U, \A x \in S : S \ {x} \in P
      PROVE  S \in P
  <2>1. CASE S = {}
    <3>1. S \cap T = {}
      BY <2>1
    <3> QED
      BY <2>1, <3>1, SumOfNothing
  <2>2. CASE S # {}
    <3> DEFINE z == NextOf(S)
    <3>1. z \in S /\ IsFiniteSet(S) /\ S \ {z} \in SUBSET U
      BY <2>2, NextIsIn, FS_Subset
    <3>2. G(S) = g[z] + G(S \ {z})
      BY <2>2, <3>1, SumOfPicked
    <3>3. F((S \ {z}) \cap T) <= G(S \ {z})
      BY <3>1, <1>1
    <3>4. g[z] \in Nat /\ G(S \ {z}) \in Nat /\ F((S \ {z}) \cap T) \in Nat
      BY <3>1, <1>0
    <3>5. CASE z \in T
      <4>1. IsFiniteSet(S \cap T) /\ z \in S \cap T /\ S \cap T \in SUBSET T
        BY <3>1, <3>5, <1>0, FS_Subset
      <4>2. \A x \in S \cap T : f[x] \in Nat
        OBVIOUS
      <4>3. F(S \cap T) = f[z] + F((S \cap T) \ {z})
        BY <4>1, <4>2, SumOfElement
      <4>4. (S \cap T) \ {z} = (S \ {z}) \cap T
        OBVIOUS
      <4>5. f[z] \in Nat /\ f[z] <= g[z]
        BY <3>5
      <4> HIDE DEF z, F, G
      <4>6. F(S \cap T) <= G(S)
        BY <3>2, <3>3, <3>4, <4>3, <4>4, <4>5
      <4> QED
        BY <4>6
    <3>6. CASE z \notin T
      <4>1. F(S \cap T) = F((S \ {z}) \cap T)
        <5>1. S \cap T = (S \ {z}) \cap T
          BY <3>6
        <5> QED
          BY <5>1
      <4> HIDE DEF z, F, G
      <4>2. F(S \cap T) <= G(S)
        BY <3>2, <3>3, <3>4, <4>1
      <4> QED
        BY <4>2
    <3> QED
      BY <3>5, <3>6
  <2> QED
    BY <2>1, <2>2
<1>2. SUBSET U \subseteq P
  <2> HIDE DEF P
  <2> QED
    BY <1>1, SubsetsByInduction
<1>3. F(U \cap T) <= G(U)
  BY <1>2
<1>4. U \cap T = T
  OBVIOUS
<1> QED
  BY <1>3, <1>4

-----------------------------------------------------------------------------
(* A ledger of amounts.  The sum of one that lacks an entry of another is  *)
(* less by its amount.                                                     *)
LEMMA SumWithout ==
  ASSUME NEW h, IsFiniteSet(DOMAIN h), \A x \in DOMAIN h : h[x] \in Nat,
         NEW y \in DOMAIN h, NEW k, DOMAIN k = DOMAIN h \ {y},
         \A x \in DOMAIN k : k[x] = h[x]
  PROVE  /\ SumFunction(h) \in Nat /\ SumFunction(k) \in Nat /\ h[y] \in Nat
         /\ SumFunction(h) = h[y] + SumFunction(k)
<1> DEFINE U == DOMAIN h
           T == DOMAIN k
<1>1. IsFiniteSet(T) /\ T \in SUBSET U /\ T = U \ {y}
  BY FS_RemoveElement
<1>2. SumFunctionOnSet(h, U) = h[y] + SumFunctionOnSet(h, T)
  BY <1>1, SumOfElement
<1>3. SumFunctionOnSet(h, T) = SumFunctionOnSet(k, T)
  BY <1>1, SumOfSame
<1>4. SumFunctionOnSet(h, U) \in Nat /\ SumFunctionOnSet(h, T) \in Nat
  BY <1>1, SumInNat
<1>5. SumFunction(h) = SumFunctionOnSet(h, U) /\ SumFunction(k) = SumFunctionOnSet(k, T)
  BY DEF SumFunction, SumFunctionOnSet
<1> HIDE DEF U, T
<1> QED
  BY <1>2, <1>3, <1>4, <1>5 DEF U

(* One amount of a ledger changes.                                         *)
LEMMA SumWithChange ==
  ASSUME NEW h, IsFiniteSet(DOMAIN h), \A x \in DOMAIN h : h[x] \in Nat,
         NEW y \in DOMAIN h, NEW k, DOMAIN k = DOMAIN h, k[y] \in Nat,
         \A x \in DOMAIN k \ {y} : k[x] = h[x]
  PROVE  \E rest \in Nat : SumFunction(h) = h[y] + rest /\ SumFunction(k) = k[y] + rest
<1> DEFINE r == [x \in DOMAIN h \ {y} |-> h[x]]
<1>1. DOMAIN r = DOMAIN h \ {y} /\ \A x \in DOMAIN r : r[x] = h[x] /\ r[x] = k[x]
  OBVIOUS
<1>2. \A x \in DOMAIN k : k[x] \in Nat
  OBVIOUS
<1> HIDE DEF r
<1>3. SumFunction(h) = h[y] + SumFunction(r) /\ SumFunction(r) \in Nat
  BY <1>1, SumWithout
<1>4. SumFunction(k) = k[y] + SumFunction(r)
  <2>1. IsFiniteSet(DOMAIN k) /\ y \in DOMAIN k /\ DOMAIN r = DOMAIN k \ {y}
    BY <1>1
  <2>2. \A x \in DOMAIN r : r[x] = k[x]
    BY <1>1
  <2> QED
    BY <1>2, <2>1, <2>2, SumWithout
<1> QED
  BY <1>3, <1>4
=============================================================================
