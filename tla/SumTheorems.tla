---------------------------- MODULE SumTheorems ----------------------------
(***************************************************************************)
(* Sums over finite sets, of which the balances and the slashes are made:  *)
(* what MapThenSumSet returns for every set and every function to the      *)
(* natural numbers.  Where an induction is called for, the least subset    *)
(* for which a statement fails is shown not to exist.                      *)
(***************************************************************************)
EXTENDS FiniteSetsExt, FiniteSetTheorems, TLAPS

\* The sum of f over a set.
SumOver(f, S) == MapThenSumSet(LAMBDA x : f[x], S)

PickFrom(S) == CHOOSE x \in S : TRUE

\* What SumOver says of a function g on the subsets of S.
SumsUp(g, f, S) ==
    g = [s \in SUBSET S |-> IF s = {} THEN 0 ELSE f[PickFrom(s)] + g[s \ {PickFrom(s)}]]

LEMMA SumOverChosen == \A f, S : SumOver(f, S) = (CHOOSE g : SumsUp(g, f, S))[S]
BY DEF SumOver, MapThenSumSet, MapThenFoldSet, SumsUp, PickFrom

LEMMA PickIsIn == \A S : S # {} => PickFrom(S) \in S
BY DEF PickFrom

\* A collection of subsets of a finite set has a least one.
LEMMA LeastSubset ==
    ASSUME NEW D, IsFiniteSet(D), NEW B \in SUBSET SUBSET D, B # {}
    PROVE  \E s \in B : \A t \in B : t \subseteq s => t = s
<1>1. IsWellFoundedOn(StrictSubsetOrdering(D), SUBSET D)
  BY FS_StrictSubsetOrderingWellFounded, FS_FiniteSubsetsOfFinite
<1>2. PICK s \in B : \A t \in B : <<t, s>> \notin StrictSubsetOrdering(D)
  BY <1>1, WFMin
<1>3. ASSUME NEW t \in B, t \subseteq s PROVE t = s
  BY <1>2, <1>3 DEF StrictSubsetOrdering
<1> QED BY <1>3

\* SumOver satisfies the equation it is defined by.
LEMMA SumEquation ==
    ASSUME NEW f, NEW D, IsFiniteSet(D), NEW S \in SUBSET D
    PROVE  SumOver(f, S) = IF S = {} THEN 0 ELSE f[PickFrom(S)] + SumOver(f, S \ {PickFrom(S)})
<1> DEFINE Q(T) == \A g : SumsUp(g, f, T) <=> g = [s \in SUBSET T |-> SumOver(f, s)]
           Body(T) == IF T = {} THEN 0 ELSE f[PickFrom(T)] + SumOver(f, T \ {PickFrom(T)})
           Bad == {T \in SUBSET D : ~Q(T)}
<1>1. ASSUME NEW T \in SUBSET D, Q(T) PROVE SumOver(f, T) = Body(T)
  <2> DEFINE g == [s \in SUBSET T |-> SumOver(f, s)]
  <2>1. SumsUp(g, f, T)
    BY <1>1
  <2>2. g[T] = IF T = {} THEN 0 ELSE f[PickFrom(T)] + g[T \ {PickFrom(T)}]
    BY <2>1 DEF SumsUp
  <2> QED BY <2>2
<1>2. ASSUME NEW T \in SUBSET D, \A U \in SUBSET T : U # T => Q(U) PROVE Q(T)
  <2> DEFINE h == [s \in SUBSET T |-> IF s = T THEN Body(T) ELSE SumOver(f, s)]
  <2>1. SumsUp(h, f, T)
    <3>1. ASSUME NEW s \in SUBSET T
          PROVE  h[s] = IF s = {} THEN 0 ELSE f[PickFrom(s)] + h[s \ {PickFrom(s)}]
      <4>1. s # {} => s \ {PickFrom(s)} # T /\ s \ {PickFrom(s)} \in SUBSET T
        BY PickIsIn
      <4>2. s # {} => h[s \ {PickFrom(s)}] = SumOver(f, s \ {PickFrom(s)})
        BY <4>1
      <4>3. CASE s = T
        BY <4>2, <4>3
      <4>4. CASE s # T
        <5>1. SumOver(f, s) = Body(s)
          BY <1>1, <1>2, <4>4
        <5> QED BY <4>2, <4>4, <5>1
      <4> QED BY <4>3, <4>4
    <3>2. h = [s \in SUBSET T |-> IF s = {} THEN 0 ELSE f[PickFrom(s)] + h[s \ {PickFrom(s)}]]
      BY <3>1
    <3> HIDE DEF h
    <3> QED BY <3>2 DEF SumsUp
  <2>2. ASSUME NEW g, SumsUp(g, f, T), NEW s \in SUBSET T, s # T
        PROVE  g[s] = SumOver(f, s)
    <3> DEFINE k == [t \in SUBSET s |-> g[t]]
    <3>1. \A t \in SUBSET T : g[t] = IF t = {} THEN 0 ELSE f[PickFrom(t)] + g[t \ {PickFrom(t)}]
      BY <2>2 DEF SumsUp
    <3>2. ASSUME NEW t \in SUBSET s
          PROVE  g[t] = IF t = {} THEN 0 ELSE f[PickFrom(t)] + k[t \ {PickFrom(t)}]
      BY <3>1
    <3>3. SumsUp(k, f, s)
      <4>1. k = [t \in SUBSET s |-> IF t = {} THEN 0 ELSE f[PickFrom(t)] + k[t \ {PickFrom(t)}]]
        BY <3>2
      <4> HIDE DEF k
      <4> QED BY <4>1 DEF SumsUp
    <3>4. k = [t \in SUBSET s |-> SumOver(f, t)]
      BY <1>2, <2>2, <3>3
    <3> QED BY <3>4
  <2>3. ASSUME NEW g, SumsUp(g, f, T) PROVE g[T] = Body(T)
    <3>1. g[T] = IF T = {} THEN 0 ELSE f[PickFrom(T)] + g[T \ {PickFrom(T)}]
      BY <2>3 DEF SumsUp
    <3>2. T # {} => T \ {PickFrom(T)} # T
      BY PickIsIn
    <3> QED BY <2>2, <2>3, <3>1, <3>2
  <2>4. SumOver(f, T) = Body(T)
    <3>1. SumsUp((CHOOSE g : SumsUp(g, f, T)), f, T)
      BY <2>1
    <3> HIDE DEF Body
    <3> QED BY <2>3, <3>1, SumOverChosen
  <2>5. h = [s \in SUBSET T |-> SumOver(f, s)]
    BY <2>4
  <2>6. ASSUME NEW g, SumsUp(g, f, T) PROVE g = [s \in SUBSET T |-> SumOver(f, s)]
    <3>1. g = [s \in SUBSET T |-> g[s]]
      BY <2>6 DEF SumsUp
    <3>2. \A s \in SUBSET T : g[s] = SumOver(f, s)
      BY <2>2, <2>3, <2>4, <2>6
    <3> QED BY <3>1, <3>2
  <2> HIDE DEF h, Body
  <2> QED BY <2>1, <2>5, <2>6
<1>3. Bad = {}
  <2>1. SUFFICES ASSUME Bad # {} PROVE FALSE
    OBVIOUS
  <2>2. Bad \in SUBSET SUBSET D
    OBVIOUS
  <2>3. \E T \in Bad : \A U \in Bad : U \subseteq T => U = T
    <3> HIDE DEF Bad
    <3> QED BY <2>1, <2>2, LeastSubset
  <2>4. PICK T \in Bad : \A U \in Bad : U \subseteq T => U = T
    BY <2>3
  <2> HIDE DEF Q
  <2>5. \A U \in SUBSET T : U # T => Q(U)
    BY <2>4
  <2> QED BY <1>2, <2>4, <2>5
<1>4. Q(S)
  BY <1>3
<1> QED BY <1>1, <1>4

\* The values of f on D are natural numbers, and so are its sums.
LEMMA SumIsNat ==
    ASSUME NEW D, IsFiniteSet(D), NEW f, \A x \in D : f[x] \in Nat, NEW S \in SUBSET D
    PROVE  SumOver(f, S) \in Nat
<1> DEFINE Bad == {T \in SUBSET D : SumOver(f, T) \notin Nat}
<1>1. Bad = {}
  <2>1. SUFFICES ASSUME Bad # {} PROVE FALSE
    OBVIOUS
  <2>2. Bad \in SUBSET SUBSET D
    OBVIOUS
  <2>3. \E T \in Bad : \A U \in Bad : U \subseteq T => U = T
    <3> HIDE DEF Bad
    <3> QED BY <2>1, <2>2, LeastSubset
  <2>4. PICK T \in Bad : \A U \in Bad : U \subseteq T => U = T
    BY <2>3
  <2>5. T # {} => SumOver(f, T \ {PickFrom(T)}) \in Nat /\ f[PickFrom(T)] \in Nat
    BY <2>4, PickIsIn
  <2>6. SumOver(f, T) = IF T = {} THEN 0 ELSE f[PickFrom(T)] + SumOver(f, T \ {PickFrom(T)})
    BY SumEquation
  <2> QED BY <2>5, <2>6
<1> QED BY <1>1

\* Any element may be taken out of a sum, not only the one that was picked.
LEMMA SumWithout ==
    ASSUME NEW D, IsFiniteSet(D), NEW f, \A x \in D : f[x] \in Nat,
           NEW S \in SUBSET D, NEW x \in S
    PROVE  SumOver(f, S) = f[x] + SumOver(f, S \ {x})
<1> DEFINE Good(T) == \A y \in T : SumOver(f, T) = f[y] + SumOver(f, T \ {y})
           Bad == {T \in SUBSET D : ~Good(T)}
<1>1. ASSUME NEW T \in SUBSET D, \A U \in SUBSET T : U # T => Good(U), NEW y \in T
      PROVE  SumOver(f, T) = f[y] + SumOver(f, T \ {y})
  <2> DEFINE z == PickFrom(T)
  <2>1. z \in T /\ SumOver(f, T) = f[z] + SumOver(f, T \ {z})
    <3>1. SumOver(f, T) = IF T = {} THEN 0 ELSE f[PickFrom(T)] + SumOver(f, T \ {PickFrom(T)})
      BY SumEquation
    <3> QED BY <3>1, PickIsIn
  <2> HIDE DEF z
  <2>2. CASE y = z
    BY <2>1, <2>2
  <2>3. CASE y # z
    <3>1. SumOver(f, T \ {z}) = f[y] + SumOver(f, (T \ {z}) \ {y})
      BY <1>1, <2>1, <2>3
    <3>2. SumOver(f, T \ {y}) = f[z] + SumOver(f, (T \ {y}) \ {z})
      BY <1>1, <2>1, <2>3
    <3>3. (T \ {z}) \ {y} = (T \ {y}) \ {z}
      OBVIOUS
    <3>4. SumOver(f, (T \ {y}) \ {z}) \in Nat /\ f[y] \in Nat /\ f[z] \in Nat
      BY <2>1, SumIsNat
    <3> QED BY <2>1, <3>1, <3>2, <3>3, <3>4
  <2> QED BY <2>2, <2>3
<1>2. Bad = {}
  <2>1. SUFFICES ASSUME Bad # {} PROVE FALSE
    OBVIOUS
  <2>2. Bad \in SUBSET SUBSET D
    OBVIOUS
  <2>3. \E T \in Bad : \A U \in Bad : U \subseteq T => U = T
    <3> HIDE DEF Bad
    <3> QED BY <2>1, <2>2, LeastSubset
  <2>4. PICK T \in Bad : \A U \in Bad : U \subseteq T => U = T
    BY <2>3
  <2>5. \A U \in SUBSET T : U # T => Good(U)
    BY <2>4
  <2>6. Good(T)
    <3> HIDE DEF Good
    <3>1. T \in SUBSET D
      BY <2>4
    <3> QED BY <1>1, <2>5, <3>1 DEF Good
  <2> QED BY <2>4, <2>6
<1> QED BY <1>2

LEMMA SumOfNone == \A f : SumOver(f, {}) = 0
<1> SUFFICES ASSUME NEW f PROVE SumOver(f, {}) = 0
  OBVIOUS
<1>1. IsFiniteSet({}) /\ {} \in SUBSET {}
  BY FS_EmptySet
<1> QED BY <1>1, SumEquation

\* The sum over two disjoint sets.
LEMMA SumOfParts ==
    ASSUME NEW D, IsFiniteSet(D), NEW f, \A x \in D : f[x] \in Nat,
           NEW S \in SUBSET D, NEW T \in SUBSET D, S \cap T = {}
    PROVE  SumOver(f, S \cup T) = SumOver(f, S) + SumOver(f, T)
<1> DEFINE Bad == {U \in SUBSET T : SumOver(f, S \cup U) # SumOver(f, S) + SumOver(f, U)}
<1>1. Bad = {}
  <2>1. SUFFICES ASSUME Bad # {} PROVE FALSE
    OBVIOUS
  <2>2. Bad \in SUBSET SUBSET D
    OBVIOUS
  <2>3. \E U \in Bad : \A V \in Bad : V \subseteq U => V = U
    <3> HIDE DEF Bad
    <3> QED BY <2>1, <2>2, LeastSubset
  <2>4. PICK U \in Bad : \A V \in Bad : V \subseteq U => V = U
    BY <2>3
  <2>5. SumOver(f, S) \in Nat
    BY SumIsNat
  <2>6. CASE U = {}
    BY <2>4, <2>5, <2>6, SumOfNone
  <2>7. CASE U # {}
    <3>1. PICK x \in U : TRUE
      BY <2>7
    <3>2. SumOver(f, S \cup (U \ {x})) = SumOver(f, S) + SumOver(f, U \ {x})
      BY <2>4, <3>1
    <3>3. /\ SumOver(f, U) = f[x] + SumOver(f, U \ {x})
          /\ SumOver(f, S \cup U) = f[x] + SumOver(f, (S \cup U) \ {x})
      BY <3>1, <2>4, SumWithout
    <3>4. (S \cup U) \ {x} = S \cup (U \ {x})
      BY <3>1
    <3>5. f[x] \in Nat /\ SumOver(f, U \ {x}) \in Nat
      BY <3>1, <2>4, SumIsNat
    <3> QED BY <2>4, <2>5, <3>2, <3>3, <3>4, <3>5
  <2> QED BY <2>6, <2>7
<1> QED BY <1>1

\* A smaller set has no larger sum.
LEMMA SumGrows ==
    ASSUME NEW D, IsFiniteSet(D), NEW f, \A x \in D : f[x] \in Nat,
           NEW S \in SUBSET D, NEW T \in SUBSET S
    PROVE  SumOver(f, T) <= SumOver(f, S)
<1>1. SumOver(f, T \cup (S \ T)) = SumOver(f, T) + SumOver(f, S \ T)
  BY SumOfParts
<1>2. T \cup (S \ T) = S
  OBVIOUS
<1>3. SumOver(f, T) \in Nat /\ SumOver(f, S \ T) \in Nat
  BY SumIsNat
<1>4. SumOver(f, S) = SumOver(f, T) + SumOver(f, S \ T)
  BY <1>1, <1>2
<1> QED BY <1>3, <1>4

LEMMA SumOfOne ==
    ASSUME NEW f, NEW x, f[x] \in Nat
    PROVE  SumOver(f, {x}) = f[x]
<1>1. IsFiniteSet({x}) /\ (\A y \in {x} : f[y] \in Nat) /\ {x} \ {x} = {}
  BY FS_Singleton
<1>2. SumOver(f, {x}) = f[x] + SumOver(f, {x} \ {x})
  BY <1>1, SumWithout
<1>3. SumOver(f, {x} \ {x}) = 0
  BY <1>1, SumOfNone
<1> QED BY <1>2, <1>3

\* Whatever two sets have in common is counted once in their union.
LEMMA SumOfUnion ==
    ASSUME NEW D, IsFiniteSet(D), NEW f, \A x \in D : f[x] \in Nat,
           NEW S \in SUBSET D, NEW T \in SUBSET D
    PROVE  SumOver(f, S \cup T) <= SumOver(f, S) + SumOver(f, T)
<1>1. SumOver(f, S \cup (T \ S)) = SumOver(f, S) + SumOver(f, T \ S)
  BY SumOfParts
<1>2. S \cup (T \ S) = S \cup T
  OBVIOUS
<1>3. SumOver(f, S) \in Nat /\ SumOver(f, T) \in Nat /\ SumOver(f, T \ S) \in Nat
  BY SumIsNat
<1>4. SumOver(f, T \ S) <= SumOver(f, T)
  BY SumGrows
<1>5. SumOver(f, S \cup T) = SumOver(f, S) + SumOver(f, T \ S)
  BY <1>1, <1>2
<1> QED BY <1>3, <1>4, <1>5

\* Functions that agree on a set have the same sum over it.
LEMMA SumOfEqual ==
    ASSUME NEW S, IsFiniteSet(S), NEW f, NEW g, \A x \in S : f[x] = g[x]
    PROVE  SumOver(f, S) = SumOver(g, S)
<1> DEFINE Bad == {T \in SUBSET S : SumOver(f, T) # SumOver(g, T)}
<1>1. Bad = {}
  <2>1. SUFFICES ASSUME Bad # {} PROVE FALSE
    OBVIOUS
  <2>2. Bad \in SUBSET SUBSET S
    OBVIOUS
  <2>3. \E T \in Bad : \A U \in Bad : U \subseteq T => U = T
    <3> HIDE DEF Bad
    <3> QED BY <2>1, <2>2, LeastSubset
  <2>4. PICK T \in Bad : \A U \in Bad : U \subseteq T => U = T
    BY <2>3
  <2>5. /\ SumOver(f, T) = IF T = {} THEN 0 ELSE f[PickFrom(T)] + SumOver(f, T \ {PickFrom(T)})
        /\ SumOver(g, T) = IF T = {} THEN 0 ELSE g[PickFrom(T)] + SumOver(g, T \ {PickFrom(T)})
    BY SumEquation
  <2>6. T # {} => PickFrom(T) \in T /\ f[PickFrom(T)] = g[PickFrom(T)]
    BY PickIsIn
  <2>7. T # {} => SumOver(f, T \ {PickFrom(T)}) = SumOver(g, T \ {PickFrom(T)})
    BY <2>4, <2>6
  <2> QED BY <2>4, <2>5, <2>6, <2>7
<1> QED BY <1>1

\* The sum over a set of zeros.
LEMMA SumOfZeros ==
    ASSUME NEW S, IsFiniteSet(S), NEW f, \A x \in S : f[x] = 0
    PROVE  SumOver(f, S) = 0
<1> DEFINE Bad == {T \in SUBSET S : SumOver(f, T) # 0}
<1>1. Bad = {}
  <2>1. SUFFICES ASSUME Bad # {} PROVE FALSE
    OBVIOUS
  <2>2. Bad \in SUBSET SUBSET S
    OBVIOUS
  <2>3. \E T \in Bad : \A U \in Bad : U \subseteq T => U = T
    <3> HIDE DEF Bad
    <3> QED BY <2>1, <2>2, LeastSubset
  <2>4. PICK T \in Bad : \A U \in Bad : U \subseteq T => U = T
    BY <2>3
  <2>5. SumOver(f, T) = IF T = {} THEN 0 ELSE f[PickFrom(T)] + SumOver(f, T \ {PickFrom(T)})
    BY SumEquation
  <2>6. T # {} => PickFrom(T) \in T /\ f[PickFrom(T)] = 0
    BY PickIsIn
  <2>7. T # {} => SumOver(f, T \ {PickFrom(T)}) = 0
    BY <2>4, <2>6
  <2> QED BY <2>4, <2>5, <2>6, <2>7
<1> QED BY <1>1
=============================================================================
