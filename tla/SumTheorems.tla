---------------------------- MODULE SumTheorems ----------------------------
(***************************************************************************)
(* Facts about SumFunctionOnSet of the community module Functions: what a   *)
(* sum over a finite set is, that its elements may be taken in any order,   *)
(* and how it changes with one element.  StockLedger adds up what the open  *)
(* orders hold of a variant, Checkout what the open carts ask for.          *)
(*                                                                         *)
(* The sum is a fold, defined by recursion over the subsets of the set.     *)
(* What is true of every finite set is proved without induction over an     *)
(* operator: among the sets for which it fails one would be smallest.       *)
(***************************************************************************)
EXTENDS Integers, FiniteSets, Functions, FiniteSetTheorems, WellFoundedInduction, TLAPS

(* The fold as the community module defines it, by name. *)
SumFirst(t) == CHOOSE x \in t : TRUE
SumStep(f, g, s) == IF s = {} THEN 0 ELSE f[SumFirst(s)] + g[s \ {SumFirst(s)}]
SumIter(f, S) == CHOOSE g : g = [s \in SUBSET S |-> SumStep(f, g, s)]

(* The sum is the value of that function at the whole set. *)
LEMMA SumIsIter ==
    ASSUME NEW f, NEW S
    PROVE  SumFunctionOnSet(f, S) = SumIter(f, S)[S]
  BY DEF SumFunctionOnSet, FoldFunctionOnSet, MapThenFoldSet, SumIter, SumStep, SumFirst

(* A set of natural numbers has a least one. *)
LEMMA LeastNat ==
    ASSUME NEW T \in SUBSET Nat, T # {}
    PROVE  \E m \in T : \A k \in T : m <= k
  <1> DEFINE R == OpToRel(<, Nat)
  <1>1. \A x, y \in Nat : x < y => <<x, y>> \in R
    BY DEF OpToRel
  <1>2. PICK m \in T : \A k \in T : <<k, m>> \notin R
    BY NatLessThanWellFounded, WFMin
  <1>3. \A k \in T : k \in Nat /\ m \in Nat /\ ~(k < m)
    <2> HIDE DEF R
    <2> QED BY <1>1, <1>2
  <1> QED BY <1>3

(* What is chosen of a set is in it. *)
LEMMA SumFirstIn == \A S : S # {} => SumFirst(S) \in S
  BY DEF SumFirst

(* Without one of its elements a finite set is smaller. *)
LEMMA Smaller ==
    ASSUME NEW S, IsFiniteSet(S), NEW x \in S
    PROVE  /\ IsFiniteSet(S \ {x}) /\ Cardinality(S) \in Nat /\ Cardinality(S \ {x}) \in Nat
           /\ Cardinality(S \ {x}) = Cardinality(S) - 1
  BY FS_RemoveElement, FS_CardinalityType

(* Among sets of subsets there is one that has none of them below it. *)
LEMMA Smallest ==
    ASSUME NEW S, IsFiniteSet(S), NEW B \in SUBSET (SUBSET S), B # {}
    PROVE  \E t \in B : \A x \in t : t \ {x} \notin B
  <1> DEFINE Sizes == {Cardinality(t) : t \in B}
  <1>0. \A t \in SUBSET S : IsFiniteSet(t) /\ Cardinality(t) \in Nat
    BY FS_Subset, FS_CardinalityType
  <1>1. Sizes \in SUBSET Nat /\ Sizes # {}
    BY <1>0
  <1>2. PICK m \in Sizes : \A k \in Sizes : m <= k
    BY <1>1, LeastNat
  <1>3. PICK t \in B : Cardinality(t) = m
    BY <1>2
  <1>4. ASSUME NEW x \in t, t \ {x} \in B PROVE FALSE
    <2>1. Cardinality(t) \in Nat /\ Cardinality(t \ {x}) = Cardinality(t) - 1
      BY <1>0, <1>3, Smaller
    <2>2. m <= Cardinality(t \ {x})
      BY <1>2, <1>4
    <2> QED BY <1>3, <2>1, <2>2
  <1> QED BY <1>4

(* There is a function that satisfies the recursion: one for the subsets of *)
(* n elements at most is extended to those of n + 1.                        *)
LEMMA SumIterExists ==
    ASSUME NEW f, NEW S, IsFiniteSet(S)
    PROVE  \E g : g = [s \in SUBSET S |-> SumStep(f, g, s)]
  <1> DEFINE D(n) == {t \in SUBSET S : Cardinality(t) <= n}
             Good(n) == \E g : g = [t \in D(n) |-> SumStep(f, g, t)]
  <1>0. \A t \in SUBSET S : IsFiniteSet(t) /\ Cardinality(t) \in Nat /\ Cardinality(t) <= Cardinality(S)
    BY FS_Subset, FS_CardinalityType
  <1>1. Good(0)
    <2> DEFINE g == [t \in D(0) |-> 0]
    <2>1. \A t \in D(0) : t = {}
      BY <1>0, FS_EmptySet
    <2>2. g = [t \in D(0) |-> SumStep(f, g, t)]
      BY <2>1 DEF SumStep
    <2> HIDE DEF g
    <2> QED BY <2>2
  <1>2. ASSUME NEW n \in Nat, Good(n) PROVE Good(n + 1)
    <2>1. PICK g : g = [t \in D(n) |-> SumStep(f, g, t)]
      BY <1>2
    <2> DEFINE h == [t \in D(n + 1) |-> IF Cardinality(t) <= n THEN g[t] ELSE SumStep(f, g, t)]
    <2>2. ASSUME NEW t \in D(n + 1) PROVE h[t] = SumStep(f, h, t)
      <3>1. CASE t = {}
        <4>1. t \in D(n)
          BY <3>1, FS_EmptySet
        <4> QED BY <3>1, <4>1, <2>1 DEF SumStep
      <3>2. CASE t # {}
        <4> DEFINE r == t \ {SumFirst(t)}
        <4>1. r \in D(n) /\ Cardinality(r) <= n
          BY <3>2, <1>0, SumFirstIn, Smaller
        <4>2. h[r] = g[r]
          <5>1. r \in D(n + 1)
            BY <4>1, <1>0
          <5> QED BY <4>1, <5>1
        <4>3. h[t] = SumStep(f, g, t)
          <5>1. CASE Cardinality(t) <= n
            BY <5>1, <2>1
          <5>2. CASE ~(Cardinality(t) <= n)
            BY <5>2
          <5> QED BY <5>1, <5>2
        <4> HIDE DEF h
        <4> QED BY <4>2, <4>3, <3>2 DEF SumStep
      <3> QED BY <3>1, <3>2
    <2>3. h = [t \in D(n + 1) |-> SumStep(f, h, t)]
      BY <2>2
    <2> HIDE DEF h
    <2> QED BY <2>3
  <1> HIDE DEF Good
  <1>3. \A n \in Nat : Good(n)
    <2> DEFINE Bad == {n \in Nat : ~Good(n)}
    <2>1. SUFFICES ASSUME Bad # {} PROVE FALSE
      OBVIOUS
    <2>2. PICK m \in Bad : \A k \in Bad : m <= k
      BY <2>1, LeastNat
    <2>3. m # 0 /\ m - 1 \in Nat
      BY <2>2, <1>1
    <2>4. Good(m - 1)
      BY <2>2, <2>3
    <2>5. Good((m - 1) + 1)
      BY <2>3, <2>4, <1>2
    <2>6. (m - 1) + 1 = m
      BY <2>2
    <2> QED BY <2>2, <2>5, <2>6
  <1>4. D(Cardinality(S)) = SUBSET S
    BY <1>0
  <1>5. Good(Cardinality(S))
    BY <1>3, <1>0
  <1> HIDE DEF D
  <1> QED BY <1>4, <1>5 DEF Good

(* So the fold satisfies it. *)
LEMMA SumIterStep ==
    ASSUME NEW f, NEW S, IsFiniteSet(S), NEW s \in SUBSET S
    PROVE  SumIter(f, S)[s] = SumStep(f, SumIter(f, S), s)
  <1>1. SumIter(f, S) = [t \in SUBSET S |-> SumStep(f, SumIter(f, S), t)]
    BY SumIterExists DEF SumIter
  <1> DEFINE g == SumIter(f, S)
  <1>2. g = [t \in SUBSET S |-> SumStep(f, g, t)]
    BY <1>1
  <1> HIDE DEF g
  <1>3. g[s] = SumStep(f, g, s)
    BY <1>2
  <1> QED BY <1>3 DEF g

(* The folds over two sets, of functions that agree on what both have. *)
LEMMA SumIterAgrees ==
    ASSUME NEW f, NEW g, NEW S, NEW T, IsFiniteSet(S), IsFiniteSet(T),
           NEW s \in SUBSET (S \cap T), \A x \in s : f[x] = g[x]
    PROVE  SumIter(f, S)[s] = SumIter(g, T)[s]
  <1> DEFINE Apart == {t \in SUBSET s : SumIter(f, S)[t] # SumIter(g, T)[t]}
  <1>1. SUFFICES ASSUME Apart # {} PROVE FALSE
    OBVIOUS
  <1>2. IsFiniteSet(s)
    BY FS_Subset
  <1>3. PICK t \in Apart : \A x \in t : t \ {x} \notin Apart
    BY <1>1, <1>2, Smallest
  <1>4. /\ SumIter(f, S)[t] = SumStep(f, SumIter(f, S), t)
        /\ SumIter(g, T)[t] = SumStep(g, SumIter(g, T), t)
    BY <1>3, SumIterStep
  <1>5. t # {}
    BY <1>3, <1>4 DEF SumStep
  <1>6. SumFirst(t) \in t
    BY <1>5, SumFirstIn
  <1>7. SumIter(f, S)[t \ {SumFirst(t)}] = SumIter(g, T)[t \ {SumFirst(t)}]
    BY <1>3, <1>6
  <1> QED BY <1>3, <1>4, <1>5, <1>6, <1>7 DEF SumStep

(* The empty sum. *)
LEMMA SumEmpty == \A f : SumFunctionOnSet(f, {}) = 0
  BY SumIsIter, SumIterStep, FS_EmptySet DEF SumStep

(* A sum is what is chosen first, and the sum of the rest. *)
LEMMA SumTakesFirst ==
    ASSUME NEW f, NEW S, IsFiniteSet(S), S # {}
    PROVE  SumFunctionOnSet(f, S) = f[SumFirst(S)] + SumFunctionOnSet(f, S \ {SumFirst(S)})
  <1>1. SumFirst(S) \in S /\ IsFiniteSet(S \ {SumFirst(S)})
    BY SumFirstIn, Smaller
  <1>2. SumFunctionOnSet(f, S) = f[SumFirst(S)] + SumIter(f, S)[S \ {SumFirst(S)}]
    BY SumIsIter, SumIterStep DEF SumStep
  <1>3. SumIter(f, S)[S \ {SumFirst(S)}] = SumIter(f, S \ {SumFirst(S)})[S \ {SumFirst(S)}]
    BY <1>1, SumIterAgrees
  <1> QED BY <1>2, <1>3, SumIsIter

(* Functions that agree on a set have the same sum over it. *)
LEMMA SumAgrees ==
    ASSUME NEW f, NEW g, NEW S, IsFiniteSet(S), \A x \in S : f[x] = g[x]
    PROVE  SumFunctionOnSet(f, S) = SumFunctionOnSet(g, S)
  BY SumIsIter, SumIterAgrees

(* A set with 0 that is closed under addition has the sums of its elements. *)
LEMMA SumIsIn ==
    ASSUME NEW D, 0 \in D, \A a, b \in D : a + b \in D,
           NEW f, NEW S, IsFiniteSet(S), \A x \in S : f[x] \in D
    PROVE  SumFunctionOnSet(f, S) \in D
  <1> DEFINE Bad == {t \in SUBSET S : SumFunctionOnSet(f, t) \notin D}
  <1>1. SUFFICES ASSUME Bad # {} PROVE FALSE
    OBVIOUS
  <1>2. PICK t \in Bad : \A x \in t : t \ {x} \notin Bad
    BY <1>1, Smallest
  <1>3. t # {}
    <2>1. SumFunctionOnSet(f, {}) \in D
      BY SumEmpty
    <2> QED BY <1>2, <2>1
  <1>4. SumFirst(t) \in t
    BY <1>3, SumFirstIn
  <1>5. SumFunctionOnSet(f, t \ {SumFirst(t)}) \in D /\ f[SumFirst(t)] \in D
    BY <1>2, <1>4
  <1>6. SumFunctionOnSet(f, t) = f[SumFirst(t)] + SumFunctionOnSet(f, t \ {SumFirst(t)})
    BY <1>2, <1>3, FS_Subset, SumTakesFirst
  <1> QED BY <1>2, <1>5, <1>6

(* Sums of integers are integers. *)
LEMMA SumIsInt ==
    ASSUME NEW f, NEW S, IsFiniteSet(S), \A x \in S : f[x] \in Int
    PROVE  SumFunctionOnSet(f, S) \in Int
  BY SumIsIn

(* Sums of natural numbers are natural numbers. *)
LEMMA SumIsNat ==
    ASSUME NEW f, NEW S, IsFiniteSet(S), \A x \in S : f[x] \in Nat
    PROVE  SumFunctionOnSet(f, S) \in Nat
  <1>1. 0 \in Nat /\ \A a, b \in Nat : a + b \in Nat
    OBVIOUS
  <1> QED BY <1>1, SumIsIn, Zenon

(* Any element can be taken first. *)
LEMMA SumRemove ==
    ASSUME NEW f, NEW S, IsFiniteSet(S), \A y \in S : f[y] \in Int, NEW x \in S
    PROVE  SumFunctionOnSet(f, S) = f[x] + SumFunctionOnSet(f, S \ {x})
  <1> DEFINE Bad == {t \in SUBSET S : \E y \in t :
                        SumFunctionOnSet(f, t) # f[y] + SumFunctionOnSet(f, t \ {y})}
  <1>1. SUFFICES ASSUME Bad # {} PROVE FALSE
    OBVIOUS
  <1>2. PICK t \in Bad : \A z \in t : t \ {z} \notin Bad
    BY <1>1, Smallest
  <1>3. PICK y \in t : SumFunctionOnSet(f, t) # f[y] + SumFunctionOnSet(f, t \ {y})
    BY <1>2
  <1> DEFINE p == SumFirst(t)
  <1>4. p \in t
    BY <1>3, SumFirstIn
  <1>5. SumFunctionOnSet(f, t) = f[p] + SumFunctionOnSet(f, t \ {p})
    <2>1. IsFiniteSet(t)
      BY <1>2, FS_Subset
    <2> QED BY <2>1, <1>3, SumTakesFirst
  <1> HIDE DEF p
  <1>6. y # p
    BY <1>3, <1>5
  <1>7. t \ {p} \in SUBSET S /\ t \ {y} \in SUBSET S /\ y \in t \ {p} /\ p \in t \ {y}
    BY <1>2, <1>4, <1>6
  <1>8. /\ SumFunctionOnSet(f, t \ {p}) = f[y] + SumFunctionOnSet(f, (t \ {p}) \ {y})
        /\ SumFunctionOnSet(f, t \ {y}) = f[p] + SumFunctionOnSet(f, (t \ {y}) \ {p})
    BY <1>2, <1>3, <1>4, <1>7
  <1>9. (t \ {p}) \ {y} = (t \ {y}) \ {p}
    OBVIOUS
  <1>10. SumFunctionOnSet(f, (t \ {p}) \ {y}) \in Int /\ f[p] \in Int /\ f[y] \in Int
    <2>1. (t \ {p}) \ {y} \in SUBSET S /\ p \in S /\ y \in S
      BY <1>2, <1>4
    <2>2. IsFiniteSet((t \ {p}) \ {y})
      BY <2>1, FS_Subset
    <2> QED BY <2>1, <2>2, SumIsInt
  <1> QED BY <1>3, <1>5, <1>8, <1>9, <1>10

(* One more element. *)
LEMMA SumAdd ==
    ASSUME NEW f, NEW S, IsFiniteSet(S), NEW x, x \notin S, \A y \in S \cup {x} : f[y] \in Int
    PROVE  SumFunctionOnSet(f, S \cup {x}) = SumFunctionOnSet(f, S) + f[x]
  <1>1. IsFiniteSet(S \cup {x}) /\ (S \cup {x}) \ {x} = S
    BY FS_AddElement
  <1>2. SumFunctionOnSet(f, S) \in Int /\ f[x] \in Int
    BY SumIsInt
  <1> QED BY <1>1, <1>2, SumRemove

(* A sum of natural numbers is no less than any of them. *)
LEMMA SumBounds ==
    ASSUME NEW f, NEW S, IsFiniteSet(S), \A y \in S : f[y] \in Nat, NEW x \in S
    PROVE  f[x] <= SumFunctionOnSet(f, S)
  <1>1. SumFunctionOnSet(f, S) = f[x] + SumFunctionOnSet(f, S \ {x})
    BY SumRemove
  <1>2. SumFunctionOnSet(f, S \ {x}) \in Nat
    BY SumIsNat, FS_RemoveElement
  <1> QED BY <1>1, <1>2

(* f on S and g on T agree but at x: x's value changes, or x joins or leaves *)
(* the set.                                                                  *)
AgreeBut(x, f, S, g, T) ==
    /\ IsFiniteSet(S) /\ S \ {x} = T \ {x}
    /\ \A y \in S : f[y] \in Int
    /\ \A y \in T : g[y] \in Int
    /\ \A y \in S \ {x} : f[y] = g[y]

LEMMA SumChanges ==
    ASSUME NEW f, NEW g, NEW S, NEW T, NEW x, AgreeBut(x, f, S, g, T)
    PROVE  SumFunctionOnSet(g, T) = SumFunctionOnSet(f, S) - (IF x \in S THEN f[x] ELSE 0)
                                                           + (IF x \in T THEN g[x] ELSE 0)
  <1> DEFINE R == S \ {x}
  <1>0. /\ IsFiniteSet(S) /\ S \ {x} = T \ {x}
        /\ \A y \in S : f[y] \in Int
        /\ \A y \in T : g[y] \in Int
        /\ \A y \in S \ {x} : f[y] = g[y]
    BY DEF AgreeBut
  <1>1. IsFiniteSet(R) /\ R = T \ {x} /\ T \subseteq R \cup {x}
    BY <1>0, FS_Subset
  <1>2. IsFiniteSet(T)
    BY <1>1, FS_AddElement, FS_Subset
  <1>3. SumFunctionOnSet(f, R) = SumFunctionOnSet(g, R) /\ SumFunctionOnSet(f, R) \in Int
    BY <1>0, <1>1, SumAgrees, SumIsInt
  <1>4. x \in S => SumFunctionOnSet(f, S) = f[x] + SumFunctionOnSet(f, R) /\ f[x] \in Int
    BY <1>0, SumRemove
  <1>5. x \in T => SumFunctionOnSet(g, T) = g[x] + SumFunctionOnSet(g, R) /\ g[x] \in Int
    <2>1. x \in T => SumFunctionOnSet(g, T) = g[x] + SumFunctionOnSet(g, T \ {x})
      BY <1>0, <1>2, SumRemove
    <2> QED BY <1>0, <1>1, <2>1
  <1>6. (x \notin S => S = R) /\ (x \notin T => T = R)
    BY <1>1
  <1> HIDE DEF R
  <1>7. SumFunctionOnSet(f, S) = SumFunctionOnSet(f, R) + (IF x \in S THEN f[x] ELSE 0)
    BY <1>3, <1>4, <1>6
  <1>8. SumFunctionOnSet(g, T) = SumFunctionOnSet(f, R) + (IF x \in T THEN g[x] ELSE 0)
    BY <1>3, <1>5, <1>6
  <1> QED BY <1>3, <1>4, <1>5, <1>7, <1>8

(* A sum in two parts. *)
LEMMA SumSplit ==
    ASSUME NEW f, NEW S, IsFiniteSet(S), \A y \in S : f[y] \in Int, NEW T \in SUBSET S
    PROVE  SumFunctionOnSet(f, S) = SumFunctionOnSet(f, T) + SumFunctionOnSet(f, S \ T)
  <1> DEFINE Bad == {t \in SUBSET S : SumFunctionOnSet(f, S)
                        # SumFunctionOnSet(f, t) + SumFunctionOnSet(f, S \ t)}
  <1>1. SUFFICES ASSUME Bad # {} PROVE FALSE
    OBVIOUS
  <1>2. PICK t \in Bad : \A z \in t : t \ {z} \notin Bad
    BY <1>1, Smallest
  <1>3. \A u \in SUBSET S : IsFiniteSet(u) /\ SumFunctionOnSet(f, u) \in Int
    BY FS_Subset, SumIsInt
  <1>4. t # {}
    <2>1. S \ {} = S /\ SumFunctionOnSet(f, {}) = 0 /\ SumFunctionOnSet(f, S) \in Int
      BY <1>3, SumEmpty
    <2>2. SumFunctionOnSet(f, S) = SumFunctionOnSet(f, {}) + SumFunctionOnSet(f, S \ {})
      BY <2>1
    <2> QED BY <1>2, <2>2
  <1>5. PICK x : x \in t
    BY <1>4
  <1>6. SumFunctionOnSet(f, S) = SumFunctionOnSet(f, t \ {x}) + SumFunctionOnSet(f, S \ (t \ {x}))
    BY <1>2, <1>5
  <1>7. SumFunctionOnSet(f, t) = f[x] + SumFunctionOnSet(f, t \ {x})
    BY <1>2, <1>3, <1>5, SumRemove
  <1>8. SumFunctionOnSet(f, S \ (t \ {x})) = f[x] + SumFunctionOnSet(f, S \ t)
    <2>1. S \ (t \ {x}) \in SUBSET S /\ x \in S \ (t \ {x}) /\ (S \ (t \ {x})) \ {x} = S \ t
      BY <1>2, <1>5
    <2> QED BY <2>1, <1>3, SumRemove
  <1>9. /\ SumFunctionOnSet(f, t \ {x}) \in Int /\ SumFunctionOnSet(f, S \ t) \in Int
        /\ f[x] \in Int
    BY <1>2, <1>3, <1>5
  <1> QED BY <1>2, <1>6, <1>7, <1>8, <1>9

(* As many ones as there are elements. *)
LEMMA SumOfOnes ==
    ASSUME NEW f, NEW S, IsFiniteSet(S), \A y \in S : f[y] = 1
    PROVE  SumFunctionOnSet(f, S) = Cardinality(S)
  <1> DEFINE Bad == {t \in SUBSET S : SumFunctionOnSet(f, t) # Cardinality(t)}
  <1>1. SUFFICES ASSUME Bad # {} PROVE FALSE
    OBVIOUS
  <1>2. PICK t \in Bad : \A z \in t : t \ {z} \notin Bad
    BY <1>1, Smallest
  <1>3. IsFiniteSet(t) /\ \A y \in t : f[y] \in Int
    BY <1>2, FS_Subset
  <1>4. t # {}
    BY <1>2, SumEmpty, FS_EmptySet
  <1>5. PICK x : x \in t
    BY <1>4
  <1>6. /\ Cardinality(t \ {x}) = Cardinality(t) - 1 /\ Cardinality(t) \in Nat
        /\ SumFunctionOnSet(f, t \ {x}) = Cardinality(t \ {x})
    BY <1>2, <1>3, <1>5, Smaller
  <1>7. SumFunctionOnSet(f, t) = 1 + SumFunctionOnSet(f, t \ {x})
    BY <1>2, <1>3, <1>5, SumRemove
  <1> QED BY <1>2, <1>6, <1>7

(* A bound that each term keeps, the sum keeps. *)
LEMMA SumWithin ==
    ASSUME NEW f, NEW g, NEW h, NEW S, IsFiniteSet(S), NEW a \in Int, NEW b \in Int, NEW e \in Int,
           \A y \in S : f[y] \in Int /\ g[y] \in Int /\ h[y] \in Int,
           \A y \in S : a * f[y] <= b * g[y] + e * h[y]
    PROVE  a * SumFunctionOnSet(f, S) <= b * SumFunctionOnSet(g, S) + e * SumFunctionOnSet(h, S)
  <1> DEFINE Holds(t) == a * SumFunctionOnSet(f, t) <= b * SumFunctionOnSet(g, t) + e * SumFunctionOnSet(h, t)
             Bad == {t \in SUBSET S : ~Holds(t)}
  <1>1. SUFFICES ASSUME Bad # {} PROVE FALSE
    OBVIOUS
  <1>2. PICK t \in Bad : \A z \in t : t \ {z} \notin Bad
    BY <1>1, Smallest
  <1>3. IsFiniteSet(t)
    BY <1>2, FS_Subset
  <1>4. t # {}
    <2>1. /\ SumFunctionOnSet(f, {}) = 0 /\ SumFunctionOnSet(g, {}) = 0 /\ SumFunctionOnSet(h, {}) = 0
      BY SumEmpty
    <2>2. a * 0 <= b * 0 + e * 0
      OBVIOUS
    <2>3. Holds({})
      BY <2>1, <2>2
    <2> QED BY <1>2, <2>3
  <1>5. PICK x : x \in t
    BY <1>4
  <1> DEFINE r == t \ {x}
             F == SumFunctionOnSet(f, r)
             G == SumFunctionOnSet(g, r)
             H == SumFunctionOnSet(h, r)
  <1>6. F \in Int /\ G \in Int /\ H \in Int
    BY <1>2, <1>3, Smaller, SumIsInt
  <1>7. a * F <= b * G + e * H
    BY <1>2, <1>5
  <1>8. /\ SumFunctionOnSet(f, t) = f[x] + F
        /\ SumFunctionOnSet(g, t) = g[x] + G
        /\ SumFunctionOnSet(h, t) = h[x] + H
    BY <1>2, <1>3, <1>5, SumRemove
  <1>9. f[x] \in Int /\ g[x] \in Int /\ h[x] \in Int /\ a * f[x] <= b * g[x] + e * h[x]
    BY <1>2, <1>5
  <1> HIDE DEF F, G, H
  <1>10. a * (f[x] + F) <= b * (g[x] + G) + e * (h[x] + H)
    BY <1>6, <1>7, <1>9
  <1> QED BY <1>2, <1>8, <1>10
=============================================================================
