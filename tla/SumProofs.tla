----------------------------- MODULE SumProofs ------------------------------
(***************************************************************************)
(* Lemmas about SumFunctionOnSet, by which the specifications add up       *)
(* transfers, allocations, order lines and open orders.                    *)
(*                                                                         *)
(* It is defined by a recursive function on the subsets of the set, which  *)
(* takes the elements in an order left to CHOOSE.  The lemmas say that the *)
(* function exists, that the order does not matter, and how a sum changes  *)
(* with its terms.  Where an induction on finite sets is called for, the   *)
(* proof takes a smallest set for which the statement fails.               *)
(***************************************************************************)
EXTENDS Functions, FiniteSetTheorems, TLAPS

\* The element the recursion takes first, and the recursion itself.
Some(T) == CHOOSE x \in T : TRUE
Unfolded(f, g, T) == IF T = {} THEN 0 ELSE f[Some(T)] + g[T \ {Some(T)}]
Sums(f, S, g) == g = [T \in SUBSET S |-> Unfolded(f, g, T)]

\* A sum is the value of such a function.
LEMMA SumIsChosen ==
    ASSUME NEW f, NEW S
    PROVE  SumFunctionOnSet(f, S) = (CHOOSE g : Sums(f, S, g))[S]
BY DEF SumFunctionOnSet, FoldFunctionOnSet, MapThenFoldSet, Sums, Unfolded, Some

\* Among some subsets of a finite set there is one that contains no other.
LEMMA Minimal ==
    ASSUME NEW S, IsFiniteSet(S), NEW B \in SUBSET (SUBSET S), B # {}
    PROVE  \E T \in B : \A U \in B : U \subseteq T => U = T
<1>1. B \subseteq FiniteSubsetsOf(S)
  BY FS_FiniteSubsetsOfFinite
<1>2. PICK T \in B : \A U \in B : ~(<<U, T>> \in StrictSubsetOrdering(S))
  BY <1>1, FS_StrictSubsetOrderingWellFounded, WFMin
<1> QED
  BY <1>2 DEF StrictSubsetOrdering

\* Two functions that sum the subsets of two sets agree where both are defined.
LEMMA SumsAgree ==
    ASSUME NEW f, NEW S, NEW T, NEW g, NEW h, IsFiniteSet(S),
           Sums(f, S, g), Sums(f, T, h),
           NEW U \in SUBSET S, U \subseteq T
    PROVE  g[U] = h[U]
<1> DEFINE B == {V \in SUBSET S : V \subseteq T /\ g[V] # h[V]}
<1> SUFFICES ASSUME B # {} PROVE FALSE
  OBVIOUS
<1>b. B \in SUBSET (SUBSET S)
  OBVIOUS
<1> HIDE DEF B
<1>1. PICK V \in B : \A W \in B : W \subseteq V => W = V
  BY <1>b, Minimal
<1> USE DEF B
<1>2. g[V] = Unfolded(f, g, V) /\ h[V] = Unfolded(f, h, V)
  BY DEF Sums
<1>3. V # {}
  BY <1>2 DEF Unfolded
<1>4. Some(V) \in V
  BY <1>3 DEF Some
<1>5. g[V \ {Some(V)}] = h[V \ {Some(V)}]
  BY <1>1, <1>4
<1> QED
  BY <1>2, <1>3, <1>5 DEF Unfolded

\* There is a function that sums the subsets of a finite set.
LEMMA SumsExist ==
    ASSUME NEW f, NEW S, IsFiniteSet(S)
    PROVE  \E g : Sums(f, S, g)
<1> DEFINE B == {T \in SUBSET S : ~ \E g : Sums(f, T, g)}
<1> SUFFICES ASSUME B # {} PROVE FALSE
  OBVIOUS
<1>b. B \in SUBSET (SUBSET S)
  OBVIOUS
<1> HIDE DEF B
<1>1. PICK T \in B : \A U \in B : U \subseteq T => U = T
  BY <1>b, Minimal
<1> USE DEF B
<1> DEFINE G(U) == CHOOSE g : Sums(f, U, g)
<1>2. \A U \in SUBSET T : U # T => Sums(f, U, G(U))
  BY <1>1
<1> DEFINE Rest(U) == U \ {Some(U)}
           H == [U \in SUBSET T |->
                   IF U = {} THEN 0 ELSE f[Some(U)] + G(Rest(U))[Rest(U)]]
<1> HIDE DEF G
<1>3. ASSUME NEW U \in SUBSET T PROVE H[U] = Unfolded(f, H, U)
  <2>1. CASE U = {}
    BY <2>1 DEF Unfolded
  <2>2. CASE U # {}
    <3> DEFINE V == Rest(U)
    <3>1. Some(U) \in U
      BY <2>2 DEF Some
    <3>2. V \in SUBSET T /\ V # T
      BY <3>1
    <3>3. Sums(f, V, G(V)) /\ IsFiniteSet(V)
      BY <3>2, <1>2, FS_Subset
    <3>4. G(V)[V] = Unfolded(f, G(V), V)
      BY <3>3 DEF Sums
    <3>5. CASE V = {}
      <4>1. H[V] = 0 /\ G(V)[V] = 0
        BY <3>5, <3>4 DEF Unfolded
      <4> QED
        BY <4>1, <2>2 DEF Unfolded
    <3>6. CASE V # {}
      <4> DEFINE W == Rest(V)
      <4>1. Some(V) \in V
        BY <3>6 DEF Some
      <4>2. W \in SUBSET V /\ W \in SUBSET T /\ W # T
        BY <3>2, <4>1
      <4>3. Sums(f, W, G(W)) /\ IsFiniteSet(W)
        BY <4>2, <1>2, FS_Subset
      <4>4. G(V)[W] = G(W)[W]
        BY <3>3, <4>2, <4>3, SumsAgree
      <4>5. H[V] = f[Some(V)] + G(W)[W]
        BY <3>2, <3>6
      <4>6. H[V] = G(V)[V]
        BY <3>4, <3>6, <4>4, <4>5 DEF Unfolded
      <4>7. H[U] = f[Some(U)] + G(V)[V]
        BY <2>2
      <4> QED
        BY <4>6, <4>7, <2>2 DEF Unfolded
    <3> QED
      BY <3>5, <3>6
  <2> QED
    BY <2>1, <2>2
<1>4. Sums(f, T, H)
  BY <1>3 DEF Sums
<1> QED
  BY <1>1, <1>4

\* The recursion, as one step.
LEMMA SumUnfolds ==
    ASSUME NEW f, NEW S, IsFiniteSet(S)
    PROVE  SumFunctionOnSet(f, S) =
             IF S = {} THEN 0
             ELSE f[Some(S)] + SumFunctionOnSet(f, S \ {Some(S)})
<1> DEFINE G(U) == CHOOSE g : Sums(f, U, g)
           R == S \ {Some(S)}
<1>1. \A U \in SUBSET S : Sums(f, U, G(U))
  BY SumsExist, FS_Subset
<1>2. \A U : SumFunctionOnSet(f, U) = G(U)[U]
  BY SumIsChosen
<1> HIDE DEF G
<1>3. G(S)[S] = Unfolded(f, G(S), S)
  BY <1>1 DEF Sums
<1>4. G(S)[R] = G(R)[R]
  BY <1>1, SumsAgree
<1> QED
  BY <1>2, <1>3, <1>4 DEF Unfolded

\* The empty sum.
LEMMA SumOfNothing == ASSUME NEW f PROVE SumFunctionOnSet(f, {}) = 0
BY SumUnfolds, FS_EmptySet

\* A sum of integers is one.
LEMMA SumIsInt ==
    ASSUME NEW f, NEW S, IsFiniteSet(S), \A x \in S : f[x] \in Int
    PROVE  SumFunctionOnSet(f, S) \in Int
<1> DEFINE B == {T \in SUBSET S : SumFunctionOnSet(f, T) \notin Int}
<1> SUFFICES ASSUME B # {} PROVE FALSE
  OBVIOUS
<1>b. B \in SUBSET (SUBSET S)
  OBVIOUS
<1> HIDE DEF B
<1>1. PICK T \in B : \A U \in B : U \subseteq T => U = T
  BY <1>b, Minimal
<1> USE DEF B
<1>2. T # {}
  BY SumOfNothing
<1>3. Some(T) \in T
  BY <1>2 DEF Some
<1>4. SumFunctionOnSet(f, T) = f[Some(T)] + SumFunctionOnSet(f, T \ {Some(T)})
  BY <1>2, SumUnfolds, FS_Subset
<1>5. SumFunctionOnSet(f, T \ {Some(T)}) \in Int
  BY <1>1, <1>3
<1> QED
  BY <1>3, <1>4, <1>5

\* The sum does not depend on the element taken first.
LEMMA SumWithout ==
    ASSUME NEW f, NEW S, IsFiniteSet(S), \A x \in S : f[x] \in Int, NEW y \in S
    PROVE  SumFunctionOnSet(f, S) = f[y] + SumFunctionOnSet(f, S \ {y})
<1> DEFINE Total(T) == SumFunctionOnSet(f, T)
           B == {T \in SUBSET S :
                   \E x \in T : Total(T) # f[x] + Total(T \ {x})}
<1> SUFFICES ASSUME B # {} PROVE FALSE
  OBVIOUS
<1>a. \A T \in SUBSET S : Total(T) \in Int
  BY SumIsInt, FS_Subset
<1>b. B \in SUBSET (SUBSET S)
  OBVIOUS
<1> HIDE DEF B
<1>1. PICK T \in B : \A U \in B : U \subseteq T => U = T
  BY <1>b, Minimal
<1> USE DEF B
<1>2. PICK x \in T : Total(T) # f[x] + Total(T \ {x})
  OBVIOUS
<1> DEFINE z == Some(T)
<1>3. z \in T
  BY <1>2 DEF Some
<1>4. Total(T) = f[z] + Total(T \ {z})
  BY <1>2, SumUnfolds, FS_Subset
<1> HIDE DEF Total, z
<1>5. z # x
  BY <1>2, <1>4
<1>6. Total(T \ {z}) = f[x] + Total((T \ {z}) \ {x})
  <2>1. T \ {z} \in SUBSET S /\ x \in T \ {z} /\ T \ {z} \notin B
    BY <1>1, <1>3, <1>5
  <2> QED
    BY <2>1
<1>7. Total(T \ {x}) = f[z] + Total((T \ {x}) \ {z})
  <2>1. T \ {x} \in SUBSET S /\ z \in T \ {x} /\ T \ {x} \notin B
    BY <1>1, <1>3, <1>5
  <2> QED
    BY <2>1
<1>8. (T \ {z}) \ {x} = (T \ {x}) \ {z}
  OBVIOUS
<1>9. Total((T \ {x}) \ {z}) \in Int
  BY <1>a
<1>10. f[x] \in Int /\ f[z] \in Int
  BY <1>3
<1> HIDE DEF B
<1>11. Total(T \ {z}) = f[x] + Total((T \ {x}) \ {z})
  BY <1>6, <1>8
<1>13. Total(T) = f[z] + (f[x] + Total((T \ {x}) \ {z}))
  BY <1>4, <1>11
<1>14. Total(T) = f[x] + (f[z] + Total((T \ {x}) \ {z}))
  BY <1>13, <1>9, <1>10
<1> QED
  BY <1>2, <1>7, <1>14

\* Functions with the same values have the same sum.
LEMMA SumOfSame ==
    ASSUME NEW f, NEW g, NEW S, IsFiniteSet(S), \A x \in S : f[x] = g[x]
    PROVE  SumFunctionOnSet(f, S) = SumFunctionOnSet(g, S)
<1> DEFINE B == {T \in SUBSET S :
                   SumFunctionOnSet(f, T) # SumFunctionOnSet(g, T)}
<1> SUFFICES ASSUME B # {} PROVE FALSE
  OBVIOUS
<1>b. B \in SUBSET (SUBSET S)
  OBVIOUS
<1> HIDE DEF B
<1>1. PICK T \in B : \A U \in B : U \subseteq T => U = T
  BY <1>b, Minimal
<1> USE DEF B
<1>2. T # {}
  BY SumOfNothing
<1>3. Some(T) \in T
  BY <1>2 DEF Some
<1>4. /\ SumFunctionOnSet(f, T) = f[Some(T)] + SumFunctionOnSet(f, T \ {Some(T)})
      /\ SumFunctionOnSet(g, T) = g[Some(T)] + SumFunctionOnSet(g, T \ {Some(T)})
  BY <1>2, SumUnfolds, FS_Subset
<1>5. SumFunctionOnSet(f, T \ {Some(T)}) = SumFunctionOnSet(g, T \ {Some(T)})
  BY <1>1, <1>3
<1> QED
  BY <1>3, <1>4, <1>5

\* One value changes: the sum changes by as much.
LEMMA SumWithChange ==
    ASSUME NEW f, NEW g, NEW S, IsFiniteSet(S), NEW y \in S,
           \A x \in S : f[x] \in Int /\ g[x] \in Int,
           \A x \in S \ {y} : f[x] = g[x]
    PROVE  /\ SumFunctionOnSet(f, S) \in Int
           /\ SumFunctionOnSet(g, S) = SumFunctionOnSet(f, S) + (g[y] - f[y])
<1>1. IsFiniteSet(S \ {y})
  BY FS_Subset
<1>2. SumFunctionOnSet(f, S) = f[y] + SumFunctionOnSet(f, S \ {y})
  BY SumWithout
<1>3. SumFunctionOnSet(g, S) = g[y] + SumFunctionOnSet(g, S \ {y})
  BY SumWithout
<1>4. SumFunctionOnSet(f, S \ {y}) = SumFunctionOnSet(g, S \ {y})
  BY <1>1, SumOfSame
<1>5. SumFunctionOnSet(f, S \ {y}) \in Int
  BY <1>1, SumIsInt
<1> QED
  BY <1>2, <1>3, <1>4, <1>5

\* One more element.
LEMMA SumWithMore ==
    ASSUME NEW f, NEW S, IsFiniteSet(S), \A x \in S : f[x] \in Int,
           NEW y, y \notin S, f[y] \in Int
    PROVE  SumFunctionOnSet(f, S \cup {y}) = f[y] + SumFunctionOnSet(f, S)
<1>1. IsFiniteSet(S \cup {y}) /\ (S \cup {y}) \ {y} = S
  BY FS_AddElement
<1>2. y \in S \cup {y} /\ \A x \in S \cup {y} : f[x] \in Int
  OBVIOUS
<1> QED
  BY <1>1, <1>2, SumWithout

\* The sum of a single value.
LEMMA SumOfOne ==
    ASSUME NEW f, NEW y, f[y] \in Int
    PROVE  SumFunctionOnSet(f, {y}) = f[y]
<1>1. IsFiniteSet({y}) /\ {y} \ {y} = {} /\ y \in {y}
  BY FS_Singleton
<1>2. \A x \in {y} : f[x] \in Int
  OBVIOUS
<1>3. SumFunctionOnSet(f, {y}) = f[y] + SumFunctionOnSet(f, {y} \ {y})
  BY <1>1, <1>2, SumWithout
<1> QED
  BY <1>1, <1>3, SumOfNothing

\* Zeros add up to zero.
LEMMA SumOfZeros ==
    ASSUME NEW f, NEW S, IsFiniteSet(S), \A x \in S : f[x] = 0
    PROVE  SumFunctionOnSet(f, S) = 0
<1> DEFINE B == {T \in SUBSET S : SumFunctionOnSet(f, T) # 0}
<1> SUFFICES ASSUME B # {} PROVE FALSE
  OBVIOUS
<1>b. B \in SUBSET (SUBSET S)
  OBVIOUS
<1> HIDE DEF B
<1>1. PICK T \in B : \A U \in B : U \subseteq T => U = T
  BY <1>b, Minimal
<1> USE DEF B
<1>2. T # {}
  BY SumOfNothing
<1>3. Some(T) \in T
  BY <1>2 DEF Some
<1>4. SumFunctionOnSet(f, T) = f[Some(T)] + SumFunctionOnSet(f, T \ {Some(T)})
  BY <1>2, SumUnfolds, FS_Subset
<1>5. SumFunctionOnSet(f, T \ {Some(T)}) = 0
  BY <1>1, <1>3
<1> QED
  BY <1>3, <1>4, <1>5

\* A sum of natural numbers is one.
LEMMA SumIsNat ==
    ASSUME NEW f, NEW S, IsFiniteSet(S), \A x \in S : f[x] \in Nat
    PROVE  SumFunctionOnSet(f, S) \in Nat
<1> DEFINE B == {T \in SUBSET S : SumFunctionOnSet(f, T) \notin Nat}
<1> SUFFICES ASSUME B # {} PROVE FALSE
  OBVIOUS
<1>b. B \in SUBSET (SUBSET S)
  OBVIOUS
<1> HIDE DEF B
<1>1. PICK T \in B : \A U \in B : U \subseteq T => U = T
  BY <1>b, Minimal
<1> USE DEF B
<1>2. T # {}
  BY SumOfNothing
<1>3. Some(T) \in T
  BY <1>2 DEF Some
<1>4. SumFunctionOnSet(f, T) = f[Some(T)] + SumFunctionOnSet(f, T \ {Some(T)})
  BY <1>2, SumUnfolds, FS_Subset
<1>5. SumFunctionOnSet(f, T \ {Some(T)}) \in Nat
  BY <1>1, <1>3
<1> QED
  BY <1>3, <1>4, <1>5

\* Of natural numbers, those of a part do not make more than all.
LEMMA SumOfPart ==
    ASSUME NEW f, NEW S, IsFiniteSet(S), \A x \in S : f[x] \in Nat,
           NEW P \in SUBSET S
    PROVE  SumFunctionOnSet(f, P) <= SumFunctionOnSet(f, S)
<1> DEFINE B == {T \in SUBSET S : /\ P \subseteq T
                                  /\ ~(SumFunctionOnSet(f, P) <= SumFunctionOnSet(f, T))}
<1> SUFFICES ASSUME B # {} PROVE FALSE
  OBVIOUS
<1>b. B \in SUBSET (SUBSET S)
  OBVIOUS
<1> HIDE DEF B
<1>1. PICK T \in B : \A U \in B : U \subseteq T => U = T
  BY <1>b, Minimal
<1> USE DEF B
<1>2. \A U \in SUBSET S : SumFunctionOnSet(f, U) \in Nat
  BY SumIsNat, FS_Subset
<1>3. PICK y \in T : y \notin P
  BY <1>2
<1>4. SumFunctionOnSet(f, T) = f[y] + SumFunctionOnSet(f, T \ {y})
  BY SumWithout, FS_Subset
<1>5. SumFunctionOnSet(f, P) <= SumFunctionOnSet(f, T \ {y})
  BY <1>1, <1>3
<1>6. /\ SumFunctionOnSet(f, P) \in Nat /\ f[y] \in Nat
      /\ SumFunctionOnSet(f, T \ {y}) \in Nat
  BY <1>2, <1>3
<1>7. SumFunctionOnSet(f, P) <= SumFunctionOnSet(f, T)
  BY <1>4, <1>5, <1>6
<1> QED
  BY <1>7

=============================================================================
