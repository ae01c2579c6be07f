---------------------------- MODULE SumTheorems ----------------------------
(***************************************************************************)
(* What SumFunctionOnSet of the community module Functions returns, over    *)
(* any finite set: the fold is unfolded one element at a time, in any       *)
(* order.  The induction is carried by sets (a nonempty set of numbers has  *)
(* a least element), so that every step is first order.                     *)
(***************************************************************************)
EXTENDS Functions, Integers, FiniteSetTheorems, WellFoundedInduction, TLAPS

Pick(s) == CHOOSE x \in s : TRUE

\* g is the fold of f over the subsets of D, a picked element at a time.
Folding(g, f, D) ==
    g = [s \in SUBSET D |-> IF s = {} THEN 0 ELSE f[Pick(s)] + g[s \ {Pick(s)}]]

\* The same up to n elements.
UpTo(D, n) == {s \in SUBSET D : Cardinality(s) <= n}
FoldingUpTo(g, f, D, n) ==
    g = [s \in UpTo(D, n) |-> IF s = {} THEN 0 ELSE f[Pick(s)] + g[s \ {Pick(s)}]]

LEMMA SumIsFold ==
    ASSUME NEW f, NEW S
    PROVE  SumFunctionOnSet(f, S) = (CHOOSE g : Folding(g, f, S))[S]
  BY DEF SumFunctionOnSet, FoldFunctionOnSet, MapThenFoldSet, Folding, Pick

\* A nonempty set of natural numbers has a least element.
LEMMA Minimum ==
    ASSUME NEW T \in SUBSET Nat, T # {}
    PROVE  \E x \in T : \A y \in T : x <= y
  <1> DEFINE R == {ss \in Nat \X Nat : ss[1] < ss[2]}
  <1>1. IsWellFoundedOn(R, Nat)
    BY NatLessThanWellFounded DEF OpToRel
  <1>2. PICK x \in T : \A y \in T : ~ (<<y, x>> \in R)
    BY <1>1, WFMin
  <1>3. ASSUME NEW y \in T PROVE x <= y
    <2>1. <<y, x>> \in Nat \X Nat /\ <<y, x>>[1] = y /\ <<y, x>>[2] = x
      OBVIOUS
    <2>2. ~ (y < x)
      BY <1>2, <2>1
    <2> QED
      BY <2>2
  <1> QED
    BY <1>3

\* Taking the picked element away leaves a smaller set.
LEMMA Picked ==
    ASSUME NEW S, IsFiniteSet(S), S # {}
    PROVE  /\ Pick(S) \in S /\ IsFiniteSet(S \ {Pick(S)})
           /\ Cardinality(S) \in Nat /\ Cardinality(S) > 0
           /\ Cardinality(S \ {Pick(S)}) = Cardinality(S) - 1
  <1>1. Pick(S) \in S
    BY DEF Pick
  <1>2. Cardinality(S) \in Nat /\ Cardinality(S) # 0
    BY FS_CardinalityType, FS_EmptySet
  <1> QED
    BY <1>1, <1>2, FS_RemoveElement

\* There is such a fold, however many elements it covers.
LEMMA FoldExistsUpTo ==
    ASSUME NEW f, NEW D, IsFiniteSet(D), NEW n \in Nat
    PROVE  \E g : FoldingUpTo(g, f, D, n)
  <1> DEFINE Bad == {m \in Nat : ~ \E g : FoldingUpTo(g, f, D, m)}
  <1> SUFFICES ASSUME Bad # {} PROVE FALSE
    OBVIOUS
  <1>1. PICK m \in Bad : \A k \in Bad : m <= k
    BY Minimum
  <1> HIDE DEF Bad
  <1>2. ASSUME NEW s \in SUBSET D
        PROVE  IsFiniteSet(s) /\ Cardinality(s) \in Nat
    BY FS_Subset, FS_CardinalityType
  <1>3. ASSUME NEW k \in Nat, NEW s \in UpTo(D, k), s # {}
        PROVE  k # 0 /\ s \ {Pick(s)} \in UpTo(D, k - 1)
    <2>1. s \in SUBSET D /\ Cardinality(s) <= k
      BY <1>3 DEF UpTo
    <2>2. IsFiniteSet(s) /\ Cardinality(s) \in Nat
      BY <1>2, <2>1
    <2>3. Cardinality(s) > 0 /\ Cardinality(s \ {Pick(s)}) = Cardinality(s) - 1
      BY <1>3, <2>2, Picked
    <2>4. k # 0 /\ Cardinality(s \ {Pick(s)}) <= k - 1
      BY <2>1, <2>2, <2>3
    <2> QED
      BY <2>1, <2>4 DEF UpTo
  <1>4. m \in Nat /\ ~ \E g : FoldingUpTo(g, f, D, m)
    BY DEF Bad
  <1>5. CASE m = 0
    <2> DEFINE g == [s \in UpTo(D, m) |-> 0]
    <2>1. \A s \in UpTo(D, m) : s = {}
      BY <1>3, <1>5
    <2>2. FoldingUpTo(g, f, D, m)
      BY <2>1 DEF FoldingUpTo
    <2> QED
      BY <2>2, <1>4
  <1>6. CASE m # 0
    <2>1. m - 1 \in Nat /\ ~ (m <= m - 1)
      BY <1>4, <1>6
    <2>2. PICK h : FoldingUpTo(h, f, D, m - 1)
      BY <2>1, <1>1 DEF Bad
    <2> DEFINE g == [s \in UpTo(D, m) |-> IF s = {} THEN 0 ELSE f[Pick(s)] + h[s \ {Pick(s)}]]
    <2>3. ASSUME NEW s \in UpTo(D, m), s # {}
          PROVE  h[s \ {Pick(s)}] = g[s \ {Pick(s)}]
      <3> DEFINE t == s \ {Pick(s)}
      <3>1. t \in UpTo(D, m - 1)
        BY <1>3, <1>4, <2>3
      <3>2. t \in UpTo(D, m)
        BY <3>1, <1>2, <2>1, <1>4 DEF UpTo
      <3> HIDE DEF t
      <3>3. h[t] = IF t = {} THEN 0 ELSE f[Pick(t)] + h[t \ {Pick(t)}]
        BY <3>1, <2>2 DEF FoldingUpTo
      <3>4. g[t] = IF t = {} THEN 0 ELSE f[Pick(t)] + h[t \ {Pick(t)}]
        BY <3>2
      <3> QED
        BY <3>3, <3>4 DEF t
    <2>4. FoldingUpTo(g, f, D, m)
      BY <2>3 DEF FoldingUpTo
    <2> QED
      BY <2>4, <1>4
  <1> QED
    BY <1>5, <1>6

LEMMA FoldExists ==
    ASSUME NEW f, NEW D, IsFiniteSet(D)
    PROVE  Folding(CHOOSE g : Folding(g, f, D), f, D)
  <1>1. UpTo(D, Cardinality(D)) = SUBSET D /\ Cardinality(D) \in Nat
    BY FS_Subset, FS_CardinalityType DEF UpTo
  <1>2. PICK g : FoldingUpTo(g, f, D, Cardinality(D))
    BY <1>1, FoldExistsUpTo
  <1>3. Folding(g, f, D)
    BY <1>1, <1>2 DEF Folding, FoldingUpTo
  <1> QED
    BY <1>3

\* Two folds agree on every set both cover and whose elements they sum alike.
LEMMA FoldsAgree ==
    ASSUME NEW f, NEW g, NEW D, NEW E, NEW h, NEW k, IsFiniteSet(D),
           Folding(h, f, D), Folding(k, g, E), NEW S \in SUBSET (D \cap E),
           \A x \in S : f[x] = g[x]
    PROVE  h[S] = k[S]
  <1> DEFINE Odd(s) == s \subseteq S /\ h[s] # k[s]
             Bad == {n \in Nat : \E s \in SUBSET S : Odd(s) /\ n = Cardinality(s)}
  <1>1. ASSUME NEW s \in SUBSET S
        PROVE  IsFiniteSet(s) /\ Cardinality(s) \in Nat
    BY FS_Subset, FS_CardinalityType
  <1> SUFFICES ASSUME Odd(S) PROVE FALSE
    OBVIOUS
  <1>2. Bad # {} /\ Bad \in SUBSET Nat
    BY <1>1
  <1>3. PICK n \in Bad : \A m \in Bad : n <= m
    BY <1>2, Minimum
  <1>4. PICK s \in SUBSET S : Odd(s) /\ n = Cardinality(s)
    OBVIOUS
  <1>5. /\ h[s] = IF s = {} THEN 0 ELSE f[Pick(s)] + h[s \ {Pick(s)}]
        /\ k[s] = IF s = {} THEN 0 ELSE g[Pick(s)] + k[s \ {Pick(s)}]
    BY DEF Folding
  <1>6. s # {}
    BY <1>4, <1>5
  <1>7. /\ Pick(s) \in S /\ s \ {Pick(s)} \in SUBSET S
        /\ Cardinality(s \ {Pick(s)}) \in Nat /\ Cardinality(s \ {Pick(s)}) < n
    BY <1>1, <1>4, <1>6, Picked
  <1>8. ~ Odd(s \ {Pick(s)})
    <2> SUFFICES ASSUME Odd(s \ {Pick(s)}) PROVE FALSE
      OBVIOUS
    <2>1. Cardinality(s \ {Pick(s)}) \in Bad
      BY <1>7
    <2> QED
      BY <2>1, <1>3, <1>7
  <1> QED
    BY <1>4, <1>5, <1>6, <1>7, <1>8

-----------------------------------------------------------------------------
(* The facts to cite *)

\* Two functions that agree on a set have one sum over it.
LEMMA SumSame ==
    ASSUME NEW f, NEW g, NEW S, IsFiniteSet(S), \A x \in S : f[x] = g[x]
    PROVE  SumFunctionOnSet(f, S) = SumFunctionOnSet(g, S)
  <1> DEFINE h == CHOOSE u : Folding(u, f, S)
             k == CHOOSE u : Folding(u, g, S)
  <1>1. Folding(h, f, S) /\ Folding(k, g, S)
    BY FoldExists
  <1> HIDE DEF h, k
  <1>2. h[S] = k[S]
    BY <1>1, FoldsAgree
  <1> USE DEF h, k
  <1> QED
    BY <1>2, SumIsFold

LEMMA SumEmpty ==
    ASSUME NEW f
    PROVE  SumFunctionOnSet(f, {}) = 0
  <1>1. Folding(CHOOSE g : Folding(g, f, {}), f, {})
    BY FoldExists, FS_EmptySet
  <1>2. (CHOOSE g : Folding(g, f, {}))[{}] = 0
    BY <1>1 DEF Folding
  <1> QED
    BY <1>2, SumIsFold

\* The fold, one picked element at a time.
LEMMA SumUnfolds ==
    ASSUME NEW f, NEW S, IsFiniteSet(S), S # {}
    PROVE  SumFunctionOnSet(f, S) = f[Pick(S)] + SumFunctionOnSet(f, S \ {Pick(S)})
  <1> DEFINE T == S \ {Pick(S)}
             h == CHOOSE g : Folding(g, f, S)
             k == CHOOSE g : Folding(g, f, T)
  <1>1. IsFiniteSet(T) /\ T \in SUBSET (S \cap T)
    BY Picked
  <1>2. Folding(h, f, S) /\ Folding(k, f, T)
    BY <1>1, FoldExists
  <1>3. h[S] = f[Pick(S)] + h[T]
    BY <1>2 DEF Folding
  <1> HIDE DEF h, k
  <1>4. h[T] = k[T]
    BY <1>1, <1>2, FoldsAgree
  <1> USE DEF h, k
  <1> QED
    BY <1>3, <1>4, SumIsFold

\* The sum of natural numbers is one.
LEMMA SumIsNat ==
    ASSUME NEW f, NEW S, IsFiniteSet(S), \A x \in S : f[x] \in Nat
    PROVE  SumFunctionOnSet(f, S) \in Nat
  <1> DEFINE Odd(s) == SumFunctionOnSet(f, s) \notin Nat
             Bad == {n \in Nat : \E s \in SUBSET S : Odd(s) /\ n = Cardinality(s)}
  <1>1. ASSUME NEW s \in SUBSET S
        PROVE  IsFiniteSet(s) /\ Cardinality(s) \in Nat
    BY FS_Subset, FS_CardinalityType
  <1> SUFFICES ASSUME Odd(S) PROVE FALSE
    OBVIOUS
  <1>2. Bad # {} /\ Bad \in SUBSET Nat
    BY <1>1
  <1>3. PICK n \in Bad : \A m \in Bad : n <= m
    BY <1>2, Minimum
  <1>4. PICK s \in SUBSET S : Odd(s) /\ n = Cardinality(s)
    OBVIOUS
  <1>5. s # {}
    BY <1>4, SumEmpty
  <1>6. /\ Pick(s) \in S /\ s \ {Pick(s)} \in SUBSET S
        /\ Cardinality(s \ {Pick(s)}) \in Nat /\ Cardinality(s \ {Pick(s)}) < n
    BY <1>1, <1>4, <1>5, Picked
  <1>7. SumFunctionOnSet(f, s) = f[Pick(s)] + SumFunctionOnSet(f, s \ {Pick(s)})
    BY <1>1, <1>5, SumUnfolds
  <1>8. ~ Odd(s \ {Pick(s)})
    <2> SUFFICES ASSUME Odd(s \ {Pick(s)}) PROVE FALSE
      OBVIOUS
    <2>1. Cardinality(s \ {Pick(s)}) \in Bad
      BY <1>6
    <2> QED
      BY <2>1, <1>3, <1>6
  <1> QED
    BY <1>4, <1>6, <1>7, <1>8

\* Any element can be taken out of the sum first.
LEMMA SumRemove ==
    ASSUME NEW f, NEW S, IsFiniteSet(S), \A x \in S : f[x] \in Nat, NEW y \in S
    PROVE  SumFunctionOnSet(f, S) = f[y] + SumFunctionOnSet(f, S \ {y})
  <1> DEFINE Same(s, x) == SumFunctionOnSet(f, s) = f[x] + SumFunctionOnSet(f, s \ {x})
             Bad == {n \in Nat : \E s \in SUBSET S : \E x \in s : ~ Same(s, x) /\ n = Cardinality(s)}
  <1>1. ASSUME NEW s \in SUBSET S
        PROVE  IsFiniteSet(s) /\ Cardinality(s) \in Nat /\ SumFunctionOnSet(f, s) \in Nat
    BY FS_Subset, FS_CardinalityType, SumIsNat
  <1> SUFFICES ASSUME ~ Same(S, y) PROVE FALSE
    OBVIOUS
  <1>2. Bad # {} /\ Bad \in SUBSET Nat
    BY <1>1
  <1>3. PICK n \in Bad : \A m \in Bad : n <= m
    BY <1>2, Minimum
  <1>4. PICK s \in SUBSET S : \E x \in s : ~ Same(s, x) /\ n = Cardinality(s)
    OBVIOUS
  <1>5. PICK x \in s : ~ Same(s, x) /\ n = Cardinality(s)
    BY <1>4
  <1>6. ASSUME NEW r \in SUBSET s, NEW z \in r, Cardinality(r) < n
        PROVE  Same(r, z)
    <2> SUFFICES ASSUME ~ Same(r, z) PROVE FALSE
      OBVIOUS
    <2>1. r \in SUBSET S /\ Cardinality(r) \in Nat
      BY <1>1
    <2>2. Cardinality(r) \in Bad
      BY <2>1
    <2> QED
      BY <2>1, <2>2, <1>3, <1>6
  <1> DEFINE p == Pick(s)
  <1>7. p \in s /\ Cardinality(s \ {p}) < n
    BY <1>1, <1>5, Picked
  <1>8. Same(s, p)
    BY <1>1, <1>5, SumUnfolds
  <1> HIDE DEF p, Same
  <1>9. p # x
    BY <1>5, <1>8
  <1> USE DEF Same
  <1>10. Cardinality(s \ {x}) < n
    BY <1>1, <1>5, FS_RemoveElement
  <1> HIDE DEF Bad
  <1>11. Same(s \ {p}, x) /\ Same(s \ {x}, p)
    BY <1>6, <1>7, <1>9, <1>10
  <1>12. (s \ {p}) \ {x} = (s \ {x}) \ {p}
    OBVIOUS
  <1>13. SumFunctionOnSet(f, (s \ {x}) \ {p}) \in Nat /\ f[x] \in Nat /\ f[p] \in Nat
    BY <1>1, <1>7
  <1> DEFINE A == SumFunctionOnSet(f, (s \ {x}) \ {p})
  <1>14. /\ SumFunctionOnSet(f, s) = f[p] + (f[x] + A)
         /\ SumFunctionOnSet(f, s \ {x}) = f[p] + A
    BY <1>8, <1>11, <1>12
  <1>15. A \in Nat /\ f[x] \in Nat /\ f[p] \in Nat
    BY <1>13
  <1> HIDE DEF A
  <1>16. Same(s, x)
    BY <1>14, <1>15
  <1> QED
    BY <1>5, <1>16

\* One more element adds its value.
LEMMA SumAdd ==
    ASSUME NEW f, NEW S, IsFiniteSet(S), NEW y, y \notin S, \A x \in S \cup {y} : f[x] \in Nat
    PROVE  SumFunctionOnSet(f, S \cup {y}) = f[y] + SumFunctionOnSet(f, S)
  <1>1. IsFiniteSet(S \cup {y}) /\ (S \cup {y}) \ {y} = S
    BY FS_AddElement
  <1> QED
    BY <1>1, SumRemove

\* A subset sums to no more.
LEMMA SumMonotone ==
    ASSUME NEW f, NEW T, IsFiniteSet(T), \A x \in T : f[x] \in Nat, NEW S \in SUBSET T
    PROVE  SumFunctionOnSet(f, S) <= SumFunctionOnSet(f, T)
  <1> DEFINE More(s) == SumFunctionOnSet(f, S) <= SumFunctionOnSet(f, S \cup s)
             Bad == {n \in Nat : \E s \in SUBSET (T \ S) : ~ More(s) /\ n = Cardinality(s)}
  <1>1. ASSUME NEW s \in SUBSET (T \ S)
        PROVE  /\ IsFiniteSet(s) /\ Cardinality(s) \in Nat /\ IsFiniteSet(S \cup s)
               /\ SumFunctionOnSet(f, S \cup s) \in Nat
    <2>1. s \in SUBSET T /\ S \cup s \in SUBSET T
      OBVIOUS
    <2>2. IsFiniteSet(s) /\ IsFiniteSet(S \cup s) /\ Cardinality(s) \in Nat
      BY <2>1, FS_Subset, FS_CardinalityType
    <2> QED
      BY <2>1, <2>2, SumIsNat
  <1>2. S \cup (T \ S) = T /\ S \cup {} = S
    OBVIOUS
  <1> SUFFICES ASSUME ~ More(T \ S) PROVE FALSE
    BY <1>2
  <1>3. Bad # {} /\ Bad \in SUBSET Nat
    BY <1>1
  <1>4. PICK n \in Bad : \A m \in Bad : n <= m
    BY <1>3, Minimum
  <1>5. PICK s \in SUBSET (T \ S) : ~ More(s) /\ n = Cardinality(s)
    OBVIOUS
  <1>6. s # {}
    BY <1>5, <1>2, <1>1
  <1> DEFINE p == Pick(s)
             t == s \ {p}
  <1>7. /\ p \in s /\ t \in SUBSET (T \ S)
        /\ Cardinality(t) \in Nat /\ Cardinality(t) < n
    <2>1. /\ p \in s /\ Cardinality(s) \in Nat
          /\ Cardinality(t) = Cardinality(s) - 1 /\ Cardinality(s) > 0
      BY <1>1, <1>6, Picked
    <2>2. t \in SUBSET (T \ S)
      OBVIOUS
    <2> HIDE DEF t, p
    <2> QED
      BY <2>1, <2>2, <1>1, <1>5
  <1> HIDE DEF p
  <1>8. More(t)
    <2> SUFFICES ASSUME ~ More(t) PROVE FALSE
      OBVIOUS
    <2>1. Cardinality(t) \in Bad
      BY <1>7
    <2> HIDE DEF t, Bad, More
    <2>2. n <= Cardinality(t)
      BY <2>1, <1>4
    <2>3. n \in Nat
      BY <1>1, <1>5
    <2> QED
      BY <2>2, <2>3, <1>7
  <1>9. S \cup s = (S \cup t) \cup {p} /\ p \notin S \cup t
    BY <1>7
  <1>10. SumFunctionOnSet(f, S \cup s) = f[p] + SumFunctionOnSet(f, S \cup t)
    <2>1. IsFiniteSet(S \cup t) /\ \A x \in (S \cup t) \cup {p} : f[x] \in Nat
      BY <1>1, <1>7
    <2> HIDE DEF t
    <2> QED
      BY <2>1, <1>9, SumAdd
  <1>11. SumFunctionOnSet(f, S) \in Nat /\ SumFunctionOnSet(f, S \cup t) \in Nat /\ f[p] \in Nat
    <2>1. {} \in SUBSET (T \ S)
      OBVIOUS
    <2> QED
      BY <1>1, <1>2, <1>7, <2>1
  <1> HIDE DEF t
  <1> QED
    BY <1>5, <1>8, <1>10, <1>11

\* Values that are nowhere larger sum to no more.
LEMMA SumPointwise ==
    ASSUME NEW f, NEW g, NEW S, IsFiniteSet(S),
           \A x \in S : f[x] \in Nat /\ g[x] \in Nat /\ f[x] <= g[x]
    PROVE  SumFunctionOnSet(f, S) <= SumFunctionOnSet(g, S)
  <1> DEFINE Less(s) == SumFunctionOnSet(f, s) <= SumFunctionOnSet(g, s)
             Bad == {n \in Nat : \E s \in SUBSET S : ~ Less(s) /\ n = Cardinality(s)}
  <1>1. ASSUME NEW s \in SUBSET S
        PROVE  /\ IsFiniteSet(s) /\ Cardinality(s) \in Nat
               /\ SumFunctionOnSet(f, s) \in Nat /\ SumFunctionOnSet(g, s) \in Nat
    BY FS_Subset, FS_CardinalityType, SumIsNat
  <1> SUFFICES ASSUME ~ Less(S) PROVE FALSE
    OBVIOUS
  <1>2. Bad # {} /\ Bad \in SUBSET Nat
    BY <1>1
  <1>3. PICK n \in Bad : \A m \in Bad : n <= m
    BY <1>2, Minimum
  <1>4. PICK s \in SUBSET S : ~ Less(s) /\ n = Cardinality(s)
    OBVIOUS
  <1>5. s # {}
    <2>1. SumFunctionOnSet(f, {}) = 0 /\ SumFunctionOnSet(g, {}) = 0
      BY SumEmpty
    <2> QED
      BY <1>4, <2>1
  <1> DEFINE p == Pick(s)
             t == s \ {p}
  <1>6. /\ p \in S /\ t \in SUBSET S /\ Cardinality(t) \in Nat
        /\ Cardinality(t) < n /\ n \in Nat
    <2>1. /\ p \in s /\ Cardinality(s) \in Nat
          /\ Cardinality(t) = Cardinality(s) - 1 /\ Cardinality(s) > 0
      BY <1>1, <1>5, Picked
    <2>2. t \in SUBSET S
      OBVIOUS
    <2> HIDE DEF t, p
    <2> QED
      BY <2>1, <2>2, <1>1, <1>4
  <1>7. /\ SumFunctionOnSet(f, s) = f[p] + SumFunctionOnSet(f, t)
        /\ SumFunctionOnSet(g, s) = g[p] + SumFunctionOnSet(g, t)
    BY <1>1, <1>5, SumUnfolds
  <1>8. Less(t)
    <2> SUFFICES ASSUME ~ Less(t) PROVE FALSE
      OBVIOUS
    <2>1. Cardinality(t) \in Bad
      BY <1>6
    <2> HIDE DEF t, Bad, Less
    <2>2. n <= Cardinality(t)
      BY <2>1, <1>3
    <2> QED
      BY <2>2, <1>6
  <1>9. SumFunctionOnSet(f, t) \in Nat /\ SumFunctionOnSet(g, t) \in Nat
    BY <1>1, <1>6
  <1> HIDE DEF t, p
  <1> QED
    BY <1>4, <1>6, <1>7, <1>8, <1>9

\* A sum of zeros is zero.
LEMMA SumOfZeros ==
    ASSUME NEW f, NEW S, IsFiniteSet(S), \A x \in S : f[x] = 0
    PROVE  SumFunctionOnSet(f, S) = 0
  <1> DEFINE Bad == {n \in Nat : \E s \in SUBSET S : SumFunctionOnSet(f, s) # 0 /\ n = Cardinality(s)}
  <1>1. ASSUME NEW s \in SUBSET S
        PROVE  IsFiniteSet(s) /\ Cardinality(s) \in Nat
    BY FS_Subset, FS_CardinalityType
  <1> SUFFICES ASSUME SumFunctionOnSet(f, S) # 0 PROVE FALSE
    OBVIOUS
  <1>2. Bad # {} /\ Bad \in SUBSET Nat
    BY <1>1
  <1>3. PICK n \in Bad : \A m \in Bad : n <= m
    BY <1>2, Minimum
  <1>4. PICK s \in SUBSET S : SumFunctionOnSet(f, s) # 0 /\ n = Cardinality(s)
    OBVIOUS
  <1>5. s # {}
    BY <1>4, SumEmpty
  <1> DEFINE t == s \ {Pick(s)}
  <1>6. /\ Pick(s) \in S /\ t \in SUBSET S /\ Cardinality(t) \in Nat
        /\ Cardinality(t) < n /\ n \in Nat
    BY <1>1, <1>4, <1>5, Picked
  <1>7. SumFunctionOnSet(f, s) = f[Pick(s)] + SumFunctionOnSet(f, t)
    BY <1>1, <1>5, SumUnfolds
  <1>8. SumFunctionOnSet(f, t) = 0
    <2> SUFFICES ASSUME SumFunctionOnSet(f, t) # 0 PROVE FALSE
      OBVIOUS
    <2>1. Cardinality(t) \in Bad
      BY <1>6
    <2> HIDE DEF t, Bad
    <2>2. n <= Cardinality(t)
      BY <2>1, <1>3
    <2> QED
      BY <2>2, <1>6
  <1> QED
    BY <1>4, <1>6, <1>7, <1>8
=============================================================================
