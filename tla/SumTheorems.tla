---------------------------- MODULE SumTheorems ----------------------------
(***************************************************************************)
(* Facts the other proofs rest on: a set of numbers has a smallest member, *)
(* a set closed under the next step of an induction holds everything, a    *)
(* function can be applied again and again, the larger and the smaller of  *)
(* two numbers, and what a sum over a finite set is, bounds and keeps.     *)
(***************************************************************************)
EXTENDS Sums, Integers, FiniteSetTheorems, WellFoundedInduction, TLAPS

(* A set of numbers that is not empty has a smallest member. *)
LEMMA Smallest ==
    ASSUME NEW S \in SUBSET Nat, S # {}
    PROVE  \E x \in S : \A y \in S : x <= y
<1>1. PICK x \in S : \A y \in S : <<y, x>> \notin OpToRel(<, Nat)
  BY NatLessThanWellFounded, WFMin
<1>2. \A y \in S : ~(y < x)
  BY <1>1 DEF OpToRel
<1> QED BY <1>2

(* Induction on the numbers up to n, with the set of those that have the   *)
(* property in place of the property.                                      *)
LEMMA GrowingNumbers ==
    ASSUME NEW n \in Nat, NEW G, 0 \in G, \A i \in 1..n : i - 1 \in G => i \in G
    PROVE  \A i \in 0..n : i \in G
<1> DEFINE Bad == {i \in 0..n : i \notin G}
<1>1. SUFFICES ASSUME Bad # {} PROVE FALSE
  OBVIOUS
<1>2. PICK i \in Bad : \A j \in Bad : i <= j
  <2>1. Bad \in SUBSET Nat
    OBVIOUS
  <2> HIDE DEF Bad
  <2> QED BY <1>1, <2>1, Smallest
<1>3. i \in 1..n /\ i - 1 \in 0..n /\ i - 1 \notin Bad
  BY <1>2
<1> QED BY <1>2, <1>3

(* A function applied again and again. *)
Iterated(g, Step, x, X, n) ==
    /\ g \in [0..n -> X]
    /\ g[0] = x
    /\ \A i \in 1..n : g[i] = Step[g[i - 1]]

LEMMA Iterates ==
    ASSUME NEW X, NEW x \in X, NEW Step \in [X -> X], NEW N \in Nat
    PROVE  \E g : Iterated(g, Step, x, X, N)
<1> DEFINE Good(g, n) == g \in [0..n -> X] /\ g[0] = x /\ \A i \in 1..n : g[i] = Step[g[i - 1]]
           G == {n \in 0..N : \E g : Good(g, n)}
<1>1. 0 \in G
  <2>1. PICK g : g = [i \in 0..0 |-> x]
    OBVIOUS
  <2>2. Good(g, 0)
    BY <2>1
  <2> HIDE DEF Good
  <2> QED BY <2>2
<1>2. \A n \in 1..N : n - 1 \in G => n \in G
  <2> SUFFICES ASSUME NEW n \in 1..N, n - 1 \in G PROVE n \in G
    OBVIOUS
  <2>1. PICK g : Good(g, n - 1)
    OBVIOUS
  <2>2. PICK h : h = [i \in 0..n |-> IF i = n THEN Step[g[n - 1]] ELSE g[i]]
    OBVIOUS
  <2>3. h \in [0..n -> X]
    BY <2>1, <2>2
  <2>4. h[0] = x
    BY <2>1, <2>2
  <2>5. \A i \in 1..n : h[i] = Step[h[i - 1]]
    <3> SUFFICES ASSUME NEW i \in 1..n PROVE h[i] = Step[h[i - 1]]
      OBVIOUS
    <3>1. h[i - 1] = g[i - 1]
      BY <2>2
    <3>2. CASE i = n
      BY <2>2, <3>1, <3>2
    <3>3. CASE i # n
      BY <2>1, <2>2, <3>1, <3>3
    <3> QED BY <3>2, <3>3
  <2> QED BY <2>3, <2>4, <2>5
<1>3. \A n \in 0..N : n \in G
  <2> HIDE DEF G
  <2> QED BY <1>1, <1>2, GrowingNumbers
<1> QED BY <1>3 DEF Iterated

(* Induction on the subsets of a finite set, with the set of those that    *)
(* have the property in place of the property.                             *)
LEMMA GrowingSubsets ==
    ASSUME NEW S, IsFiniteSet(S), NEW G \in SUBSET SUBSET S,
           {} \in G,
           \A T \in SUBSET S : T # {} /\ (\A x \in T : T \ {x} \in G) => T \in G
    PROVE  S \in G
<1> DEFINE Bad == {Cardinality(T) : T \in (SUBSET S) \ G}
<1>1. SUFFICES ASSUME S \notin G PROVE FALSE
  OBVIOUS
<1>2. \A T \in SUBSET S : IsFiniteSet(T) /\ Cardinality(T) \in Nat
  BY FS_Subset, FS_CardinalityType
<1>3. Bad \in SUBSET Nat /\ Bad # {}
  BY <1>1, <1>2
<1>4. PICK n \in Bad : \A m \in Bad : n <= m
  BY <1>3, Smallest
<1>5. PICK T \in (SUBSET S) \ G : n = Cardinality(T)
  BY <1>4
<1>6. PICK x \in T : T \ {x} \notin G
  BY <1>5
<1>7. Cardinality(T \ {x}) = n - 1 /\ T \ {x} \in (SUBSET S) \ G
  BY <1>2, <1>5, <1>6, FS_RemoveElement
<1>8. n - 1 \in Bad /\ n \in Nat
  BY <1>3, <1>4, <1>7
<1> QED BY <1>4, <1>8

(* The larger and the smaller of two numbers. *)
LEMMA MaxOfTwo ==
    ASSUME NEW m \in Int, NEW n \in Int
    PROVE  Max({m, n}) = IF m >= n THEN m ELSE n
<1> DEFINE k == IF m >= n THEN m ELSE n
<1>1. k \in {m, n} /\ \A y \in {m, n} : k >= y
  OBVIOUS
<1>2. \A j \in {m, n} : (\A y \in {m, n} : j >= y) => j = k
  OBVIOUS
<1> QED BY <1>1, <1>2 DEF Max

LEMMA MinOfTwo ==
    ASSUME NEW m \in Int, NEW n \in Int
    PROVE  Min({m, n}) = IF m <= n THEN m ELSE n
<1> DEFINE k == IF m <= n THEN m ELSE n
<1>1. k \in {m, n} /\ \A y \in {m, n} : k <= y
  OBVIOUS
<1>2. \A j \in {m, n} : (\A y \in {m, n} : j <= y) => j = k
  OBVIOUS
<1> QED BY <1>1, <1>2 DEF Min

-----------------------------------------------------------------------------
(* The sum is well defined *)

(* What the function at the heart of the fold has to be. *)
SumsUp(g, f, S) ==
    g = [T \in SUBSET S |->
           IF T = {} THEN 0 ELSE LET x == CHOOSE x \in T : TRUE IN f[x] + g[T \ {x}]]

LEMMA TotalChosen ==
    ASSUME NEW f, NEW S
    PROVE  Total(f, S) = (CHOOSE g : SumsUp(g, f, S))[S]
  BY DEF Total, MapThenSumSet, MapThenFoldSet, SumsUp

(* It exists: by steps, for the subsets of at most 0, 1, 2, ... elements.  *)
LEMMA SumExists ==
    ASSUME NEW f, NEW S, IsFiniteSet(S)
    PROVE  \E g : SumsUp(g, f, S)
<1> DEFINE Upto(n) == {T \in SUBSET S : Cardinality(T) <= n}
           Sum(h, T) == IF T = {} THEN 0
                        ELSE LET x == CHOOSE x \in T : TRUE IN f[x] + h[T \ {x}]
           Works(n) == \E h : h = [T \in Upto(n) |-> Sum(h, T)]
           Bad == {n \in Nat : ~Works(n)}
<1>1. \A T \in SUBSET S : IsFiniteSet(T) /\ Cardinality(T) \in Nat
  BY FS_Subset, FS_CardinalityType
<1>2. \A T \in SUBSET S : T # {} =>
        LET x == CHOOSE x \in T : TRUE IN
          x \in T /\ T \ {x} \in SUBSET S /\ Cardinality(T \ {x}) = Cardinality(T) - 1
  BY <1>1, FS_RemoveElement
<1>3. Works(0)
  <2> DEFINE h == [T \in Upto(0) |-> 0]
  <2>1. \A T \in Upto(0) : T = {}
    BY <1>1, FS_EmptySet
  <2>2. h = [T \in Upto(0) |-> Sum(h, T)]
    BY <2>1
  <2> QED BY <2>2
<1>4. ASSUME NEW n \in Nat, Works(n) PROVE Works(n + 1)
  <2>1. PICK h : h = [T \in Upto(n) |-> Sum(h, T)]
    BY <1>4
  <2> DEFINE k == [T \in Upto(n + 1) |-> Sum(h, T)]
  <2>2. ASSUME NEW T \in Upto(n) PROVE T \in Upto(n + 1) /\ k[T] = h[T]
    <3>1. T \in Upto(n + 1)
      BY <1>1
    <3> QED BY <2>1, <3>1
  <2>3. ASSUME NEW T \in Upto(n + 1), T # {}
        PROVE  LET x == CHOOSE x \in T : TRUE IN T \ {x} \in Upto(n)
    BY <1>1, <1>2, <2>3
  <2>4. ASSUME NEW T \in Upto(n + 1) PROVE Sum(h, T) = Sum(k, T)
    <3>1. CASE T = {}
      BY <3>1
    <3>2. CASE T # {}
      <4> DEFINE x == CHOOSE x \in T : TRUE
      <4>1. T \ {x} \in Upto(n)
        BY <2>3, <3>2
      <4>2. k[T \ {x}] = h[T \ {x}]
        BY <2>2, <4>1
      <4> HIDE DEF k, x
      <4>3. f[x] + h[T \ {x}] = f[x] + k[T \ {x}]
        BY <4>2
      <4> QED BY <3>2, <4>3 DEF x
    <3> QED BY <3>1, <3>2
  <2>5. k = [T \in Upto(n + 1) |-> Sum(k, T)]
    BY <2>4
  <2> QED BY <2>5
<1>5. \A n \in Nat : Works(n)
  <2> HIDE DEF Works
  <2> SUFFICES ASSUME Bad # {} PROVE FALSE
    OBVIOUS
  <2>1. PICK n \in Bad : \A m \in Bad : n <= m
    <3>1. Bad \in SUBSET Nat
      OBVIOUS
    <3> QED BY <3>1, Smallest
  <2>2. n # 0
    BY <1>3, <2>1
  <2>3. n - 1 \in Nat /\ n - 1 \notin Bad
    BY <2>1, <2>2
  <2>4. Works(n - 1 + 1)
    BY <1>4, <2>3
  <2>5. n - 1 + 1 = n
    BY <2>1
  <2> QED BY <2>1, <2>4, <2>5
<1>6. PICK h : h = [T \in Upto(Cardinality(S)) |-> Sum(h, T)]
  BY <1>1, <1>5
<1>7. Upto(Cardinality(S)) = SUBSET S
  BY FS_Subset
<1>8. SumsUp(h, f, S)
  BY <1>6, <1>7 DEF SumsUp
<1> QED BY <1>8

(* It gives the subsets of S the sums it would give them as subsets of U.  *)
LEMMA SumUnique ==
    ASSUME NEW f, NEW S, NEW U, IsFiniteSet(S), S \subseteq U,
           NEW g, SumsUp(g, f, S), NEW h, SumsUp(h, f, U)
    PROVE  g[S] = h[S]
<1> DEFINE G == {T \in SUBSET S : g[T] = h[T]}
<1>1. {} \in G
  BY DEF SumsUp
<1>2. ASSUME NEW T \in SUBSET S, T # {}, \A x \in T : T \ {x} \in G
      PROVE  T \in G
  <2> DEFINE y == CHOOSE x \in T : TRUE
  <2>1. g[T] = f[y] + g[T \ {y}] /\ h[T] = f[y] + h[T \ {y}]
    BY <1>2 DEF SumsUp
  <2>2. T \ {y} \in G
    BY <1>2
  <2> QED BY <2>1, <2>2
<1>3. S \in G
  <2>1. G \in SUBSET SUBSET S
    OBVIOUS
  <2> HIDE DEF G
  <2> QED BY <1>1, <1>2, <2>1, GrowingSubsets
<1> QED BY <1>3

LEMMA TotalUnfolded ==
    ASSUME NEW f, NEW S, IsFiniteSet(S), S # {}
    PROVE  \E x \in S : Total(f, S) = f[x] + Total(f, S \ {x})
<1> DEFINE g == CHOOSE g : SumsUp(g, f, S)
<1>1. SumsUp(g, f, S)
  BY SumExists
<1> DEFINE y == CHOOSE x \in S : TRUE
           R == S \ {y}
           h == CHOOSE h : SumsUp(h, f, R)
<1>2. y \in S /\ IsFiniteSet(R) /\ R \subseteq S
  BY FS_RemoveElement
<1>3. SumsUp(h, f, R)
  BY <1>2, SumExists
<1>4. Total(f, S) = g[S] /\ Total(f, R) = h[R]
  BY TotalChosen
<1> HIDE DEF h, g
<1>5. g[S] = f[y] + g[R]
  BY <1>1 DEF SumsUp
<1>6. g[R] = h[R]
  BY <1>1, <1>2, <1>3, SumUnique
<1> QED BY <1>2, <1>4, <1>5, <1>6

(* The sum over no element. *)
LEMMA TotalEmpty ==
    ASSUME NEW f
    PROVE  Total(f, {}) = 0
<1> DEFINE g == CHOOSE g : SumsUp(g, f, {})
<1>1. SumsUp(g, f, {})
  BY SumExists, FS_EmptySet
<1>2. Total(f, {}) = g[{}]
  BY TotalChosen
<1> HIDE DEF g
<1> QED BY <1>1, <1>2 DEF SumsUp

-----------------------------------------------------------------------------
(* What sums are *)

(* The sum over S is the element x and the sum over the rest, whichever x. *)
LEMMA TotalInt ==
    ASSUME NEW f, NEW S, IsFiniteSet(S), \A x \in S : f[x] \in Int
    PROVE  Total(f, S) \in Int
<1> DEFINE G == {T \in SUBSET S : Total(f, T) \in Int}
<1>1. {} \in G
  BY TotalEmpty
<1>2. ASSUME NEW T \in SUBSET S, T # {}, \A x \in T : T \ {x} \in G
      PROVE  T \in G
  <2>1. PICK y \in T : Total(f, T) = f[y] + Total(f, T \ {y})
    BY <1>2, TotalUnfolded, FS_Subset
  <2> QED BY <1>2, <2>1
<1>3. G \in SUBSET SUBSET S
  OBVIOUS
<1>4. S \in G
  <2> HIDE DEF G
  <2> QED BY <1>1, <1>2, <1>3, GrowingSubsets
<1> QED BY <1>4

LEMMA TotalNat ==
    ASSUME NEW f, NEW S, IsFiniteSet(S), \A x \in S : f[x] \in Nat
    PROVE  Total(f, S) \in Nat
<1> DEFINE G == {T \in SUBSET S : Total(f, T) \in Nat}
<1>1. {} \in G
  BY TotalEmpty
<1>2. ASSUME NEW T \in SUBSET S, T # {}, \A x \in T : T \ {x} \in G
      PROVE  T \in G
  <2>1. PICK y \in T : Total(f, T) = f[y] + Total(f, T \ {y})
    BY <1>2, TotalUnfolded, FS_Subset
  <2> QED BY <1>2, <2>1
<1>3. G \in SUBSET SUBSET S
  OBVIOUS
<1>4. S \in G
  <2> HIDE DEF G
  <2> QED BY <1>1, <1>2, <1>3, GrowingSubsets
<1> QED BY <1>4

(* Any element can be taken out of a sum. *)
LEMMA TotalWithout ==
    ASSUME NEW f, NEW S, IsFiniteSet(S), \A x \in S : f[x] \in Int, NEW a \in S
    PROVE  Total(f, S) = f[a] + Total(f, S \ {a})
<1> DEFINE G == {T \in SUBSET S : \A x \in T : Total(f, T) = f[x] + Total(f, T \ {x})}
<1>0. \A T \in SUBSET S : IsFiniteSet(T) /\ Total(f, T) \in Int
  BY FS_Subset, TotalInt
<1>1. {} \in G
  OBVIOUS
<1>2. ASSUME NEW T \in SUBSET S, T # {}, \A x \in T : T \ {x} \in G
      PROVE  T \in G
  <2>1. PICK y \in T : Total(f, T) = f[y] + Total(f, T \ {y})
    BY <1>0, <1>2, TotalUnfolded
  <2>2. ASSUME NEW x \in T, x # y
        PROVE  Total(f, T) = f[x] + Total(f, T \ {x})
    <3> DEFINE R == T \ {x, y}
    <3>1. R = (T \ {x}) \ {y} /\ R = (T \ {y}) \ {x} /\ R \in SUBSET S
      OBVIOUS
    <3>2. Total(f, T \ {x}) = f[y] + Total(f, R)
      BY <1>2, <2>2, <3>1
    <3>3. Total(f, T \ {y}) = f[x] + Total(f, R)
      BY <1>2, <2>2, <3>1
    <3>4. Total(f, R) \in Int /\ f[x] \in Int /\ f[y] \in Int
      BY <1>0, <3>1
    <3> HIDE DEF R
    <3> QED BY <2>1, <3>2, <3>3, <3>4
  <2> QED BY <2>1, <2>2
<1>3. G \in SUBSET SUBSET S
  OBVIOUS
<1>4. S \in G
  <2> HIDE DEF G
  <2> QED BY <1>1, <1>2, <1>3, GrowingSubsets
<1> QED BY <1>4

LEMMA TotalWith ==
    ASSUME NEW f, NEW S, IsFiniteSet(S), NEW a, a \notin S,
           \A x \in S \cup {a} : f[x] \in Int
    PROVE  Total(f, S \cup {a}) = f[a] + Total(f, S)
<1>1. IsFiniteSet(S \cup {a}) /\ (S \cup {a}) \ {a} = S
  BY FS_AddElement
<1> QED BY <1>1, TotalWithout

(* A sum is as large as its elements make it. *)
LEMMA TotalLeq ==
    ASSUME NEW f, NEW g, NEW S, IsFiniteSet(S),
           \A x \in S : f[x] \in Int /\ g[x] \in Int /\ f[x] <= g[x]
    PROVE  Total(f, S) <= Total(g, S)
<1> DEFINE G == {T \in SUBSET S : Total(f, T) <= Total(g, T)}
<1>0. \A T \in SUBSET S : IsFiniteSet(T) /\ Total(f, T) \in Int /\ Total(g, T) \in Int
  BY FS_Subset, TotalInt
<1>1. {} \in G
  BY TotalEmpty
<1>2. ASSUME NEW T \in SUBSET S, T # {}, \A x \in T : T \ {x} \in G
      PROVE  T \in G
  <2>1. PICK y \in T : TRUE
    BY <1>2
  <2>2. Total(f, T) = f[y] + Total(f, T \ {y}) /\ Total(g, T) = g[y] + Total(g, T \ {y})
    BY <1>0, <2>1, TotalWithout
  <2>3. Total(f, T \ {y}) \in Int /\ Total(g, T \ {y}) \in Int
    BY <1>0
  <2>4. Total(f, T \ {y}) <= Total(g, T \ {y})
    BY <1>2
  <2> QED BY <2>1, <2>2, <2>3, <2>4
<1>3. G \in SUBSET SUBSET S
  OBVIOUS
<1>4. S \in G
  <2> HIDE DEF G
  <2> QED BY <1>1, <1>2, <1>3, GrowingSubsets
<1> QED BY <1>4

LEMMA TotalSame ==
    ASSUME NEW f, NEW g, NEW S, IsFiniteSet(S), \A x \in S : f[x] \in Int /\ g[x] = f[x]
    PROVE  Total(g, S) = Total(f, S)
<1>1. Total(f, S) <= Total(g, S) /\ Total(g, S) <= Total(f, S)
  BY TotalLeq
<1>2. Total(f, S) \in Int /\ Total(g, S) \in Int
  BY TotalInt
<1> QED BY <1>1, <1>2

LEMMA TotalZero ==
    ASSUME NEW f, NEW S, IsFiniteSet(S), \A x \in S : f[x] = 0
    PROVE  Total(f, S) = 0
<1> DEFINE G == {T \in SUBSET S : Total(f, T) = 0}
<1>1. {} \in G
  BY TotalEmpty
<1>2. ASSUME NEW T \in SUBSET S, T # {}, \A x \in T : T \ {x} \in G
      PROVE  T \in G
  <2>1. PICK y \in T : Total(f, T) = f[y] + Total(f, T \ {y})
    BY <1>2, TotalUnfolded, FS_Subset
  <2> QED BY <1>2, <2>1
<1>3. G \in SUBSET SUBSET S
  OBVIOUS
<1>4. S \in G
  <2> HIDE DEF G
  <2> QED BY <1>1, <1>2, <1>3, GrowingSubsets
<1> QED BY <1>4

LEMMA TotalPlus ==
    ASSUME NEW f, NEW g, NEW h, NEW S, IsFiniteSet(S),
           \A x \in S : f[x] \in Int /\ g[x] \in Int /\ h[x] = f[x] + g[x]
    PROVE  Total(h, S) = Total(f, S) + Total(g, S)
<1> DEFINE G == {T \in SUBSET S : Total(h, T) = Total(f, T) + Total(g, T)}
<1>0. \A T \in SUBSET S : /\ IsFiniteSet(T)
                          /\ Total(f, T) \in Int
                          /\ Total(g, T) \in Int
  BY FS_Subset, TotalInt
<1>1. {} \in G
  BY TotalEmpty
<1>2. ASSUME NEW T \in SUBSET S, T # {}, \A x \in T : T \ {x} \in G
      PROVE  T \in G
  <2>1. PICK y \in T : Total(h, T) = h[y] + Total(h, T \ {y})
    BY <1>0, <1>2, TotalUnfolded
  <2>2. Total(f, T) = f[y] + Total(f, T \ {y}) /\ Total(g, T) = g[y] + Total(g, T \ {y})
    BY <1>0, <2>1, TotalWithout
  <2>3. Total(f, T \ {y}) \in Int /\ Total(g, T \ {y}) \in Int
    BY <1>0
  <2>4. Total(h, T \ {y}) = Total(f, T \ {y}) + Total(g, T \ {y})
    BY <1>2
  <2>5. f[y] \in Int /\ g[y] \in Int /\ h[y] = f[y] + g[y]
    BY <2>1
  <2> HIDE DEF G
  <2>6. Total(h, T) = Total(f, T) + Total(g, T)
    BY <2>1, <2>2, <2>3, <2>4, <2>5
  <2> QED BY <2>6 DEF G
<1>3. G \in SUBSET SUBSET S
  OBVIOUS
<1>4. S \in G
  <2> HIDE DEF G
  <2> QED BY <1>1, <1>2, <1>3, GrowingSubsets
<1> QED BY <1>4

(* A change at one place changes the sum by as much. *)
LEMMA TotalChange ==
    ASSUME NEW f, NEW g, NEW S, IsFiniteSet(S), NEW a \in S, g[a] \in Int,
           \A x \in S : f[x] \in Int /\ (x # a => g[x] = f[x])
    PROVE  Total(g, S) = Total(f, S) + g[a] - f[a]
<1>1. \A x \in S : g[x] \in Int
  OBVIOUS
<1>2. Total(g, S \ {a}) = Total(f, S \ {a}) /\ Total(f, S \ {a}) \in Int
  BY FS_RemoveElement, TotalSame, TotalInt
<1>3. Total(g, S) = g[a] + Total(g, S \ {a}) /\ Total(f, S) = f[a] + Total(f, S \ {a})
  BY <1>1, TotalWithout
<1> QED BY <1>1, <1>2, <1>3

(* Two disjoint sets add up. *)
LEMMA TotalUnion ==
    ASSUME NEW f, NEW R, NEW S, IsFiniteSet(R), IsFiniteSet(S), R \cap S = {},
           \A x \in R \cup S : f[x] \in Int
    PROVE  Total(f, R \cup S) = Total(f, R) + Total(f, S)
<1> DEFINE G == {T \in SUBSET S : Total(f, R \cup T) = Total(f, R) + Total(f, T)}
<1>0. \A T \in SUBSET S : /\ IsFiniteSet(T) /\ IsFiniteSet(R \cup T)
                          /\ Total(f, T) \in Int /\ Total(f, R \cup T) \in Int
                          /\ \A x \in T : f[x] \in Int
                          /\ \A x \in R \cup T : f[x] \in Int
  <2>1. \A T \in SUBSET S : IsFiniteSet(T) /\ IsFiniteSet(R \cup T)
    BY FS_Subset, FS_Union
  <2> QED BY <2>1, TotalInt
<1>1. {} \in G
  <2>1. R \cup {} = R /\ Total(f, R) \in Int
    BY TotalInt
  <2> QED BY <2>1, TotalEmpty
<1>2. ASSUME NEW T \in SUBSET S, T # {}, \A x \in T : T \ {x} \in G
      PROVE  T \in G
  <2>1. PICK y \in T : TRUE
    BY <1>2
  <2>2. y \in R \cup T /\ (R \cup T) \ {y} = R \cup (T \ {y})
    OBVIOUS
  <2>a. IsFiniteSet(T) /\ \A x \in T : f[x] \in Int
    BY <1>0
  <2>b. IsFiniteSet(R \cup T) /\ \A x \in R \cup T : f[x] \in Int
    BY <1>0
  <2>3. Total(f, T) = f[y] + Total(f, T \ {y})
    BY <2>a, <2>1, TotalWithout
  <2>4. Total(f, R \cup T) = f[y] + Total(f, R \cup (T \ {y}))
    BY <2>b, <2>2, TotalWithout
  <2>5. Total(f, R \cup (T \ {y})) = Total(f, R) + Total(f, T \ {y})
    BY <1>2
  <2>6. f[y] \in Int /\ Total(f, R) \in Int /\ Total(f, T \ {y}) \in Int
    BY <1>0, TotalInt
  <2>7. Total(f, R \cup T) = Total(f, R) + Total(f, T)
    BY <2>3, <2>4, <2>5, <2>6
  <2> QED BY <2>7
<1>3. G \in SUBSET SUBSET S
  OBVIOUS
<1>4. S \in G
  <2> HIDE DEF G
  <2> QED BY <1>1, <1>2, <1>3, GrowingSubsets
<1> QED BY <1>4

(* Of quantities, a part is no more than the whole; what is outside the    *)
(* part and is zero does not count.                                        *)
LEMMA TotalPart ==
    ASSUME NEW f, NEW S, IsFiniteSet(S), NEW T \in SUBSET S,
           \A x \in S : f[x] \in Nat
    PROVE  Total(f, T) <= Total(f, S)
<1>1. IsFiniteSet(T) /\ IsFiniteSet(S \ T) /\ T \cap (S \ T) = {} /\ T \cup (S \ T) = S
  BY FS_Subset
<1>2. Total(f, S) = Total(f, T) + Total(f, S \ T)
  BY <1>1, TotalUnion
<1>3. Total(f, T) \in Nat /\ Total(f, S \ T) \in Nat
  BY <1>1, TotalNat
<1> QED BY <1>2, <1>3

LEMMA TotalOutside ==
    ASSUME NEW f, NEW S, IsFiniteSet(S), NEW T \in SUBSET S,
           \A x \in T : f[x] \in Int, \A x \in S \ T : f[x] = 0
    PROVE  Total(f, S) = Total(f, T)
<1>1. IsFiniteSet(T) /\ IsFiniteSet(S \ T) /\ T \cap (S \ T) = {} /\ T \cup (S \ T) = S
  BY FS_Subset
<1>2. Total(f, S) = Total(f, T) + Total(f, S \ T)
  BY <1>1, TotalUnion
<1>3. Total(f, T) \in Int /\ Total(f, S \ T) = 0
  BY <1>1, TotalInt, TotalZero
<1> QED BY <1>2, <1>3

(* An element is no more than the sum of all. *)
LEMMA TotalMember ==
    ASSUME NEW f, NEW S, IsFiniteSet(S), NEW a \in S, \A x \in S : f[x] \in Nat
    PROVE  f[a] <= Total(f, S)
<1>1. Total(f, S) = f[a] + Total(f, S \ {a}) /\ Total(f, S \ {a}) \in Nat
  BY TotalWithout, TotalNat, FS_RemoveElement
<1> QED BY <1>1
=============================================================================
