------------------------------ MODULE Induction ------------------------------
(***************************************************************************)
(* Induction and recursion over finite data, in the first-order form the   *)
(* provers can use: what is to hold is a set of numbers or of subsets, a   *)
(* recursive step is a function.  With these, what a fold of the community *)
(* modules computes can be proved for every input: the fold's recursive    *)
(* function exists, and what holds of its start and is kept by its step    *)
(* holds of its result.                                                    *)
(***************************************************************************)
EXTENDS Integers, FiniteSets, FiniteSetsExt, Functions, Folds, FiniteSetTheorems, WellFoundedInduction, TLAPS

(* Induction along an interval: the first number that is missing would have a
   predecessor that is not.                                                  *)
LEMMA IntervalInduction ==
    ASSUME NEW n \in Nat, NEW S, 0 \in S, \A i \in 1..n : i - 1 \in S => i \in S
    PROVE  0..n \subseteq S
<1> SUFFICES ASSUME NEW j \in 0..n, j \notin S
             PROVE  FALSE
  OBVIOUS
<1> DEFINE T == 0..n
           Starts == {0..k : k \in {i \in 0..n : i \notin S}}
<1>1. IsFiniteSet(T)
  BY FS_Interval
<1>2. Starts \in SUBSET SUBSET T /\ Starts # {}
  <2>1. 0..j \in Starts
    OBVIOUS
  <2> QED
    BY <2>1
<1>3. IsWellFoundedOn(StrictSubsetOrdering(T), FiniteSubsetsOf(T))
  BY FS_StrictSubsetOrderingWellFounded
<1>4. FiniteSubsetsOf(T) = SUBSET T
  BY <1>1, FS_FiniteSubsetsOfFinite
<1>5. \E s \in Starts : \A u \in Starts : ~(<<u, s>> \in StrictSubsetOrdering(T))
  <2> HIDE DEF Starts, T
  <2> QED
    BY <1>2, <1>3, <1>4, WFMin
<1>6. PICK m \in {i \in 0..n : i \notin S} :
          \A u \in Starts : ~(u \subseteq 0..m /\ u # 0..m)
  BY <1>5, <1>2 DEF StrictSubsetOrdering
<1>7. 0..m-1 \in Starts
  BY <1>6
<1>8. 0..m-1 \subseteq 0..m /\ m \in 0..m /\ m \notin 0..m-1
  OBVIOUS
<1> QED
  BY <1>6, <1>7, <1>8

(* Subsets of a finite set and what taking an element out does to their size. *)
LEMMA SubsetCardinality ==
    ASSUME NEW S, IsFiniteSet(S), NEW s \in SUBSET S
    PROVE  /\ Cardinality(s) \in 0..Cardinality(S)
           /\ Cardinality(s) = 0 <=> s = {}
           /\ \A x \in s : /\ s \ {x} \in SUBSET S
                           /\ Cardinality(s \ {x}) = Cardinality(s) - 1
<1>1. /\ IsFiniteSet(s) /\ Cardinality(s) \in Nat
      /\ Cardinality(s) <= Cardinality(S) /\ Cardinality(S) \in Nat
  BY FS_Subset, FS_CardinalityType
<1>2. Cardinality(s) = 0 <=> s = {}
  BY <1>1, FS_EmptySet
<1>3. \A x \in s : Cardinality(s \ {x}) = Cardinality(s) - 1
  BY <1>1, FS_RemoveElement
<1> QED
  BY <1>1, <1>2, <1>3

(* Induction over the subsets of a finite set. *)
LEMMA SubsetInduction ==
    ASSUME NEW S, IsFiniteSet(S), NEW X, {} \in X,
           \A s \in SUBSET S : (s # {} /\ \A x \in s : s \ {x} \in X) => s \in X
    PROVE  SUBSET S \subseteq X
<1> DEFINE T == {k \in 0..Cardinality(S) :
                    \A s \in SUBSET S : Cardinality(s) = k => s \in X}
<1>1. Cardinality(S) \in Nat
  BY FS_CardinalityType
<1>2. 0 \in T
  <2>1. \A s \in SUBSET S : Cardinality(s) = 0 => s \in X
    BY SubsetCardinality
  <2> QED
    BY <1>1, <2>1
<1>3. ASSUME NEW k \in 1..Cardinality(S), k - 1 \in T
      PROVE  k \in T
  <2> SUFFICES ASSUME NEW s \in SUBSET S, Cardinality(s) = k
               PROVE  s \in X
    OBVIOUS
  <2>1. s # {} /\ \A x \in s : /\ s \ {x} \in SUBSET S
                               /\ Cardinality(s \ {x}) = k - 1
    BY SubsetCardinality
  <2> QED
    BY <1>3, <2>1
<1>4. 0..Cardinality(S) \subseteq T
  <2> HIDE DEF T
  <2> QED
    BY <1>1, <1>2, <1>3, IntervalInduction
<1> QED
  BY <1>4, SubsetCardinality

(* A recursion over the subsets of S with results in D: take the element that c
   chooses out and combine it, by F, with the result for the rest.           *)
Recursion(S, D, base, F, c) ==
    /\ IsFiniteSet(S)
    /\ base \in D
    /\ \A x \in S, d \in D : F[<<x, d>>] \in D
    /\ \A s \in SUBSET S : s # {} => c[s] \in s

Solves(g, S, D, base, F, c) ==
    /\ g \in [SUBSET S -> D]
    /\ g[{}] = base
    /\ \A s \in SUBSET S : s # {} => g[s] = F[<<c[s], g[s \ {c[s]}]>>]

(* Every such recursion has a solution. *)
LEMMA SubsetRecursion ==
    ASSUME NEW S, NEW D, NEW base, NEW F, NEW c, Recursion(S, D, base, F, c)
    PROVE  \E g : Solves(g, S, D, base, F, c)
<1> USE DEF Recursion
<1> DEFINE P(k) == \E g \in [SUBSET S -> D] :
                      /\ g[{}] = base
                      /\ \A s \in SUBSET S :
                            s # {} /\ Cardinality(s) <= k
                              => g[s] = F[<<c[s], g[s \ {c[s]}]>>]
           T == {k \in 0..Cardinality(S) : P(k)}
<1>1. Cardinality(S) \in Nat
  BY FS_CardinalityType
<1>2. P(0)
  <2> DEFINE g == [s \in SUBSET S |-> base]
  <2>1. g \in [SUBSET S -> D] /\ g[{}] = base
    OBVIOUS
  <2>2. \A s \in SUBSET S : ~(s # {} /\ Cardinality(s) <= 0)
    BY SubsetCardinality
  <2> HIDE DEF g
  <2> QED
    BY <2>1, <2>2
<1>3. ASSUME NEW k \in 1..Cardinality(S), P(k - 1)
      PROVE  P(k)
  <2>1. PICK f \in [SUBSET S -> D] :
            /\ f[{}] = base
            /\ \A s \in SUBSET S :
                  s # {} /\ Cardinality(s) <= k - 1
                    => f[s] = F[<<c[s], f[s \ {c[s]}]>>]
    BY <1>3
  <2> DEFINE g == [s \in SUBSET S |->
                      IF s # {} /\ Cardinality(s) = k
                      THEN F[<<c[s], f[s \ {c[s]}]>>] ELSE f[s]]
  <2>2. ASSUME NEW s \in SUBSET S, s # {}
        PROVE  /\ c[s] \in S /\ s \ {c[s]} \in SUBSET S
               /\ Cardinality(s \ {c[s]}) = Cardinality(s) - 1
               /\ Cardinality(s) \in Nat
    BY <2>2, SubsetCardinality
  <2>3. ASSUME NEW s \in SUBSET S, s # {}
        PROVE  F[<<c[s], f[s \ {c[s]}]>>] \in D
    BY <2>1, <2>2, <2>3
  <2>4. g \in [SUBSET S -> D] /\ g[{}] = base
    BY <2>1, <2>3
  <2>5. ASSUME NEW s \in SUBSET S, s # {}, Cardinality(s) <= k
        PROVE  g[s] = F[<<c[s], g[s \ {c[s]}]>>]
    <3>1. g[s \ {c[s]}] = f[s \ {c[s]}]
      BY <2>2, <2>5
    <3>2. CASE Cardinality(s) = k
      BY <3>1, <3>2, <2>5
    <3>3. CASE Cardinality(s) <= k - 1
      <4>1. g[s] = f[s]
        BY <3>3, <2>2, <2>5
      <4>2. f[s] = F[<<c[s], f[s \ {c[s]}]>>]
        BY <2>1, <3>3, <2>5
      <4> QED
        BY <4>1, <4>2, <3>1
    <3> QED
      BY <3>2, <3>3, <2>5, <2>2
  <2> HIDE DEF g
  <2> QED
    BY <2>4, <2>5
<1>4. P(Cardinality(S))
  <2>1. 0 \in T
    BY <1>1, <1>2
  <2>2. \A k \in 1..Cardinality(S) : k - 1 \in T => k \in T
    <3> HIDE DEF P
    <3> QED
      BY <1>3
  <2>3. 0..Cardinality(S) \subseteq T
    <3> HIDE DEF T
    <3> QED
      BY <2>1, <2>2, <1>1, IntervalInduction
  <2> HIDE DEF P
  <2> QED
    BY <2>3, <1>1
<1>5. \A s \in SUBSET S : Cardinality(s) <= Cardinality(S)
  BY <1>1, SubsetCardinality
<1> QED
  BY <1>4, <1>5 DEF Solves

(* A nonempty set of numbers up to n has a largest. *)
LEMMA LargestExists ==
    ASSUME NEW n \in Nat, NEW s \in SUBSET (1..n), s # {}
    PROVE  Max(s) \in s /\ \A y \in s : Max(s) >= y
<1>1. \E x \in s : \A y \in s : x >= y
  <2> SUFFICES ASSUME \A x \in s : \E y \in s : y > x
               PROVE  FALSE
    OBVIOUS
  <2> DEFINE Reached == {k \in 0..n : \E y \in s : y >= k}
  <2>1. 0 \in Reached
    <3> PICK y \in s : TRUE
      OBVIOUS
    <3> y >= 0
      OBVIOUS
    <3> QED
      OBVIOUS
  <2>2. \A k \in 1..n : k - 1 \in Reached => k \in Reached
    OBVIOUS
  <2>3. 0..n \subseteq Reached
    <3> HIDE DEF Reached
    <3> QED
      BY <2>1, <2>2, IntervalInduction
  <2>4. \E y \in s : y > n
    BY <2>3
  <2> QED
    BY <2>4
<1> QED
  BY <1>1 DEF Max

(* The entries up to i have i as their last. *)
LEMMA UpTo ==
    ASSUME NEW n \in Nat, NEW i \in 1..n
    PROVE  /\ 1..i \in SUBSET (1..n) /\ 1..i # {}
           /\ Max(1..i) = i
           /\ (1..i) \ {Max(1..i)} = 1..(i - 1)
<1>1. i \in Nat /\ 1..i \in SUBSET (1..i) /\ i \in 1..i
  OBVIOUS
<1>2. Max(1..i) \in 1..i /\ Max(1..i) >= i
  BY <1>1, LargestExists
<1> QED
  BY <1>2

(* A fold from the left over n entries with results in D: F[<<i, d>>] is what the
   i-th entry makes of the result d of the earlier ones.                     *)
LeftFold(n, D, base, F) ==
    /\ n \in Nat
    /\ base \in D
    /\ \A i \in 1..n, d \in D : F[<<i, d>>] \in D

(* h lists the results after 0, 1, .. n entries. *)
FoldPrefixes(h, n, D, base, F) ==
    /\ h \in [0..n -> D]
    /\ h[0] = base
    /\ \A i \in 1..n : h[i] = F[<<i, h[i - 1]>>]

(* The recursive function by which the community modules define such a fold, as
   far as F determines it.                                                   *)
Accumulates(g, n, D, base, F) ==
    /\ g[{}] = base
    /\ \A s \in SUBSET (1..n) :
          (s # {} /\ g[s \ {Max(s)}] \in D)
            => g[s] = F[<<Max(s), g[s \ {Max(s)}]>>]

(* It exists. *)
LEMMA FoldExists ==
    ASSUME NEW n, NEW D, NEW base, NEW F, LeftFold(n, D, base, F)
    PROVE  \E g \in [SUBSET (1..n) -> D] :
              /\ Accumulates(g, n, D, base, F)
              /\ \A s \in SUBSET (1..n) :
                    s # {} => Max(s) \in s /\ s \ {Max(s)} \in SUBSET (1..n)
<1> DEFINE S == 1..n
           c == [s \in SUBSET S |-> Max(s)]
<1>1. IsFiniteSet(S)
  BY FS_Interval DEF LeftFold
<1>2. \A s \in SUBSET S : s # {} => c[s] \in s /\ Max(s) = c[s]
  BY LargestExists DEF LeftFold
<1>3. PICK g : Solves(g, S, D, base, F, c)
  <2>1. Recursion(S, D, base, F, c)
    BY <1>1, <1>2 DEF Recursion, LeftFold
  <2> HIDE DEF S, c
  <2> QED
    BY <2>1, SubsetRecursion
<1>4. ASSUME NEW s \in SUBSET S, s # {}
      PROVE  /\ Max(s) \in s /\ s \ {Max(s)} \in SUBSET S
             /\ g[s] = F[<<Max(s), g[s \ {Max(s)}]>>]
  <2>1. Max(s) \in S /\ Max(s) \in s /\ s \ {Max(s)} \in SUBSET S /\ c[s] = Max(s)
    BY <1>2, <1>4
  <2> HIDE DEF c, S
  <2> QED
    BY <1>3, <1>4, <2>1 DEF Solves
<1>5. g \in [SUBSET S -> D] /\ g[{}] = base
  <2> HIDE DEF c, S
  <2> QED
    BY <1>3 DEF Solves
<1> HIDE DEF c
<1> QED
  BY <1>4, <1>5 DEF Accumulates

(* The result of a fold is the last of its prefixes. *)
LEMMA FoldHasPrefixes ==
    ASSUME NEW n, NEW D, NEW base, NEW F, LeftFold(n, D, base, F),
           NEW g, Accumulates(g, n, D, base, F)
    PROVE  \E h : FoldPrefixes(h, n, D, base, F) /\ h[n] = g[1..n]
<1> USE DEF LeftFold
<1> DEFINE h == [i \in 0..n |-> g[1..i]]
           T == {i \in 0..n : h[i] \in D}
<1>1. h[0] = base
  <2>1. 1..0 = {} /\ 0 \in 0..n
    OBVIOUS
  <2> QED
    BY <2>1 DEF Accumulates
<1>2. ASSUME NEW i \in 1..n, h[i - 1] \in D
      PROVE  h[i] = F[<<i, h[i - 1]>>] /\ h[i] \in D
  <2>1. /\ 1..i \in SUBSET (1..n) /\ 1..i # {} /\ Max(1..i) = i
        /\ (1..i) \ {Max(1..i)} = 1..(i - 1)
    BY UpTo
  <2>2. h[i] = g[1..i] /\ h[i - 1] = g[1..(i - 1)]
    OBVIOUS
  <2> HIDE DEF h
  <2>3. h[i] = F[<<i, h[i - 1]>>]
    BY <1>2, <2>1, <2>2 DEF Accumulates
  <2> QED
    BY <1>2, <2>3
<1>3. h = [i \in 0..n |-> h[i]] /\ h[n] = g[1..n]
  OBVIOUS
<1> HIDE DEF h
<1>4. 0 \in T /\ \A i \in 1..n : i - 1 \in T => i \in T
  <2>1. 0 \in 0..n /\ \A i \in 1..n : i \in 0..n
    OBVIOUS
  <2> QED
    BY <1>1, <1>2, <2>1
<1>5. 0..n \subseteq T
  <2> HIDE DEF T
  <2> QED
    BY <1>4, IntervalInduction
<1>6. h \in [0..n -> D]
  BY <1>3, <1>5
<1>7. \A i \in 1..n : h[i] = F[<<i, h[i - 1]>>]
  <2>1. \A i \in 1..n : i - 1 \in 0..n
    OBVIOUS
  <2> QED
    BY <1>2, <1>6, <2>1
<1>8. FoldPrefixes(h, n, D, base, F)
  BY <1>1, <1>6, <1>7 DEF FoldPrefixes
<1> QED
  BY <1>3, <1>8

(***************************************************************************)
(* Sums over finite functions.                                             *)
(***************************************************************************)

SumOf(f) == FoldFunction(+, 0, f)

(* The partial sums of f over the subsets of its domain, as the community modules
   define them: in the order in which CHOOSE takes elements out.             *)
PartialSums(g, S, f) ==
    /\ g \in [SUBSET S -> Int]
    /\ g[{}] = 0
    /\ \A s \in SUBSET S :
          s # {} => LET x == CHOOSE y \in s : TRUE
                    IN  /\ x \in s /\ s \ {x} \in SUBSET S
                        /\ g[s] = f[x] + g[s \ {x}]

LEMMA SumHasPartialSums ==
    ASSUME NEW S, IsFiniteSet(S), NEW f \in [S -> Int]
    PROVE  \E g : PartialSums(g, S, f) /\ SumOf(f) = g[S]
<1> DEFINE c == [s \in SUBSET S |-> CHOOSE x \in s : TRUE]
           F == [p \in S \X Int |-> f[p[1]] + p[2]]
           Iter(g) == g = [s \in SUBSET S |->
                              IF s = {} THEN 0
                              ELSE f[CHOOSE x \in s : TRUE]
                                     + g[s \ {CHOOSE x \in s : TRUE}]]
           h == CHOOSE g : Iter(g)
<1>1. \A s \in SUBSET S : s # {} => c[s] \in s
  OBVIOUS
<1>2. \A s \in SUBSET S : c[s] = CHOOSE x \in s : TRUE
  OBVIOUS
<1>3. \A x \in S, d \in Int : F[<<x, d>>] = f[x] + d /\ F[<<x, d>>] \in Int
  OBVIOUS
<1> HIDE DEF c, F
<1>4. PICK g : Solves(g, S, Int, 0, F, c)
  <2>1. Recursion(S, Int, 0, F, c)
    BY <1>1, <1>3 DEF Recursion
  <2> QED
    BY <2>1, SubsetRecursion
<1>5. g \in [SUBSET S -> Int] /\ g[{}] = 0
  BY <1>4 DEF Solves
<1>6. ASSUME NEW s \in SUBSET S, s # {}
      PROVE  g[s] = f[c[s]] + g[s \ {c[s]}]
  <2>1. c[s] \in S /\ s \ {c[s]} \in SUBSET S
    BY <1>1, <1>6
  <2>2. g[s] = F[<<c[s], g[s \ {c[s]}]>>]
    BY <1>4, <1>6 DEF Solves
  <2> QED
    BY <1>3, <1>5, <2>1, <2>2
<1>7. Iter(g)
  BY <1>2, <1>5, <1>6
<1>8. Iter(h)
  <2> HIDE DEF Iter
  <2> QED
    BY <1>7
<1>9. SumOf(f) = h[S]
  BY DEF SumOf, FoldFunction, FoldFunctionOnSet, MapThenFoldSet
<1> HIDE DEF h
<1>10. h[{}] = 0 /\ \A s \in SUBSET S : s # {} => h[s] = f[c[s]] + h[s \ {c[s]}]
  BY <1>2, <1>8
<1> DEFINE X == {s \in SUBSET S : h[s] \in Int}
<1>11. SUBSET S \subseteq X
  <2>1. {} \in X
    BY <1>10
  <2>2. ASSUME NEW s \in SUBSET S, s # {}, \A x \in s : s \ {x} \in X
        PROVE  s \in X
    <3>1. c[s] \in s /\ f[c[s]] \in Int /\ h[s \ {c[s]}] \in Int
      BY <1>1, <2>2
    <3>2. h[s] = f[c[s]] + h[s \ {c[s]}]
      BY <1>10, <2>2
    <3> HIDE DEF c
    <3> QED
      BY <3>1, <3>2
  <2> HIDE DEF X
  <2> QED
    BY <2>1, <2>2, SubsetInduction
<1>12. h \in [SUBSET S -> Int]
  <2>1. h = [s \in SUBSET S |-> h[s]]
    BY <1>8
  <2> QED
    BY <1>11, <2>1
<1>13. \A s \in SUBSET S : s # {} => s \ {c[s]} \in SUBSET S
  OBVIOUS
<1>14. PartialSums(h, S, f)
  BY <1>1, <1>2, <1>10, <1>12, <1>13 DEF PartialSums
<1> QED
  BY <1>9, <1>14

(* Changing one entry changes the sum by as much. *)
LEMMA SumChanges ==
    ASSUME NEW S, IsFiniteSet(S), NEW f \in [S -> Int], NEW x \in S, NEW v \in Int
    PROVE  /\ SumOf(f) \in Int
           /\ SumOf([f EXCEPT ![x] = v]) = SumOf(f) - f[x] + v
<1> DEFINE h == [f EXCEPT ![x] = v]
<1>1. h \in [S -> Int] /\ h[x] = v /\ \A y \in S : y # x => h[y] = f[y]
  OBVIOUS
<1>2. PICK g : PartialSums(g, S, f) /\ SumOf(f) = g[S]
  BY SumHasPartialSums
<1> HIDE DEF h
<1>3. PICK k : PartialSums(k, S, h) /\ SumOf(h) = k[S]
  BY <1>1, SumHasPartialSums
<1> DEFINE X == {s \in SUBSET S : k[s] = IF x \in s THEN g[s] - f[x] + v ELSE g[s]}
<1>4. {} \in X
  BY <1>2, <1>3 DEF PartialSums
<1>5. ASSUME NEW s \in SUBSET S, s # {}, \A y \in s : s \ {y} \in X
      PROVE  s \in X
  <2> DEFINE y == CHOOSE z \in s : TRUE
             r == s \ {y}
  <2>1. /\ y \in s /\ r \in SUBSET S /\ g[s] = f[y] + g[r] /\ k[s] = h[y] + k[r]
        /\ g[r] \in Int /\ k[r] \in Int
    BY <1>2, <1>3, <1>5 DEF PartialSums
  <2>2. k[r] = IF x \in r THEN g[r] - f[x] + v ELSE g[r]
    BY <1>5, <2>1
  <2>3. y \in S /\ f[y] \in Int /\ f[x] \in Int /\ (x \in r <=> (x \in s /\ x # y))
    BY <2>1
  <2> HIDE DEF y, r
  <2>4. CASE x = y
    BY <1>1, <2>1, <2>2, <2>3, <2>4
  <2>5. CASE x # y
    BY <1>1, <2>1, <2>2, <2>3, <2>5
  <2> QED
    BY <2>4, <2>5
<1>6. SUBSET S \subseteq X
  <2> HIDE DEF X
  <2> QED
    BY <1>4, <1>5, SubsetInduction
<1>7. k[S] = g[S] - f[x] + v /\ g[S] \in Int
  BY <1>2, <1>6 DEF PartialSums
<1> QED
  BY <1>2, <1>3, <1>7 DEF h

(* The order in which entries are added does not matter. *)
LEMMA AnyEntryFirst ==
    ASSUME NEW S, IsFiniteSet(S), NEW f \in [S -> Int], NEW g, PartialSums(g, S, f)
    PROVE  \A s \in SUBSET S : \A x \in s : g[s] = f[x] + g[s \ {x}]
<1> DEFINE X == {s \in SUBSET S : \A x \in s : g[s] = f[x] + g[s \ {x}]}
<1>1. {} \in X
  OBVIOUS
<1>2. ASSUME NEW s \in SUBSET S, s # {}, \A z \in s : s \ {z} \in X
      PROVE  s \in X
  <2> SUFFICES ASSUME NEW x \in s
               PROVE  g[s] = f[x] + g[s \ {x}]
    OBVIOUS
  <2> DEFINE y == CHOOSE z \in s : TRUE
  <2>1. y \in s /\ s \ {y} \in SUBSET S /\ g[s] = f[y] + g[s \ {y}]
    BY <1>2 DEF PartialSums
  <2> HIDE DEF y
  <2>2. CASE x = y
    BY <2>1, <2>2
  <2>3. CASE x # y
    <3>1. s \ {x} \in X /\ y \in s \ {x}
      BY <1>2, <2>1, <2>3
    <3>2. s \ {y} \in X /\ x \in s \ {y}
      BY <1>2, <2>1, <2>3
    <3>3. g[s \ {x}] = f[y] + g[(s \ {x}) \ {y}]
      BY <3>1
    <3>4. g[s \ {y}] = f[x] + g[(s \ {y}) \ {x}]
      BY <3>2
    <3>5. (s \ {x}) \ {y} = (s \ {y}) \ {x}
      OBVIOUS
    <3> DEFINE rest == g[(s \ {y}) \ {x}]
    <3>6. rest \in Int /\ f[x] \in Int /\ f[y] \in Int
      <4>1. (s \ {y}) \ {x} \in SUBSET S /\ x \in S /\ y \in S
        BY <2>1
      <4> QED
        BY <4>1 DEF PartialSums
    <3>7. g[s] = f[y] + (f[x] + rest) /\ g[s \ {x}] = f[y] + rest
      BY <2>1, <3>3, <3>4, <3>5
    <3> HIDE DEF rest
    <3> QED
      BY <3>6, <3>7
  <2> QED
    BY <2>2, <2>3
<1>3. SUBSET S \subseteq X
  <2> HIDE DEF X
  <2> QED
    BY <1>1, <1>2, SubsetInduction
<1> QED
  BY <1>3

(* Taking one entry out changes the sum by as much. *)
LEMMA SumWithout ==
    ASSUME NEW S, IsFiniteSet(S), NEW f \in [S -> Int], NEW x \in S
    PROVE  SumOf([y \in S \ {x} |-> f[y]]) = SumOf(f) - f[x]
<1> DEFINE R == S \ {x}
           h == [y \in R |-> f[y]]
<1>1. h \in [R -> Int] /\ R \in SUBSET S /\ \A y \in R : h[y] = f[y]
  OBVIOUS
<1>2. IsFiniteSet(R)
  BY <1>1, FS_Subset
<1>3. PICK g : PartialSums(g, S, f) /\ SumOf(f) = g[S]
  BY SumHasPartialSums
<1> HIDE DEF h, R
<1>4. PICK k : PartialSums(k, R, h) /\ SumOf(h) = k[R]
  BY <1>1, <1>2, SumHasPartialSums
<1> DEFINE X == {s \in SUBSET R : k[s] = g[s]}
<1>5. {} \in X
  BY <1>3, <1>4 DEF PartialSums
<1>6. ASSUME NEW s \in SUBSET R, s # {}, \A y \in s : s \ {y} \in X
      PROVE  s \in X
  <2> DEFINE y == CHOOSE z \in s : TRUE
  <2>1. y \in s /\ k[s] = h[y] + k[s \ {y}] /\ g[s] = f[y] + g[s \ {y}]
    BY <1>1, <1>3, <1>4, <1>6 DEF PartialSums
  <2> HIDE DEF y
  <2> QED
    BY <1>1, <1>6, <2>1
<1>7. SUBSET R \subseteq X
  <2> HIDE DEF X
  <2> QED
    BY <1>2, <1>5, <1>6, SubsetInduction
<1>8. k[R] = g[R]
  BY <1>7
<1>9. g[S] = f[x] + g[R]
  BY <1>3, AnyEntryFirst DEF R
<1>10. g[R] \in Int /\ f[x] \in Int
  BY <1>1, <1>3 DEF PartialSums
<1>11. SumOf(h) = SumOf(f) - f[x]
  BY <1>3, <1>4, <1>8, <1>9, <1>10
<1> QED
  BY <1>11 DEF h, R

(* Nothing adds up to nothing. *)
LEMMA SumOfZeros ==
    ASSUME NEW S, IsFiniteSet(S)
    PROVE  SumOf([x \in S |-> 0]) = 0
<1> DEFINE f == [x \in S |-> 0]
<1>1. f \in [S -> Int] /\ \A x \in S : f[x] = 0
  OBVIOUS
<1> HIDE DEF f
<1>2. PICK g : PartialSums(g, S, f) /\ SumOf(f) = g[S]
  BY <1>1, SumHasPartialSums
<1> DEFINE X == {s \in SUBSET S : g[s] = 0}
<1>3. {} \in X
  BY <1>2 DEF PartialSums
<1>4. ASSUME NEW s \in SUBSET S, s # {}, \A y \in s : s \ {y} \in X
      PROVE  s \in X
  <2> DEFINE y == CHOOSE z \in s : TRUE
  <2>1. y \in s /\ g[s] = f[y] + g[s \ {y}]
    BY <1>2, <1>4 DEF PartialSums
  <2> HIDE DEF y
  <2> QED
    BY <1>1, <1>4, <2>1
<1>5. SUBSET S \subseteq X
  <2> HIDE DEF X
  <2> QED
    BY <1>3, <1>4, SubsetInduction
<1> QED
  BY <1>2, <1>5 DEF f
==============================================================================
