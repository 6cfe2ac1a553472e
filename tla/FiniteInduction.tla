-------------------------- MODULE FiniteInduction --------------------------
(* Induction without an induction rule: a statement about every element of *)
(* a well-founded set holds because a smallest exception to it cannot be.  *)
(* Below, induction over an interval and over the subsets of a finite set, *)
(* recursive functions that exist by it, and sums over a finite set.       *)
EXTENDS Integers, FiniteSets, FiniteSetsExt, FiniteSetTheorems, WellFoundedInduction, TLAPS

LEMMA LeastElement ==
  ASSUME NEW T \in SUBSET Nat, T # {}
  PROVE  \E m \in T : \A k \in T : m <= k
<1> DEFINE less == {ss \in Nat \X Nat : ss[1] < ss[2]}
<1>1. IsWellFoundedOn(less, Nat)
  BY NatLessThanWellFounded DEF OpToRel
<1> HIDE DEF less
<1>2. PICK m \in T : \A k \in T : ~ (<<k, m>> \in less)
  BY <1>1, WFMin
<1>3. ASSUME NEW k \in T, k < m PROVE FALSE
  <2>1. <<k, m>> \in less
    BY <1>3 DEF less
  <2> QED  BY <1>2, <2>1
<1> QED  BY <1>3

LEMMA IntervalInduction ==
  ASSUME NEW n \in Nat, NEW K, 0 \in K, \A i \in 0 .. n - 1 : i \in K => i + 1 \in K
  PROVE  0..n \subseteq K
<1> SUFFICES ASSUME 0..n \ K # {} PROVE FALSE
  OBVIOUS
<1>1. PICK m \in 0..n \ K : \A k \in 0..n \ K : m <= k
  <2>1. 0..n \ K \in SUBSET Nat
    OBVIOUS
  <2> QED  BY <2>1, LeastElement
<1>2. m # 0
  BY <1>1
<1>3. m - 1 \in 0 .. n - 1 /\ m - 1 \notin 0..n \ K
  BY <1>1, <1>2
<1>4. m - 1 \in K
  BY <1>3
<1> QED  BY <1>1, <1>3, <1>4

LEMMA SubsetInduction ==
  ASSUME NEW S, IsFiniteSet(S), NEW K, {} \in K,
         \A T \in SUBSET S : T # {} /\ (\A x \in T : T \ {x} \in K) => T \in K
  PROVE  SUBSET S \subseteq K
<1> SUFFICES ASSUME (SUBSET S) \ K # {} PROVE FALSE
  OBVIOUS
<1>1. IsWellFoundedOn(StrictSubsetOrdering(S), SUBSET S)
  BY FS_StrictSubsetOrderingWellFounded, FS_FiniteSubsetsOfFinite
<1>2. PICK T \in (SUBSET S) \ K : \A U \in (SUBSET S) \ K : ~ (<<U, T>> \in StrictSubsetOrdering(S))
  <2> DEFINE R == StrictSubsetOrdering(S)
             W == SUBSET S
             M == W \ K
  <2>1. IsWellFoundedOn(R, W) /\ M \subseteq W /\ M # {}
    BY <1>1
  <2> HIDE DEF R, W, M
  <2>2. \E T \in M : \A U \in M : ~ (<<U, T>> \in R)
    BY <2>1, WFMin
  <2> QED  BY <2>2 DEF R, W, M
<1>3. T # {}
  BY <1>2
<1>4. ASSUME NEW x \in T PROVE T \ {x} \in K
  <2>1. T \ {x} \in SUBSET S /\ T \ {x} # T
    OBVIOUS
  <2> DEFINE U == T \ {x}
  <2>2. <<U, T>> \in StrictSubsetOrdering(S)
    <3>1. U \in SUBSET S /\ T \in SUBSET S /\ U \subseteq T /\ U # T
      BY <2>1
    <3> HIDE DEF U
    <3> QED  BY <3>1 DEF StrictSubsetOrdering
  <2> QED  BY <1>2, <2>1, <2>2
<1> QED  BY <1>2, <1>3, <1>4

(* A function that is defined by recursion over 0..n exists.               *)
Counts(n, f, base, step) == f[0] = base /\ \A i \in 1..n : f[i] = step[<<i, f[i - 1]>>]

LEMMA IntervalRecursion ==
  ASSUME NEW n \in Nat, NEW V, NEW base \in V, NEW step \in [(1..n) \X V -> V]
  PROVE  \E f \in [0..n -> V] : Counts(n, f, base, step)
<1> DEFINE Good(m, f) == f[0] = base /\ \A i \in 1..m : f[i] = step[<<i, f[i - 1]>>]
           K == {m \in 0..n : \E f \in [0..m -> V] : Good(m, f)}
<1>1. 0 \in K
  <2> DEFINE f == [i \in 0..0 |-> base]
  <2>1. f \in [0..0 -> V] /\ Good(0, f)
    OBVIOUS
  <2> HIDE DEF f
  <2>2. \E h \in [0..0 -> V] : Good(0, h)
    BY <2>1
  <2> QED  BY <2>2
<1>2. ASSUME NEW m \in 0 .. n - 1, m \in K PROVE m + 1 \in K
  <2>1. PICK f \in [0..m -> V] : Good(m, f)
    BY <1>2
  <2> DEFINE g == [i \in 0 .. m + 1 |-> IF i = m + 1 THEN step[<<m + 1, f[m]>>] ELSE f[i]]
  <2>2. step[<<m + 1, f[m]>>] \in V
    <3>1. m + 1 \in 1..n /\ f[m] \in V
      OBVIOUS
    <3> QED  BY <3>1
  <2>3. g \in [0 .. m + 1 -> V]
    <3>1. ASSUME NEW i \in 0 .. m + 1, i # m + 1 PROVE f[i] \in V
      BY <3>1
    <3> QED  BY <2>2, <3>1
  <2>4. \A i \in 0..m : g[i] = f[i]
    OBVIOUS
  <2>5. g[m + 1] = step[<<m + 1, f[m]>>]
    OBVIOUS
  <2> HIDE DEF g
  <2>6. Good(m + 1, g)
    <3>1. g[0] = base
      BY <2>1, <2>4
    <3>2. ASSUME NEW i \in 1 .. m + 1 PROVE g[i] = step[<<i, g[i - 1]>>]
      <4>1. i - 1 \in 0..m
        OBVIOUS
      <4>2. CASE i = m + 1
        BY <2>4, <2>5, <4>1, <4>2
      <4>3. CASE i # m + 1
        <5>1. i \in 1..m
          BY <4>3
        <5> QED  BY <2>1, <2>4, <4>1, <5>1
      <4> QED  BY <4>2, <4>3
    <3> QED  BY <3>1, <3>2
  <2> QED  BY <2>3, <2>6
<1> HIDE DEF K
<1>3. n \in K
  BY <1>1, <1>2, IntervalInduction
<1> QED  BY <1>3 DEF K, Counts

(* A function that is defined by recursion over the subsets of a finite    *)
(* set exists, however the next element to take away is picked.            *)
Unfolds(T, f, base, pick, step) ==
  /\ f[{}] = base
  /\ \A U \in SUBSET T : U # {} => f[U] = step[<<pick[U], f[U \ {pick[U]}]>>]

LEMMA OneUnfolding ==
  ASSUME NEW base, NEW pick, NEW step, NEW T, NEW U, IsFiniteSet(T),
         \A W \in SUBSET T : W # {} => pick[W] \in W,
         NEW f, Unfolds(T, f, base, pick, step), NEW g, Unfolds(U, g, base, pick, step)
  PROVE  \A W \in SUBSET T : W \in SUBSET U => f[W] = g[W]
<1> DEFINE D == T \cap U
           K == {W \in SUBSET D : f[W] = g[W]}
<1>1. IsFiniteSet(D)
  BY FS_Subset, D \subseteq T
<1>2. {} \in K
  BY DEF Unfolds
<1>3. ASSUME NEW W \in SUBSET D, W # {}, \A x \in W : W \ {x} \in K PROVE W \in K
  <2>1. pick[W] \in W /\ W \in SUBSET T /\ W \in SUBSET U
    BY <1>3
  <2>2. f[W \ {pick[W]}] = g[W \ {pick[W]}]
    BY <1>3, <2>1
  <2>3. f[W] = step[<<pick[W], f[W \ {pick[W]}]>>]
    BY <1>3, <2>1 DEF Unfolds
  <2>4. g[W] = step[<<pick[W], g[W \ {pick[W]}]>>]
    BY <1>3, <2>1 DEF Unfolds
  <2>5. f[W] = g[W]
    BY <2>2, <2>3, <2>4
  <2> QED  BY <1>3, <2>5
<1> HIDE DEF K, D
<1>4. SUBSET D \subseteq K
  BY <1>1, <1>2, <1>3, SubsetInduction
<1> QED  BY <1>4 DEF K, D

LEMMA SubsetRecursion ==
  ASSUME NEW S, IsFiniteSet(S), NEW V, NEW base \in V, NEW step \in [S \X V -> V],
         NEW pick, \A T \in SUBSET S : T # {} => pick[T] \in T
  PROVE  \E f \in [SUBSET S -> V] : Unfolds(S, f, base, pick, step)
<1> DEFINE Good(T, f) == Unfolds(T, f, base, pick, step)
           K == {T \in SUBSET S : \E f \in [SUBSET T -> V] : Good(T, f)}
<1>1. {} \in K
  <2> DEFINE f == [U \in SUBSET {} |-> base]
  <2>1. f \in [SUBSET {} -> V] /\ Good({}, f)
    BY DEF Unfolds
  <2> HIDE DEF f
  <2>2. \E h \in [SUBSET {} -> V] : Good({}, h)
    BY <2>1
  <2> QED  BY <2>2
<1>2. ASSUME NEW T \in SUBSET S, T # {}, \A x \in T : T \ {x} \in K PROVE T \in K
  <2> DEFINE F(x) == CHOOSE f \in [SUBSET (T \ {x}) -> V] : Good(T \ {x}, f)
             f == [U \in SUBSET T |->
                     IF U = T THEN step[<<pick[T], F(pick[T])[T \ {pick[T]}]>>]
                     ELSE F(CHOOSE x \in T : x \notin U)[U]]
  <2>1. ASSUME NEW x \in T PROVE F(x) \in [SUBSET (T \ {x}) -> V] /\ Good(T \ {x}, F(x))
    <3> HIDE DEF Good
    <3>1. \E h \in [SUBSET (T \ {x}) -> V] : Good(T \ {x}, h)
      BY <1>2
    <3> QED  BY <3>1
  <2> HIDE DEF F
  <2>2. ASSUME NEW x \in T, NEW U \in SUBSET (T \ {x}) PROVE f[U] = F(x)[U]
    <3> DEFINE y == CHOOSE y \in T : y \notin U
    <3>1. y \in T /\ y \notin U
      BY <2>2
    <3>2. f[U] = F(y)[U]
      BY <2>2
    <3> HIDE DEF y, f
    <3>3. IsFiniteSet(T \ {x})
      BY FS_Subset, T \ {x} \subseteq S
    <3>5. \A W \in SUBSET (T \ {x}) : W # {} => pick[W] \in W
      OBVIOUS
    <3>6. Unfolds(T \ {x}, F(x), base, pick, step) /\ Unfolds(T \ {y}, F(y), base, pick, step)
      BY <2>1, <3>1
    <3> DEFINE A == T \ {x}
               B == T \ {y}
               fx == F(x)
               fy == F(y)
    <3>7. U \in SUBSET A /\ U \in SUBSET B
      BY <3>1
    <3>8. /\ IsFiniteSet(A) /\ \A W \in SUBSET A : W # {} => pick[W] \in W
          /\ Unfolds(A, fx, base, pick, step) /\ Unfolds(B, fy, base, pick, step)
      BY <3>3, <3>5, <3>6
    <3>4. fx[U] = fy[U]
      <4> HIDE DEF A, B, fx, fy
      <4> QED  BY <3>7, <3>8, OneUnfolding
    <3> QED  BY <3>2, <3>4
  <2>3. pick[T] \in T
    BY <1>2
  <2>4. f[T] = step[<<pick[T], f[T \ {pick[T]}]>>]
    <3>1. f[T] = step[<<pick[T], F(pick[T])[T \ {pick[T]}]>>]
      OBVIOUS
    <3> HIDE DEF f
    <3> QED  BY <2>2, <2>3, <3>1
  <2>5. ASSUME NEW U \in SUBSET T PROVE f[U] \in V
    <3>1. CASE U # T
      <4>1. PICK x \in T : x \notin U
        BY <3>1
      <4>2. U \in SUBSET (T \ {x}) /\ F(x) \in [SUBSET (T \ {x}) -> V]
        BY <2>1, <4>1
      <4>3. F(x)[U] \in V
        BY <4>2
      <4> HIDE DEF f
      <4> QED  BY <2>2, <4>2, <4>3
    <3>2. CASE U = T
      <4>1. F(pick[T])[T \ {pick[T]}] \in V
        <5> DEFINE x == pick[T]
        <5>1. F(x) \in [SUBSET (T \ {x}) -> V]
          BY <2>1, <2>3
        <5>2. T \ {x} \in SUBSET (T \ {x})
          OBVIOUS
        <5> HIDE DEF x, F
        <5>3. F(x)[T \ {x}] \in V
          BY <5>1, <5>2
        <5> QED  BY <5>3 DEF x
      <4> QED  BY <2>3, <3>2, <4>1
    <3> QED  BY <3>1, <3>2
  <2>6. f \in [SUBSET T -> V]
    BY <2>5
  <2> HIDE DEF f
  <2>7. Good(T, f)
    <3>1. f[{}] = base
      <4>1. PICK x \in T : TRUE
        BY <1>2
      <4>2. {} \in SUBSET (T \ {x}) /\ Unfolds(T \ {x}, F(x), base, pick, step)
        BY <2>1
      <4>3. F(x)[{}] = base
        BY <4>2 DEF Unfolds
      <4> QED  BY <2>2, <4>2, <4>3
    <3>2. ASSUME NEW U \in SUBSET T, U # {}, U # T PROVE f[U] = step[<<pick[U], f[U \ {pick[U]}]>>]
      <4>1. PICK x \in T : x \notin U
        BY <3>2
      <4>2. U \in SUBSET (T \ {x}) /\ U \ {pick[U]} \in SUBSET (T \ {x})
        BY <4>1
      <4>3. F(x)[U] = step[<<pick[U], F(x)[U \ {pick[U]}]>>]
        BY <2>1, <3>2, <4>2 DEF Unfolds
      <4> QED  BY <2>2, <4>2, <4>3
    <3> QED  BY <2>4, <3>1, <3>2 DEF Unfolds
  <2> HIDE DEF Good
  <2> QED  BY <2>6, <2>7
<1> HIDE DEF K
<1>3. SUBSET S \subseteq K
  BY <1>1, <1>2, SubsetInduction
<1> QED  BY <1>3 DEF K
-----------------------------------------------------------------------------
(* The sum of a function over a finite set.                                *)
SumOf(g, S) == MapThenSumSet(LAMBDA x : g[x], S)

Taken(T) == CHOOSE x \in T : TRUE

Sums(g, S, sum) ==
  /\ sum \in [SUBSET S -> Nat]
  /\ SumOf(g, S) = sum[S] /\ sum[{}] = 0
  /\ \A T \in SUBSET S : T # {} => sum[T] = g[Taken(T)] + sum[T \ {Taken(T)}]

LEMMA SumUnfolds ==
  ASSUME NEW S, IsFiniteSet(S), NEW g \in [S -> Nat]
  PROVE  \E sum : Sums(g, S, sum)
<1> DEFINE pick == [T \in SUBSET S |-> Taken(T)]
           step == [w \in S \X Nat |-> g[w[1]] + w[2]]
           Iterates(f) == f = [T \in SUBSET S |-> IF T = {} THEN 0 ELSE g[Taken(T)] + f[T \ {Taken(T)}]]
<1>1. ASSUME NEW T \in SUBSET S, T # {} PROVE Taken(T) \in T
  BY <1>1 DEF Taken
<1>2. \A T \in SUBSET S : T # {} => pick[T] \in T
  BY <1>1
<1>3. step \in [S \X Nat -> Nat]
  OBVIOUS
<1>4. PICK f \in [SUBSET S -> Nat] : Unfolds(S, f, 0, pick, step)
  <2> HIDE DEF pick, step
  <2> QED  BY <1>2, <1>3, SubsetRecursion
<1>5. ASSUME NEW T \in SUBSET S, T # {} PROVE f[T] = g[Taken(T)] + f[T \ {Taken(T)}]
  <2>1. f[T] = step[<<Taken(T), f[T \ {Taken(T)}]>>]
    BY <1>4, <1>5 DEF Unfolds
  <2>2. Taken(T) \in S /\ f[T \ {Taken(T)}] \in Nat
    BY <1>1, <1>5
  <2> QED  BY <2>1, <2>2
<1>6. f[{}] = 0
  BY <1>4 DEF Unfolds
<1>7. Iterates(f)
  BY <1>5, <1>6
<1> DEFINE iter == CHOOSE h : Iterates(h)
<1>8. Iterates(iter)
  <2> HIDE DEF Iterates
  <2> QED  BY <1>7
<1>9. SumOf(g, S) = iter[S]
  BY DEF SumOf, MapThenSumSet, MapThenFoldSet, Taken
<1> HIDE DEF iter
<1>10. \A T \in SUBSET S : iter[T] = IF T = {} THEN 0 ELSE g[Taken(T)] + iter[T \ {Taken(T)}]
  BY <1>8
<1>11. iter \in [SUBSET S -> Nat]
  <2> DEFINE K == {T \in SUBSET S : iter[T] \in Nat}
  <2>1. {} \in K
    BY <1>10
  <2>2. ASSUME NEW T \in SUBSET S, T # {}, \A x \in T : T \ {x} \in K PROVE T \in K
    <3>1. Taken(T) \in T /\ iter[T] = g[Taken(T)] + iter[T \ {Taken(T)}]
      BY <1>1, <1>10, <2>2
    <3>2. g[Taken(T)] \in Nat /\ iter[T \ {Taken(T)}] \in Nat
      BY <2>2, <3>1
    <3> QED  BY <3>1, <3>2
  <2> HIDE DEF K
  <2>3. SUBSET S \subseteq K
    BY <2>1, <2>2, SubsetInduction
  <2>4. \A T \in SUBSET S : iter[T] \in Nat
    BY <2>3 DEF K
  <2> QED  BY <1>8, <2>4
<1>12. Sums(g, S, iter)
  BY <1>9, <1>10, <1>11 DEF Sums
<1> QED  BY <1>12

LEMMA TakenIsIn == ASSUME NEW T, T # {} PROVE Taken(T) \in T
BY DEF Taken

LEMMA SumIsNat ==
  ASSUME NEW S, IsFiniteSet(S), NEW g \in [S -> Nat]
  PROVE  SumOf(g, S) \in Nat
<1>1. PICK sum : Sums(g, S, sum)
  BY SumUnfolds
<1> QED  BY <1>1 DEF Sums

LEMMA SumOfNone ==
  ASSUME NEW S, IsFiniteSet(S), NEW g \in [S -> Nat], \A x \in S : g[x] = 0
  PROVE  SumOf(g, S) = 0
<1>1. PICK sum : Sums(g, S, sum)
  BY SumUnfolds
<1> DEFINE K == {T \in SUBSET S : sum[T] = 0}
<1>2. {} \in K
  BY <1>1 DEF Sums
<1>3. ASSUME NEW T \in SUBSET S, T # {}, \A x \in T : T \ {x} \in K PROVE T \in K
  <2>1. Taken(T) \in T
    BY <1>3, TakenIsIn
  <2>2. sum[T \ {Taken(T)}] = 0 /\ g[Taken(T)] = 0
    BY <1>3, <2>1
  <2> QED  BY <1>1, <1>3, <2>2 DEF Sums
<1> HIDE DEF K
<1>4. SUBSET S \subseteq K
  BY <1>2, <1>3, SubsetInduction
<1>5. sum[S] = 0
  BY <1>4 DEF K
<1> QED  BY <1>1, <1>5 DEF Sums

(* What one element gains the sum gains.                                   *)
LEMMA SumGains ==
  ASSUME NEW S, IsFiniteSet(S), NEW g \in [S -> Nat], NEW h \in [S -> Nat], NEW p \in S, NEW d \in Nat,
         h[p] = g[p] + d, \A x \in S : x # p => h[x] = g[x]
  PROVE  SumOf(h, S) = SumOf(g, S) + d
<1>1. h \in [S -> Nat] /\ \A x \in S : h[x] = g[x] + (IF x = p THEN d ELSE 0)
  OBVIOUS
<1>2. PICK sum : Sums(g, S, sum)
  BY SumUnfolds
<1>3. PICK more : Sums(h, S, more)
  BY <1>1, SumUnfolds
<1> DEFINE K == {T \in SUBSET S : more[T] = sum[T] + (IF p \in T THEN d ELSE 0)}
<1>4. {} \in K
  BY <1>2, <1>3 DEF Sums
<1>5. ASSUME NEW T \in SUBSET S, T # {}, \A x \in T : T \ {x} \in K PROVE T \in K
  <2> DEFINE x == Taken(T)
             R == T \ {x}
  <2>1. x \in T /\ R \in K /\ R \in SUBSET S
    BY <1>5, TakenIsIn
  <2>2. more[R] = sum[R] + (IF p \in R THEN d ELSE 0)
    BY <2>1
  <2>3. sum[T] = g[x] + sum[R] /\ more[T] = h[x] + more[R]
    BY <1>2, <1>3, <1>5 DEF Sums
  <2>4. p \in R <=> p \in T /\ p # x
    OBVIOUS
  <2>5. sum[R] \in Nat /\ g[x] \in Nat /\ h[x] = g[x] + (IF x = p THEN d ELSE 0)
    BY <1>1, <1>2, <2>1 DEF Sums
  <2> HIDE DEF x, R
  <2>6. more[T] = sum[T] + (IF p \in T THEN d ELSE 0)
    BY <2>1, <2>2, <2>3, <2>4, <2>5
  <2> QED  BY <2>6
<1> HIDE DEF K
<1>6. SUBSET S \subseteq K
  BY <1>4, <1>5, SubsetInduction
<1>7. more[S] = sum[S] + d
  BY <1>6 DEF K
<1> QED  BY <1>2, <1>3, <1>7 DEF Sums
=============================================================================
