------------------------------ MODULE Counting ------------------------------
(***************************************************************************)
(* Numbers that the proofs count with: how the size of a finite set        *)
(* changes when elements come and go, which the invariants that balance    *)
(* one count against another rest on, and induction and iteration over the *)
(* natural numbers, which the recursive functions of the models rest on.   *)
(***************************************************************************)
EXTENDS Integers, FiniteSetTheorems, WellFoundedInduction, TLAPS

\* A set that gains one element at most.
LEMMA GainsAtMostOne ==
  ASSUME NEW A, NEW B, NEW x, IsFiniteSet(A), B \subseteq A \cup {x}
  PROVE  /\ IsFiniteSet(B) /\ Cardinality(B) \in Nat /\ Cardinality(A) \in Nat
         /\ Cardinality(B) <= Cardinality(A) + 1
<1>1. IsFiniteSet(A \cup {x}) /\ Cardinality(A \cup {x}) <= Cardinality(A) + 1
      /\ Cardinality(A) \in Nat /\ Cardinality(A \cup {x}) \in Nat
  BY FS_AddElement, FS_CardinalityType
<1>2. IsFiniteSet(B) /\ Cardinality(B) <= Cardinality(A \cup {x})
  BY <1>1, FS_Subset
<1>3. Cardinality(B) \in Nat
  BY <1>2, FS_CardinalityType
<1> QED
  BY <1>1, <1>2, <1>3

\* A set that gains an element.
LEMMA GainsOne ==
  ASSUME NEW A, NEW x, x \notin A, IsFiniteSet(A)
  PROVE  /\ IsFiniteSet(A \cup {x}) /\ Cardinality(A) \in Nat
         /\ Cardinality(A \cup {x}) = Cardinality(A) + 1
  BY FS_AddElement, FS_CardinalityType

\* A set that gains nothing.
LEMMA GainsNone ==
  ASSUME NEW A, NEW B, IsFiniteSet(A), B \subseteq A
  PROVE  /\ IsFiniteSet(B) /\ Cardinality(B) \in Nat /\ Cardinality(A) \in Nat
         /\ Cardinality(B) <= Cardinality(A)
<1>1. IsFiniteSet(B) /\ Cardinality(B) <= Cardinality(A)
  BY FS_Subset
<1> QED
  BY <1>1, FS_CardinalityType

\* A set that loses an element.
LEMMA LosesOne ==
  ASSUME NEW A, NEW B, NEW x \in A, IsFiniteSet(A), B \subseteq A \ {x}
  PROVE  /\ IsFiniteSet(B) /\ Cardinality(B) \in Nat /\ Cardinality(A) \in Nat
         /\ Cardinality(B) <= Cardinality(A) - 1
<1>1. IsFiniteSet(A \ {x}) /\ Cardinality(A \ {x}) = Cardinality(A) - 1
      /\ Cardinality(A) \in Nat
  BY FS_RemoveElement, FS_CardinalityType
<1>2. IsFiniteSet(B) /\ Cardinality(B) \in Nat /\ Cardinality(B) <= Cardinality(A \ {x})
  BY <1>1, GainsNone
<1> QED
  BY <1>1, <1>2

\* A set that loses one element at most.
LEMMA LosesAtMostOne ==
  ASSUME NEW A, NEW x, IsFiniteSet(A)
  PROVE  /\ IsFiniteSet(A \ {x}) /\ Cardinality(A \ {x}) \in Nat /\ Cardinality(A) \in Nat
         /\ Cardinality(A \ {x}) >= Cardinality(A) - 1
<1>1. /\ IsFiniteSet(A \ {x}) /\ Cardinality(A) \in Nat
      /\ Cardinality(A \ {x}) = IF x \in A THEN Cardinality(A) - 1 ELSE Cardinality(A)
  BY FS_RemoveElement, FS_CardinalityType
<1>2. Cardinality(A \ {x}) \in Nat
  BY <1>1, FS_CardinalityType
<1> QED
  BY <1>1, <1>2

\* A set that each element of another one accounts for at most one element of.
LEMMA ImageIsNoLarger ==
  ASSUME NEW S, NEW T, NEW f, IsFiniteSet(S), T \subseteq {f[s] : s \in S}
  PROVE  /\ IsFiniteSet(T) /\ Cardinality(T) \in Nat /\ Cardinality(S) \in Nat
         /\ Cardinality(T) <= Cardinality(S)
<1> DEFINE Image == {f[s] : s \in S}
           g == [s \in S |-> f[s]]
<1>1. g \in Surjection(S, Image)
  BY DEF Surjection
<1> HIDE DEF g
<1>2. IsFiniteSet(Image) /\ Cardinality(Image) <= Cardinality(S)
  BY <1>1, FS_Surjection
<1>3. /\ IsFiniteSet(T) /\ Cardinality(T) \in Nat /\ Cardinality(Image) \in Nat
      /\ Cardinality(T) <= Cardinality(Image)
  BY <1>2, GainsNone
<1>4. Cardinality(S) \in Nat
  BY FS_CardinalityType
<1> HIDE DEF Image
<1> QED
  BY <1>2, <1>3, <1>4

\* A set that two others cover.
LEMMA CoverIsNoSmaller ==
  ASSUME NEW A, NEW B, NEW C, IsFiniteSet(A), IsFiniteSet(B), C \subseteq A \cup B
  PROVE  /\ IsFiniteSet(C) /\ Cardinality(C) \in Nat
         /\ Cardinality(A) \in Nat /\ Cardinality(B) \in Nat
         /\ Cardinality(C) <= Cardinality(A) + Cardinality(B)
<1>1. /\ IsFiniteSet(A \cup B)
      /\ Cardinality(A \cup B) = Cardinality(A) + Cardinality(B) - Cardinality(A \cap B)
  BY FS_Union
<1>2. Cardinality(A \cap B) \in Nat
  BY GainsNone, A \cap B \subseteq A
<1>3. /\ IsFiniteSet(C) /\ Cardinality(C) \in Nat /\ Cardinality(A \cup B) \in Nat
      /\ Cardinality(C) <= Cardinality(A \cup B)
  BY <1>1, GainsNone
<1>4. Cardinality(A) \in Nat /\ Cardinality(B) \in Nat
  BY FS_CardinalityType
<1> QED
  BY <1>1, <1>2, <1>3, <1>4
-----------------------------------------------------------------------------
\* A set of numbers that is not empty has a smallest one.
LEMMA LeastOf ==
  ASSUME NEW T \in SUBSET Nat, T # {}
  PROVE  \E n \in T : \A m \in T : n <= m
<1>1. PICK n \in T : \A m \in T : ~(<<m, n>> \in OpToRel(<, Nat))
  BY NatLessThanWellFounded, WFMin
<1>2. \A m \in T : ~(m < n)
  BY <1>1 DEF OpToRel
<1> QED
  BY <1>2

\* Induction, as a statement about the set of the numbers it holds for.
LEMMA Climb ==
  ASSUME NEW T \in SUBSET Nat, 0 \in T, \A n \in T : n + 1 \in T
  PROVE  T = Nat
<1> SUFFICES ASSUME Nat \ T # {} PROVE FALSE
  OBVIOUS
<1>1. PICK n \in Nat \ T : \A m \in Nat \ T : n <= m
  BY LeastOf
<1>2. n # 0 /\ n - 1 \in Nat /\ n - 1 + 1 = n
  BY <1>1
<1>3. n - 1 \in T
  BY <1>1, <1>2
<1> QED
  BY <1>2, <1>3

Iterates(f, base, step) == f[0] = base /\ \A n \in Nat : f[n + 1] = step[f[n]]

\* There is a function over Nat with a given value at 0 and a given step.
LEMMA Iteration ==
  ASSUME NEW S, NEW base \in S, NEW step \in [S -> S]
  PROVE  \E f \in [Nat -> S] : Iterates(f, base, step)
<1> DEFINE Upto(n) == {g \in [0..n -> S] : /\ g[0] = base
                                          /\ \A k \in 1..n : g[k] = step[g[k - 1]]}
           T == {n \in Nat : Upto(n) # {}}
<1>1. 0 \in T
  <2>1. [k \in 0..0 |-> base] \in Upto(0)
    OBVIOUS
  <2> QED
    BY <2>1
<1>2. ASSUME NEW n \in T
      PROVE  n + 1 \in T
  <2>1. PICK g \in [0..n -> S] : g[0] = base /\ \A k \in 1..n : g[k] = step[g[k - 1]]
    BY <1>2
  <2> DEFINE h == [k \in 0..(n + 1) |-> IF k = n + 1 THEN step[g[n]] ELSE g[k]]
  <2>2. n \in Nat /\ g[n] \in S
    BY <2>1
  <2>3. h \in [0..(n + 1) -> S] /\ h[0] = base
    BY <2>1, <2>2
  <2>4. \A k \in 1..(n + 1) : h[k] = step[h[k - 1]]
    BY <2>1, <2>2
  <2> HIDE DEF h
  <2>5. h \in Upto(n + 1)
    BY <2>3, <2>4
  <2> QED
    BY <2>2, <2>5
<1>3. T = Nat
  <2> HIDE DEF T
  <2>1. T \in SUBSET Nat
    BY DEF T
  <2> QED
    BY <1>1, <1>2, <2>1, Climb
<1>4. ASSUME NEW n \in Nat, NEW m \in Nat, m <= n, NEW g \in Upto(n), NEW h \in Upto(m)
      PROVE  h[m] = g[m]
  <2> DEFINE U == {k \in Nat : k <= m => h[k] = g[k]}
  <2>1. 0 \in U
    BY <1>4
  <2>2. ASSUME NEW k \in U
        PROVE  k + 1 \in U
    <3>1. CASE k + 1 <= m
      <4>1. h[k] = g[k] /\ k + 1 \in 1..m /\ k + 1 \in 1..n /\ k + 1 - 1 = k
        BY <1>4, <3>1
      <4>2. h[k + 1] = step[h[k]] /\ g[k + 1] = step[g[k]]
        BY <4>1
      <4> QED
        BY <4>1, <4>2
    <3>2. CASE ~(k + 1 <= m)
      BY <3>2
    <3> QED
      BY <3>1, <3>2
  <2>3. U = Nat
    <3>1. U \in SUBSET Nat
      OBVIOUS
    <3> HIDE DEF U
    <3> QED
      BY <2>1, <2>2, <3>1, Climb
  <2>4. \A k \in Nat : k <= m => h[k] = g[k]
    BY <2>3
  <2> QED
    BY <2>4
<1> DEFINE F == [n \in Nat |-> (CHOOSE g \in Upto(n) : TRUE)[n]]
<1>5. \A n \in Nat : (CHOOSE g \in Upto(n) : TRUE) \in Upto(n)
  BY <1>3
<1> HIDE DEF T
<1>6. ASSUME NEW n \in Nat
      PROVE  F[n] \in S /\ F[n] = IF n = 0 THEN base ELSE step[F[n - 1]]
  <2>1. PICK g \in Upto(n) : F[n] = g[n]
    BY <1>5
  <2>2. CASE n = 0
    BY <2>1, <2>2
  <2>3. CASE n # 0
    <3>1. n - 1 \in Nat /\ n - 1 <= n /\ n \in 1..n
      BY <2>3
    <3>2. PICK h \in Upto(n - 1) : F[n - 1] = h[n - 1]
      BY <1>5, <3>1
    <3>3. h[n - 1] = g[n - 1]
      BY <1>4, <3>1
    <3>4. g[n] = step[g[n - 1]] /\ g[n] \in S
      BY <3>1
    <3> QED
      BY <2>1, <2>3, <3>2, <3>3, <3>4
  <2> QED
    BY <2>2, <2>3
<1>7. F \in [Nat -> S]
  <2> HIDE DEF Upto
  <2> QED
    BY <1>6
<1> HIDE DEF F
<1>8. F[0] = base
  BY <1>6
<1>9. ASSUME NEW n \in Nat
      PROVE  F[n + 1] = step[F[n]]
  <2>1. n + 1 \in Nat /\ n + 1 # 0 /\ n + 1 - 1 = n
    OBVIOUS
  <2> QED
    BY <1>6, <2>1
<1> QED
  BY <1>7, <1>8, <1>9 DEF Iterates
\* Induction up to a number.
LEMMA ClimbTo ==
  ASSUME NEW N \in Nat, NEW T, 0 \in T, \A n \in 1..N : n - 1 \in T => n \in T
  PROVE  0..N \subseteq T
<1> DEFINE U == {n \in Nat : n <= N => n \in T}
<1>1. U = Nat
  <2>1. U \in SUBSET Nat /\ 0 \in U
    OBVIOUS
  <2>2. ASSUME NEW n \in U
        PROVE  n + 1 \in U
    <3>1. n + 1 <= N => n + 1 \in 1..N /\ n + 1 - 1 = n
      BY <2>2
    <3> QED
      BY <3>1
  <2> HIDE DEF U
  <2> QED
    BY <2>1, <2>2, Climb
<1>2. \A n \in Nat : n <= N => n \in T
  BY <1>1
<1> QED
  BY <1>2

\* What recursion over 0..N defines, from a value at 0 and a step to each number.
Recurs(f, N, base, step) == f[0] = base /\ \A n \in 1..N : f[n] = step[<<n, f[n - 1]>>]

LEMMA Recursion ==
  ASSUME NEW S, NEW base \in S, NEW N \in Nat, NEW step \in [(1..N) \X S -> S]
  PROVE  \E f \in [0..N -> S] : Recurs(f, N, base, step)
<1> DEFINE T == {m \in 0..N : \E f \in [0..m -> S] :
                                f[0] = base /\ \A n \in 1..m : f[n] = step[<<n, f[n - 1]>>]}
<1>1. 0 \in T
  <2>1. /\ [n \in 0..0 |-> base] \in [0..0 -> S] /\ [n \in 0..0 |-> base][0] = base
        /\ 1..0 = {} /\ 0 \in 0..N
    OBVIOUS
  <2> QED
    BY <2>1
<1>2. ASSUME NEW m \in 1..N, m - 1 \in T
      PROVE  m \in T
  <2>1. PICK f \in [0..(m - 1) -> S] :
          f[0] = base /\ \A n \in 1..(m - 1) : f[n] = step[<<n, f[n - 1]>>]
    BY <1>2
  <2> DEFINE v == step[<<m, f[m - 1]>>]
             g == [n \in 0..m |-> IF n = m THEN v ELSE f[n]]
  <2>2. m \in 0..N /\ m - 1 \in 0..(m - 1) /\ m # 0 /\ m - 1 # m
    OBVIOUS
  <2>3. v \in S
    BY <2>1, <2>2
  <2>4. g[m] = v /\ g[m - 1] = f[m - 1]
    BY <2>2
  <2>5. g \in [0..m -> S] /\ g[0] = base
    BY <2>1, <2>2, <2>3
  <2>6. ASSUME NEW n \in 1..m
        PROVE  g[n] = step[<<n, g[n - 1]>>]
    <3>1. CASE n = m
      BY <2>4, <3>1
    <3>2. CASE n # m
      <4>1. n \in 1..(m - 1) /\ n - 1 \in 0..m /\ n - 1 # m
        BY <3>2
      <4> QED
        BY <2>1, <4>1
    <3> QED
      BY <3>1, <3>2
  <2> HIDE DEF g, v
  <2> QED
    BY <2>2, <2>5, <2>6
<1>3. 0..N \subseteq T
  <2> HIDE DEF T
  <2> QED
    BY <1>1, <1>2, ClimbTo
<1>4. N \in T
  <2> HIDE DEF T
  <2>1. N \in 0..N
    OBVIOUS
  <2> QED
    BY <1>3, <2>1
<1> QED
  BY <1>4 DEF Recurs
=============================================================================
