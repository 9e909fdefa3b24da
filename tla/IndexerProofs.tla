----------------------------- MODULE IndexerProofs -----------------------------
(***************************************************************************)
(* Proofs about KpoolIndexer, for any number of requests, pool size, number *)
(* of drafts and budget of keys.                                           *)
(*                                                                         *)
(* The batch is a concatenation of chunks, and the grids of the decodes are *)
(* that concatenation cut up again: the first half shows where a token of a *)
(* chunk is in the batch (Start), and that a row of a grid is its request's *)
(* chunk.  What a pass does to the keys and writes to the buffer is then   *)
(* said of single tokens.  What a recursive function or a fold computes for *)
(* every length is shown with a least counterexample (Least).              *)
(***************************************************************************)
EXTENDS KpoolIndexer, Integers, SequenceTheorems, FiniteSetTheorems, WellFoundedInduction, TLAPS

-----------------------------------------------------------------------------
(* Numbers.                                                                *)

\* A set of natural numbers has a least element.
LEMMA Least ==
  ASSUME NEW T, T \subseteq Nat, T # {}
  PROVE  \E n \in T : \A m \in T : n <= m
<1> DEFINE R == {ss \in Nat \X Nat : ss[1] < ss[2]}
<1>1. IsWellFoundedOn(R, Nat)
  BY NatLessThanWellFounded DEF OpToRel
<1> HIDE DEF R
<1>2. PICK n \in T : \A m \in T : ~(<<m, n>> \in R)
  BY <1>1, WFMin
<1>3. \A m \in T : ~(m < n)
  BY <1>2 DEF R
<1> QED BY <1>3

\* And a greatest when a number bounds it: the one farthest from 0 is nearest to that.
LEMMA GreatestUpTo ==
  ASSUME NEW n \in Nat, NEW T, T \subseteq 0..n, T # {}
  PROVE  \E k \in T : \A m \in T : k >= m
<1> DEFINE D == {n - k : k \in T}
<1>1. D \subseteq Nat /\ D # {}
  <2>1. \A k \in T : n - k \in Nat
    OBVIOUS
  <2> QED BY <2>1
<1>2. PICK d \in D : \A e \in D : d <= e
  BY <1>1, Least
<1>3. PICK k \in T : d = n - k
  BY <1>2
<1>4. ASSUME NEW m \in T
      PROVE  k >= m
  <2>1. n - k <= n - m
    BY <1>2, <1>3
  <2> QED BY <2>1
<1> QED BY <1>4

\* The greatest and the least of a set are in it.
LEMMA MaxIs ==
  ASSUME NEW n \in Nat, NEW s \in SUBSET (0..n), s # {}
  PROVE  Max(s) \in s /\ \A m \in s : Max(s) >= m
BY GreatestUpTo DEF Max

LEMMA MaxOfOne ==
  ASSUME NEW n \in Nat
  PROVE  Max({n}) = n
<1>1. {n} \in SUBSET (0..n) /\ {n} # {}
  OBVIOUS
<1> QED BY <1>1, MaxIs

LEMMA MinOfTwo ==
  ASSUME NEW a \in Nat, NEW b \in Nat
  PROVE  Min({a, b}) = IF a <= b THEN a ELSE b
BY DEF Min

LEMMA ProductIsNat == \A a, b \in Nat : a * b \in Nat
OBVIOUS

LEMMA Monotonic ==
  ASSUME NEW a \in Nat, NEW b \in Nat, a <= b, NEW c \in Nat
  PROVE  a * c <= b * c
<1>1. PICK d \in Nat : b = a + d
  <2>1. b - a \in Nat /\ b = a + (b - a)
    OBVIOUS
  <2> QED BY <2>1
<1>2. (a + d) * c = a * c + d * c /\ d * c \in Nat /\ a * c \in Nat
  BY ProductIsNat
<1> QED
  BY <1>1, <1>2

\* Quotient and remainder.
LEMMA Divided ==
  ASSUME NEW n \in Nat, NEW k \in Nat \ {0}
  PROVE  /\ n \div k \in Nat /\ n % k \in 0..(k - 1)
         /\ n = (n \div k) * k + (n % k)
         /\ (n \div k) * k \in Nat
OBVIOUS

LEMMA DividedOnce ==
  ASSUME NEW n \in Nat, NEW k \in Nat \ {0}, NEW q \in Int, NEW r \in 0..(k - 1), n = q * k + r
  PROVE  q \in Nat /\ n \div k = q /\ n % k = r
OBVIOUS

\* A pool is complete when its last token is there, and pools follow one another.
LEMMA Complete ==
  ASSUME NEW n \in Nat, NEW k \in Nat \ {0}, NEW j \in Nat
  PROVE  /\ j < n \div k <=> j * k + k - 1 < n
         /\ j < n \div k <=> j * k + k <= n
         /\ j \div k \in Nat
<1> DEFINE q == n \div k
<1>1. q \in Nat /\ n % k \in 0..(k - 1) /\ n = q * k + (n % k) /\ q * k \in Nat
  BY Divided
<1> HIDE DEF q
<1>2. ASSUME j < q PROVE j * k + k <= n
  <2>1. (j + 1) * k <= q * k
    BY <1>1, <1>2, Monotonic
  <2>2. (j + 1) * k = j * k + k
    OBVIOUS
  <2> QED BY <1>1, <2>1, <2>2, ProductIsNat
<1>3. ASSUME ~(j < q) PROVE ~(j * k + k <= n)
  <2>1. q * k <= j * k
    BY <1>1, <1>3, Monotonic
  <2> QED BY <1>1, <2>1, ProductIsNat
<1>4. j * k \in Nat /\ (j * k + k - 1 < n <=> j * k + k <= n)
  BY ProductIsNat
<1>5. j \div k \in Nat
  BY Divided
<1> QED BY <1>2, <1>3, <1>4, <1>5 DEF q

-----------------------------------------------------------------------------
(* Sums.                                                                   *)

\* A function sums f over the subsets of I, one element after another.
Some(u) == CHOOSE i \in u : TRUE
SumsUp(f, I, W) ==
  W = [u \in SUBSET I |-> IF u = {} THEN 0 ELSE f[Some(u)] + W[u \ {Some(u)}]]

LEMMA SumOnSetIs ==
  ASSUME NEW f, NEW I
  PROVE  SumFunctionOnSet(f, I) = (CHOOSE W : SumsUp(f, I, W))[I]
BY DEF SumFunctionOnSet, FoldFunctionOnSet, MapThenFoldSet, SumsUp, Some

\* There is only one such function.
LEMMA SumsAgree ==
  ASSUME NEW f, NEW I, IsFiniteSet(I), NEW V, SumsUp(f, I, V), NEW W, SumsUp(f, I, W)
  PROVE  V = W
<1> DEFINE Bad == {n \in Nat : \E u \in SUBSET I : Cardinality(u) = n /\ V[u] # W[u]}
<1>1. Bad = {}
  <2> SUFFICES ASSUME Bad # {} PROVE FALSE
    OBVIOUS
  <2>1. PICK n \in Bad : \A m \in Bad : n <= m
    <3>1. Bad \subseteq Nat
      OBVIOUS
    <3> HIDE DEF Bad
    <3> QED BY <3>1, Least
  <2>2. PICK u \in SUBSET I : Cardinality(u) = n /\ V[u] # W[u]
    BY <2>1
  <2>3. CASE u = {}
    BY <2>2, <2>3 DEF SumsUp
  <2>4. CASE u # {}
    <3> DEFINE r == u \ {Some(u)}
    <3>1. Some(u) \in u /\ IsFiniteSet(u)
      BY <2>4, FS_Subset DEF Some
    <3>2. r \in SUBSET I /\ Cardinality(r) = n - 1 /\ Cardinality(r) \in Nat
      BY <2>2, <3>1, FS_RemoveElement, FS_CardinalityType, FS_Subset
    <3>3. Cardinality(r) \notin Bad
      <4> HIDE DEF Bad
      <4>1. ~(n <= n - 1)
        BY <2>2, <3>1, FS_CardinalityType
      <4> QED BY <2>1, <3>2, <4>1
    <3>4. V[r] = W[r]
      BY <3>2, <3>3
    <3> HIDE DEF r
    <3>5. V[u] = f[Some(u)] + V[r] /\ W[u] = f[Some(u)] + W[r]
      BY <2>2, <2>4 DEF SumsUp, r
    <3> QED BY <2>2, <3>4, <3>5
  <2> QED BY <2>3, <2>4
<1>2. \A u \in SUBSET I : V[u] = W[u]
  <2> SUFFICES ASSUME NEW u \in SUBSET I PROVE V[u] = W[u]
    OBVIOUS
  <2>1. Cardinality(u) \in Nat
    BY FS_Subset, FS_CardinalityType
  <2> QED BY <1>1, <2>1
<1> HIDE DEF Bad
<1>3. V = [u \in SUBSET I |-> V[u]] /\ W = [u \in SUBSET I |-> W[u]]
  BY DEF SumsUp
<1> QED
  BY <1>2, <1>3

LEMMA SumIs ==
  ASSUME NEW f, NEW I, IsFiniteSet(I), NEW W, SumsUp(f, I, W)
  PROVE  SumFunctionOnSet(f, I) = W[I]
<1>1. SumsUp(f, I, CHOOSE V : SumsUp(f, I, V))
  OBVIOUS
<1>2. (CHOOSE V : SumsUp(f, I, V)) = W
  BY <1>1, SumsAgree
<1> QED
  BY <1>2, SumOnSetIs

\* Built up by the number of elements, a function that sums f exists.
SumsSmall(f, I, n, W) ==
  W = [u \in {v \in SUBSET I : Cardinality(v) <= n} |->
         IF u = {} THEN 0 ELSE f[Some(u)] + W[u \ {Some(u)}]]

LEMMA SumExists ==
  ASSUME NEW f, NEW I, IsFiniteSet(I)
  PROVE  \E W : SumsUp(f, I, W)
<1> DEFINE Upto(n) == {v \in SUBSET I : Cardinality(v) <= n}
           Bad == {n \in Nat : ~\E W : SumsSmall(f, I, n, W)}
<1>1. \A u \in SUBSET I : IsFiniteSet(u) /\ Cardinality(u) \in Nat
  BY FS_Subset, FS_CardinalityType
<1>2. \A u \in SUBSET I : u # {} =>
        /\ u \ {Some(u)} \in SUBSET I
        /\ Cardinality(u \ {Some(u)}) = Cardinality(u) - 1
  <2> SUFFICES ASSUME NEW u \in SUBSET I, u # {}
               PROVE  /\ u \ {Some(u)} \in SUBSET I
                      /\ Cardinality(u \ {Some(u)}) = Cardinality(u) - 1
    OBVIOUS
  <2>1. Some(u) \in u
    BY DEF Some
  <2> QED BY <1>1, <2>1, FS_RemoveElement
<1>3. Bad = {}
  <2> SUFFICES ASSUME Bad # {} PROVE FALSE
    OBVIOUS
  <2>1. PICK n \in Bad : \A m \in Bad : n <= m
    <3>1. Bad \subseteq Nat
      OBVIOUS
    <3> HIDE DEF Bad
    <3> QED BY <3>1, Least
  <2>2. CASE n = 0
    <3> DEFINE W == [u \in Upto(0) |-> 0]
    <3>1. \A u \in Upto(0) : u = {}
      BY <1>1, FS_EmptySet
    <3>2. W = [u \in Upto(0) |-> IF u = {} THEN 0 ELSE f[Some(u)] + W[u \ {Some(u)}]]
      BY <3>1
    <3>3. SumsSmall(f, I, 0, W)
      <4> HIDE DEF W
      <4> QED BY <3>2 DEF SumsSmall
    <3> QED BY <2>1, <2>2, <3>3
  <2>3. CASE n # 0
    <3>1. n \in Nat /\ n - 1 \in Nat /\ n - 1 \notin Bad
      BY <2>1, <2>3
    <3>2. PICK W : SumsSmall(f, I, n - 1, W)
      BY <3>1
    <3> DEFINE w(u) == f[Some(u)] + W[u \ {Some(u)}]
               X == [u \in Upto(n) |-> IF Cardinality(u) = n THEN w(u) ELSE W[u]]
    <3>3. \A u \in Upto(n - 1) : W[u] = IF u = {} THEN 0 ELSE w(u)
      BY <3>2 DEF SumsSmall
    <3>4. ASSUME NEW u \in Upto(n)
          PROVE  X[u] = IF u = {} THEN 0 ELSE f[Some(u)] + X[u \ {Some(u)}]
      <4>1. Cardinality({}) = 0
        BY FS_EmptySet
      <4>2. CASE u = {}
        <5>1. u \in Upto(n - 1) /\ Cardinality(u) # n
          BY <2>3, <3>1, <4>1, <4>2
        <5> QED BY <3>3, <4>2, <5>1
      <4>3. CASE u # {}
        <5> DEFINE r == u \ {Some(u)}
        <5>1. r \in SUBSET I /\ Cardinality(r) = Cardinality(u) - 1
          BY <1>2, <4>3
        <5>2. Cardinality(u) \in Nat /\ Cardinality(u) <= n
          BY <1>1
        <5>3. r \in Upto(n) /\ Cardinality(r) # n
          BY <3>1, <5>1, <5>2
        <5>4. X[r] = W[r]
          BY <5>3
        <5>5. X[u] = w(u)
          <6>1. CASE Cardinality(u) = n
            BY <6>1
          <6>2. CASE Cardinality(u) # n
            <7>1. u \in Upto(n - 1)
              BY <3>1, <5>2, <6>2
            <7> QED BY <3>3, <4>3, <6>2, <7>1
          <6> QED BY <6>1, <6>2
        <5> QED BY <4>3, <5>4, <5>5
      <4> QED BY <4>2, <4>3
    <3>5. X = [u \in Upto(n) |-> IF u = {} THEN 0 ELSE f[Some(u)] + X[u \ {Some(u)}]]
      <4>1. X = [u \in Upto(n) |-> X[u]]
        OBVIOUS
      <4> HIDE DEF X
      <4> QED BY <3>4, <4>1
    <3>6. SumsSmall(f, I, n, X)
      <4> HIDE DEF X
      <4> QED BY <3>5 DEF SumsSmall
    <3> QED BY <2>1, <3>6
  <2> QED BY <2>2, <2>3
<1>4. Cardinality(I) \in Nat /\ Cardinality(I) \notin Bad
  BY <1>1, <1>3
<1>5. PICK W : SumsSmall(f, I, Cardinality(I), W)
  BY <1>4
<1>6. Upto(Cardinality(I)) = SUBSET I
  <2>1. \A u \in SUBSET I : Cardinality(u) <= Cardinality(I)
    BY FS_Subset
  <2> QED BY <2>1
<1>7. SumsUp(f, I, W)
  BY <1>5, <1>6 DEF SumsSmall, SumsUp
<1> QED
  BY <1>7

\* Whichever element is taken first, the sum is the same.
Removes(f, I, W) ==
  \A u \in SUBSET I : W[u] \in Int /\ \A i \in u : W[u] = f[i] + W[u \ {i}]

LEMMA SumRemoves ==
  ASSUME NEW I, IsFiniteSet(I), NEW f, \A i \in I : f[i] \in Int, NEW W, SumsUp(f, I, W)
  PROVE  Removes(f, I, W)
<1> DEFINE Right(u) == W[u] \in Int /\ \A i \in u : W[u] = f[i] + W[u \ {i}]
           Bad == {n \in Nat : \E u \in SUBSET I : Cardinality(u) = n /\ ~Right(u)}
<1>1. \A u \in SUBSET I : IsFiniteSet(u) /\ Cardinality(u) \in Nat
  BY FS_Subset, FS_CardinalityType
<1>2. ASSUME NEW u \in SUBSET I, NEW i \in u
      PROVE  u \ {i} \in SUBSET I /\ Cardinality(u \ {i}) = Cardinality(u) - 1
                /\ Cardinality(u \ {i}) \in Nat
  BY <1>1, FS_RemoveElement
<1>3. Bad = {}
  <2> SUFFICES ASSUME Bad # {} PROVE FALSE
    OBVIOUS
  <2>1. PICK n \in Bad : \A m \in Bad : n <= m
    <3>1. Bad \subseteq Nat
      OBVIOUS
    <3> HIDE DEF Bad
    <3> QED BY <3>1, Least
  <2>2. PICK u \in SUBSET I : Cardinality(u) = n /\ ~Right(u)
    BY <2>1
  <2>3. u # {}
    <3> SUFFICES ASSUME u = {} PROVE FALSE
      OBVIOUS
    <3>1. W[u] = 0
      BY DEF SumsUp
    <3> QED BY <2>2, <3>1
  <2>4. ASSUME NEW v \in SUBSET I, Cardinality(v) = n - 1
        PROVE  Right(v)
    <3>1. Cardinality(v) \in Nat
      BY <1>1
    <3>2. ~(n <= Cardinality(v))
      BY <2>1, <2>4
    <3>3. Cardinality(v) \notin Bad
      <4> HIDE DEF Bad
      <4> QED BY <2>1, <3>2
    <3> HIDE DEF Right
    <3> QED BY <3>1, <3>3
  <2> DEFINE j == Some(u)
  <2>5. j \in u /\ j \in I /\ f[j] \in Int
    BY <2>3 DEF Some
  <2>6. W[u] = f[j] + W[u \ {j}]
    BY <2>3 DEF SumsUp
  <2> HIDE DEF j
  <2>7. Right(u \ {j})
    BY <1>2, <2>2, <2>4, <2>5
  <2>8. W[u] \in Int
    BY <2>5, <2>6, <2>7
  <2>9. ASSUME NEW i \in u
        PROVE  W[u] = f[i] + W[u \ {i}]
    <3>1. CASE i = j
      BY <2>6, <3>1
    <3>2. CASE i # j
      <4> DEFINE v == (u \ {i}) \ {j}
      <4>1. i \in u \ {j} /\ j \in u \ {i} /\ v = (u \ {j}) \ {i}
        BY <2>5, <3>2
      <4> HIDE DEF v
      <4>2. W[u \ {j}] = f[i] + W[v]
        BY <2>7, <4>1
      <4>3. Right(u \ {i})
        BY <1>2, <2>2, <2>4
      <4>4. W[u \ {i}] = f[j] + W[v]
        BY <4>1, <4>3 DEF v
      <4>5. v \in SUBSET I /\ Right(u \ {i}) /\ f[i] \in Int
        BY <4>3 DEF v
      <4>6. W[v] \in Int
        <5>1. u \ {j} \in SUBSET I /\ Cardinality(v) = n - 2
          <6>1. u \ {j} \in SUBSET I /\ Cardinality(u \ {j}) = n - 1
            BY <1>2, <2>2, <2>5
          <6>2. Cardinality((u \ {j}) \ {i}) = Cardinality(u \ {j}) - 1
            BY <1>2, <4>1, <6>1
          <6>3. n \in Nat
            BY <1>1, <2>2
          <6> QED BY <4>1, <6>1, <6>2, <6>3
        <5>2. n - 2 \in Nat /\ n - 2 \notin Bad
          <6>1. Cardinality(v) \in Nat /\ n \in Nat
            BY <1>1, <2>2, <4>5
          <6>2. n - 2 \in Nat /\ ~(n <= n - 2)
            BY <5>1, <6>1
          <6> HIDE DEF Bad
          <6> QED BY <2>1, <6>2
        <5>3. Right(v)
          <6> HIDE DEF Right
          <6> QED BY <4>5, <5>1, <5>2
        <5> QED BY <5>3
      <4> QED BY <2>5, <2>6, <4>2, <4>4, <4>5, <4>6
    <3> QED BY <3>1, <3>2
  <2> QED BY <2>2, <2>8, <2>9
<1>4. \A u \in SUBSET I : Right(u)
  <2> HIDE DEF Right
  <2> QED BY <1>1, <1>3
<1> QED
  BY <1>4 DEF Removes

-----------------------------------------------------------------------------
(* Where the parts of a concatenation start.                               *)

LEMMA StartIs ==
  ASSUME NEW m \in Nat, NEW L \in [1..m -> Nat]
  PROVE  /\ Start(L, 1) = 0
         /\ \A i \in 1..(m + 1) : Start(L, i) \in Nat
         /\ \A i \in 1..m : Start(L, i + 1) = Start(L, i) + L[i]
         /\ SumFunction(L) = Start(L, m + 1)
<1>1. IsFiniteSet(1..m)
  BY FS_Interval
<1>2. PICK W : SumsUp(L, 1..m, W)
  BY <1>1, SumExists
<1>3. \A u \in SUBSET (1..m) : W[u] \in Int /\ \A i \in u : W[u] = L[i] + W[u \ {i}]
  <2> DEFINE I == 1..m
  <2>1. IsFiniteSet(I) /\ (\A i \in I : L[i] \in Int) /\ SumsUp(L, I, W)
    BY <1>1, <1>2
  <2> HIDE DEF I
  <2>2. Removes(L, I, W)
    BY <2>1, SumRemoves
  <2> QED BY <2>2 DEF I, Removes
<1>4. ASSUME NEW i \in 1..(m + 1)
      PROVE  Start(L, i) = W[1..(i - 1)]
  <2> DEFINE I == 1..(i - 1)
             V == [u \in SUBSET I |-> W[u]]
  <2>1. I \subseteq 1..m /\ IsFiniteSet(I)
    BY FS_Interval
  <2>2. ASSUME NEW u \in SUBSET I
        PROVE  V[u] = IF u = {} THEN 0 ELSE L[Some(u)] + V[u \ {Some(u)}]
    <3>1. u \in SUBSET (1..m) /\ u \ {Some(u)} \in SUBSET I
      BY <2>1
    <3>2. W[u] = IF u = {} THEN 0 ELSE L[Some(u)] + W[u \ {Some(u)}]
      BY <1>2, <3>1 DEF SumsUp
    <3> QED BY <3>1, <3>2
  <2>3. SumsUp(L, I, V)
    <3>1. V = [u \in SUBSET I |-> V[u]]
      OBVIOUS
    <3> HIDE DEF V
    <3> QED BY <2>2, <3>1 DEF SumsUp
  <2>4. SumFunctionOnSet(L, I) = V[I]
    <3> HIDE DEF V
    <3> QED BY <2>1, <2>3, SumIs
  <2> QED BY <2>4 DEF Start
<1>5. W[{}] = 0
  BY <1>2 DEF SumsUp
<1>6. Start(L, 1) = 0
  <2>1. 1..(1 - 1) = {} /\ 1 \in 1..(m + 1)
    OBVIOUS
  <2> QED BY <1>4, <1>5, <2>1
<1>7. ASSUME NEW i \in 1..m
      PROVE  Start(L, i + 1) = Start(L, i) + L[i]
  <2>1. /\ i + 1 \in 1..(m + 1) /\ i \in 1..(m + 1) /\ (1..((i + 1) - 1)) \ {i} = 1..(i - 1)
        /\ i \in 1..((i + 1) - 1) /\ 1..((i + 1) - 1) \in SUBSET (1..m)
        /\ 1..(i - 1) \in SUBSET (1..m)
    OBVIOUS
  <2> DEFINE u == 1..((i + 1) - 1)
  <2>2. u \in SUBSET (1..m) /\ i \in u /\ u \ {i} = 1..(i - 1)
    BY <2>1
  <2> HIDE DEF u
  <2>3. W[u] = L[i] + W[1..(i - 1)] /\ W[1..(i - 1)] \in Int /\ L[i] \in Int
    <3>1. W[u] = L[i] + W[u \ {i}]
      BY <1>3, <2>2
    <3>2. W[1..(i - 1)] \in Int
      BY <1>3, <2>1
    <3>3. L[i] \in Int
      OBVIOUS
    <3>4. W[u \ {i}] = W[1..(i - 1)]
      BY <2>2
    <3> QED BY <3>1, <3>2, <3>3, <3>4
  <2>4. W[u] = L[i] + W[1..(i - 1)] /\ u = 1..((i + 1) - 1)
    BY <2>3 DEF u
  <2> QED BY <1>4, <2>1, <2>3, <2>4
<1> DEFINE Bad == {i \in 1..(m + 1) : Start(L, i) \notin Nat}
<1>8. Bad = {}
  <2> SUFFICES ASSUME Bad # {} PROVE FALSE
    OBVIOUS
  <2>1. PICK n \in Bad : \A i \in Bad : n <= i
    <3>1. Bad \subseteq Nat
      OBVIOUS
    <3> HIDE DEF Bad
    <3> QED BY <3>1, Least
  <2>2. n \in 1..(m + 1) /\ Start(L, n) \notin Nat
    BY <2>1
  <2>3. n - 1 \in 1..m /\ (n - 1) + 1 = n
    BY <1>6, <2>2
  <2>4. n - 1 \notin Bad
    <3> HIDE DEF Bad
    <3> QED BY <2>1, <2>3
  <2>5. Start(L, n - 1) \in Nat
    BY <2>3, <2>4
  <2>6. Start(L, n) = Start(L, n - 1) + L[n - 1] /\ L[n - 1] \in Nat
    BY <1>7, <2>3
  <2> QED BY <2>2, <2>5, <2>6
<1>9. SumFunction(L) = Start(L, m + 1)
  <2>1. DOMAIN L = 1..((m + 1) - 1)
    OBVIOUS
  <2> QED BY <2>1 DEF SumFunction, Start
<1> QED
  BY <1>6, <1>7, <1>8, <1>9

\* Parts follow one another.
LEMMA StartsGrow ==
  ASSUME NEW m \in Nat, NEW L \in [1..m -> Nat], NEW i \in 1..m, NEW j \in 1..(m + 1), i < j
  PROVE  Start(L, i) + L[i] <= Start(L, j)
<1>0. \A k \in 1..m : Start(L, k + 1) = Start(L, k) + L[k]
  BY StartIs
<1> DEFINE Bad == {k \in (i + 1)..(m + 1) : ~(Start(L, i) + L[i] <= Start(L, k))}
<1>1. Bad = {}
  <2> SUFFICES ASSUME Bad # {} PROVE FALSE
    OBVIOUS
  <2>1. PICK n \in Bad : \A k \in Bad : n <= k
    <3>1. Bad \subseteq Nat
      OBVIOUS
    <3> HIDE DEF Bad
    <3> QED BY <3>1, Least
  <2>2. n \in (i + 1)..(m + 1) /\ ~(Start(L, i) + L[i] <= Start(L, n))
    BY <2>1
  <2>3. /\ Start(L, i + 1) = Start(L, i) + L[i] /\ Start(L, i + 1) \in Nat
        /\ Start(L, i) \in Nat /\ L[i] \in Nat
    BY StartIs
  <2>4. n # i + 1
    BY <2>2, <2>3
  <2>5. n - 1 \in (i + 1)..(m + 1) /\ n - 1 \in 1..m /\ (n - 1) + 1 = n
    BY <2>2, <2>4
  <2>6. n - 1 \notin Bad
    <3> HIDE DEF Bad
    <3> QED BY <2>1, <2>5
  <2>7. Start(L, i) + L[i] <= Start(L, n - 1)
    BY <2>5, <2>6
  <2>8. /\ Start(L, n) = Start(L, n - 1) + L[n - 1] /\ L[n - 1] \in Nat
        /\ Start(L, n - 1) \in Nat
    <3>1. n - 1 \in 1..(m + 1) /\ Start(L, (n - 1) + 1) = Start(L, n - 1) + L[n - 1]
      BY <1>0, <2>5
    <3> QED BY <2>5, <3>1, StartIs
  <2> QED BY <2>2, <2>3, <2>7, <2>8
<1> QED
  BY <1>1

\* Each place is in one part.
LEMMA Placed ==
  ASSUME NEW m \in Nat, NEW L \in [1..m -> Nat], NEW k \in 1..Start(L, m + 1)
  PROVE  \E i \in 1..m : \E t \in 1..L[i] : k = Start(L, i) + t
<1> DEFINE T == {i \in 1..m : Start(L, i) < k}
<1>0. /\ \A i \in 1..(m + 1) : Start(L, i) \in Nat
      /\ \A i \in 1..m : Start(L, i + 1) = Start(L, i) + L[i]
      /\ Start(L, 1) = 0 /\ m + 1 \in 1..(m + 1)
  BY StartIs
<1>1. m # 0
  BY <1>0
<1>2. 1 \in T /\ T \subseteq 0..m
  BY <1>0, <1>1
<1>3. PICK i \in T : \A j \in T : i >= j
  <2> HIDE DEF T
  <2> QED BY <1>2, GreatestUpTo
<1>4. i \in 1..m /\ Start(L, i) < k /\ i + 1 \notin T
  <2>1. i \in 1..m /\ Start(L, i) < k
    BY <1>3
  <2>2. ~(i >= i + 1)
    BY <2>1
  <2> HIDE DEF T
  <2> QED BY <1>3, <2>1, <2>2
<1>5. k <= Start(L, i + 1)
  <2>1. CASE i = m
    BY <2>1
  <2>2. CASE i # m
    <3>1. i + 1 \in 1..m /\ i + 1 \in 1..(m + 1)
      BY <1>4, <2>2
    <3>2. ~(Start(L, i + 1) < k) /\ Start(L, i + 1) \in Nat
      BY <1>0, <1>4, <3>1
    <3> QED BY <3>2
  <2> QED BY <2>1, <2>2
<1>6. /\ k - Start(L, i) \in 1..L[i] /\ k = Start(L, i) + (k - Start(L, i))
  <2>1. Start(L, i + 1) = Start(L, i) + L[i] /\ Start(L, i) \in Nat /\ L[i] \in Nat
    BY <1>0, <1>4
  <2> QED BY <1>4, <1>5, <2>1
<1> QED
  BY <1>4, <1>6

LEMMA PlacedOnce ==
  ASSUME NEW m \in Nat, NEW L \in [1..m -> Nat],
         NEW i \in 1..m, NEW j \in 1..m, NEW t \in 1..L[i], NEW s \in 1..L[j],
         Start(L, i) + t = Start(L, j) + s
  PROVE  i = j /\ t = s
<1>1. Start(L, i) \in Nat /\ Start(L, j) \in Nat /\ L[i] \in Nat /\ L[j] \in Nat
  BY StartIs
<1>2. ~(i < j)
  <2> SUFFICES ASSUME i < j PROVE FALSE
    OBVIOUS
  <2>1. Start(L, i) + L[i] <= Start(L, j)
    BY StartsGrow
  <2> QED BY <1>1, <2>1
<1>3. ~(j < i)
  <2> SUFFICES ASSUME j < i PROVE FALSE
    OBVIOUS
  <2>1. Start(L, j) + L[j] <= Start(L, i)
    BY StartsGrow
  <2> QED BY <1>1, <2>1
<1>4. i = j
  BY <1>2, <1>3
<1> QED
  BY <1>1, <1>4

\* Places are within the whole.
LEMMA PlacedWithin ==
  ASSUME NEW m \in Nat, NEW L \in [1..m -> Nat], NEW i \in 1..m, NEW t \in 1..L[i]
  PROVE  Start(L, i) + t \in 1..Start(L, m + 1)
<1>1. /\ Start(L, i) \in Nat /\ Start(L, m + 1) \in Nat /\ L[i] \in Nat /\ m + 1 \in 1..(m + 1)
      /\ i < m + 1
  BY StartIs
<1>2. Start(L, i) + L[i] <= Start(L, m + 1)
  BY <1>1, StartsGrow
<1> QED BY <1>1, <1>2

\* Parts of one length start at its multiples; of bounded length, not after them.
LEMMA StartsEven ==
  ASSUME NEW m \in Nat, NEW L \in [1..m -> Nat], NEW w \in Nat
  PROVE  /\ (\A i \in 1..m : L[i] = w) => \A i \in 1..(m + 1) : Start(L, i) = (i - 1) * w
         /\ (\A i \in 1..m : L[i] <= w) => \A i \in 1..(m + 1) : Start(L, i) <= (i - 1) * w
<1>0. \A k \in 1..m : Start(L, k + 1) = Start(L, k) + L[k]
  BY StartIs
<1> DEFINE Wrong(i) == \/ (\A a \in 1..m : L[a] = w) /\ Start(L, i) # (i - 1) * w
                       \/ (\A a \in 1..m : L[a] <= w) /\ ~(Start(L, i) <= (i - 1) * w)
           Bad == {i \in 1..(m + 1) : Wrong(i)}
<1>1. Bad = {}
  <2> SUFFICES ASSUME Bad # {} PROVE FALSE
    OBVIOUS
  <2>1. PICK n \in Bad : \A i \in Bad : n <= i
    <3>1. Bad \subseteq Nat
      OBVIOUS
    <3> HIDE DEF Bad
    <3> QED BY <3>1, Least
  <2>2. n \in 1..(m + 1) /\ Wrong(n)
    BY <2>1
  <2>3. n # 1
    <3>1. Start(L, 1) = 0 /\ (1 - 1) * w = 0
      BY StartIs
    <3> QED BY <2>2, <3>1
  <2>4. n - 1 \in 1..m /\ (n - 1) + 1 = n
    BY <2>2, <2>3
  <2>5. n - 1 \notin Bad
    <3> HIDE DEF Bad
    <3> QED BY <2>1, <2>4
  <2>6. ~Wrong(n - 1)
    BY <2>4, <2>5
  <2>7. /\ Start(L, n) = Start(L, n - 1) + L[n - 1] /\ L[n - 1] \in Nat
        /\ Start(L, n - 1) \in Nat
    <3>1. n - 1 \in 1..(m + 1) /\ Start(L, (n - 1) + 1) = Start(L, n - 1) + L[n - 1]
      BY <1>0, <2>4
    <3> QED BY <2>4, <3>1, StartIs
  <2>8. (n - 1) * w = ((n - 1) - 1) * w + w /\ ((n - 1) - 1) * w \in Nat
    <3>1. PICK c \in Nat : n - 1 = c + 1
      <4>1. n - 2 \in Nat /\ n - 1 = (n - 2) + 1
        BY <2>4
      <4> QED BY <4>1
    <3>2. (c + 1) * w = c * w + w /\ c * w \in Nat /\ (c + 1) - 1 = c
      BY ProductIsNat
    <3> QED BY <3>1, <3>2
  <2> DEFINE p == (n - 1) * w
             q == ((n - 1) - 1) * w
  <2>9. p = q + w /\ q \in Nat
    BY <2>8
  <2>10. ASSUME \A a \in 1..m : L[a] = w
         PROVE  Start(L, n) = p
    <3>1. Start(L, n - 1) = q /\ L[n - 1] = w
      BY <2>4, <2>6, <2>10
    <3> HIDE DEF p, q
    <3> QED BY <2>7, <2>9, <3>1
  <2>11. ASSUME \A a \in 1..m : L[a] <= w
         PROVE  Start(L, n) <= p
    <3>1. Start(L, n - 1) <= q /\ L[n - 1] <= w
      BY <2>4, <2>6, <2>11
    <3> HIDE DEF p, q
    <3> QED BY <2>7, <2>9, <3>1
  <2> QED BY <2>2, <2>10, <2>11
<1> QED
  BY <1>1
-----------------------------------------------------------------------------
(* Concatenations.                                                         *)

LEMMA SeqIs ==
  ASSUME NEW k \in Nat, NEW T, NEW c \in [1..k -> T]
  PROVE  c \in Seq(T) /\ Len(c) = k
OBVIOUS

\* A function joins the parts one by one.
JoinsUp(ss, m, F) == F = [i \in 1..m |-> IF i = 1 THEN ss[i] ELSE F[i - 1] \o ss[i]]

LEMMA FlattenedBy ==
  ASSUME NEW ss, Len(ss) # 0
  PROVE  FlattenSeq(ss) = (CHOOSE F : JoinsUp(ss, Len(ss), F))[Len(ss)]
BY DEF FlattenSeq, JoinsUp

LEMMA JoinExists ==
  ASSUME NEW ss, NEW m \in Nat
  PROVE  \E F : JoinsUp(ss, m, F)
<1> DEFINE Bad == {n \in Nat : ~\E F : JoinsUp(ss, n, F)}
<1>1. Bad = {}
  <2> SUFFICES ASSUME Bad # {} PROVE FALSE
    OBVIOUS
  <2>1. PICK n \in Bad : \A k \in Bad : n <= k
    <3>1. Bad \subseteq Nat
      OBVIOUS
    <3> HIDE DEF Bad
    <3> QED BY <3>1, Least
  <2>2. n \in Nat /\ ~\E F : JoinsUp(ss, n, F)
    BY <2>1
  <2>3. n # 0
    <3> DEFINE F == [i \in 1..0 |-> 0]
    <3>1. F = [i \in 1..0 |-> IF i = 1 THEN ss[i] ELSE F[i - 1] \o ss[i]]
      OBVIOUS
    <3>2. JoinsUp(ss, 0, F)
      <4> HIDE DEF F
      <4> QED BY <3>1 DEF JoinsUp
    <3> QED BY <2>2, <3>2
  <2>4. n - 1 \in Nat /\ n - 1 \notin Bad
    <3>1. n - 1 \in Nat /\ ~(n <= n - 1)
      BY <2>2, <2>3
    <3> HIDE DEF Bad
    <3> QED BY <2>1, <3>1
  <2>5. PICK F : JoinsUp(ss, n - 1, F)
    BY <2>4
  <2> DEFINE last == IF n = 1 THEN ss[n] ELSE F[n - 1] \o ss[n]
             G == [i \in 1..n |-> IF i = n THEN last ELSE F[i]]
  <2>6. ASSUME NEW i \in 1..n
        PROVE  G[i] = IF i = 1 THEN ss[i] ELSE G[i - 1] \o ss[i]
    <3>1. i # 1 => (i - 1 \in 1..n /\ i - 1 # n /\ G[i - 1] = F[i - 1])
      BY <2>2
    <3>2. CASE i = n
      BY <3>1, <3>2
    <3>3. CASE i # n
      <4>1. i \in 1..(n - 1)
        BY <2>2, <3>3
      <4>2. F[i] = IF i = 1 THEN ss[i] ELSE F[i - 1] \o ss[i]
        BY <2>5, <4>1 DEF JoinsUp
      <4> QED BY <3>1, <3>3, <4>2
    <3> QED BY <3>2, <3>3
  <2>7. JoinsUp(ss, n, G)
    <3>1. G = [i \in 1..n |-> G[i]]
      OBVIOUS
    <3> HIDE DEF G
    <3> QED BY <2>6, <3>1 DEF JoinsUp
  <2> QED BY <2>2, <2>7
<1> QED
  BY <1>1

\* e is the sequence c followed by d.
Followed(T, c, d, e) ==
  /\ e \in Seq(T) /\ Len(e) = Len(c) + Len(d)
  /\ \A a \in 1..(Len(c) + Len(d)) : e[a] = IF a <= Len(c) THEN c[a] ELSE d[a - Len(c)]

LEMMA ConcatIs ==
  ASSUME NEW T, NEW c \in Seq(T), NEW d \in Seq(T)
  PROVE  Followed(T, c, d, c \o d)
BY ConcatProperties, Zenon DEF Followed

\* Its first n parts are joined by F[n].
Joined(T, ss, L, F, n) ==
  /\ F[n] \in Seq(T) /\ Len(F[n]) = Start(L, n + 1)
  /\ \A i \in 1..n : \A t \in 1..L[i] : F[n][Start(L, i) + t] = ss[i][t]

LEMMA Later ==
  ASSUME NEW a \in Nat, NEW l \in Nat, NEW t \in 1..l, NEW b \in Nat, NEW c \in Nat, a + l <= b
  PROVE  a + t \in 1..(b + c) /\ a + t <= b
OBVIOUS

LEMMA JoinIs ==
  ASSUME NEW T, NEW m \in Nat, NEW ss \in [1..m -> Seq(T)],
         NEW L \in [1..m -> Nat], \A i \in 1..m : L[i] = Len(ss[i]),
         NEW F, JoinsUp(ss, m, F)
  PROVE  \A n \in 1..m : Joined(T, ss, L, F, n)
<1> DEFINE Bad == {n \in 1..m : ~Joined(T, ss, L, F, n)}
<1>0. /\ Start(L, 1) = 0
      /\ \A k \in 1..m : Start(L, k + 1) = Start(L, k) + L[k]
      /\ \A k \in 1..(m + 1) : Start(L, k) \in Nat
  BY StartIs
<1>1. Bad = {}
  <2> SUFFICES ASSUME Bad # {} PROVE FALSE
    OBVIOUS
  <2>1. PICK n \in Bad : \A k \in Bad : n <= k
    <3>1. Bad \subseteq Nat
      OBVIOUS
    <3> HIDE DEF Bad
    <3> QED BY <3>1, Least
  <2>2. n \in 1..m /\ ~Joined(T, ss, L, F, n)
    BY <2>1
  <2>3. F[n] = IF n = 1 THEN ss[n] ELSE F[n - 1] \o ss[n]
    BY <2>2 DEF JoinsUp
  <2>4. ss[n] \in Seq(T) /\ Len(ss[n]) = L[n] /\ L[n] \in Nat
    BY <2>2
  <2>5. CASE n = 1
    <3>1. Start(L, n + 1) = L[n] /\ Start(L, n) = 0
      BY <1>0, <2>2, <2>4, <2>5
    <3>2. \A i \in 1..n : \A t \in 1..L[i] : F[n][Start(L, i) + t] = ss[i][t]
      <4> SUFFICES ASSUME NEW i \in 1..n, NEW t \in 1..L[i]
                   PROVE  F[n][Start(L, i) + t] = ss[i][t]
        OBVIOUS
      <4>1. i = n /\ Start(L, i) + t = t
        BY <2>4, <2>5, <3>1
      <4> QED BY <2>3, <2>5, <4>1
    <3> QED BY <2>2, <2>3, <2>4, <2>5, <3>1, <3>2 DEF Joined
  <2>6. CASE n # 1
    <3> DEFINE k == n - 1
    <3>1. k \in 1..m /\ k + 1 = n /\ k \notin Bad
      <4>1. k \in 1..m /\ k + 1 = n /\ ~(n <= k)
        BY <2>2, <2>6
      <4> HIDE DEF Bad
      <4> QED BY <2>1, <4>1
    <3>2. Joined(T, ss, L, F, k)
      BY <3>1
    <3>3. F[n] = F[k] \o ss[n]
      BY <2>3, <2>6
    <3> HIDE DEF k
    <3>4. F[k] \in Seq(T) /\ Len(F[k]) = Start(L, n)
      BY <3>1, <3>2 DEF Joined
    <3>5. /\ F[n] \in Seq(T) /\ Len(F[n]) = Start(L, n) + L[n]
          /\ \A a \in 1..(Start(L, n) + L[n]) :
               F[n][a] = IF a <= Start(L, n) THEN F[k][a] ELSE ss[n][a - Start(L, n)]
      <4> DEFINE c == F[k]
                 d == ss[n]
      <4>1. c \in Seq(T) /\ d \in Seq(T) /\ Len(c) = Start(L, n) /\ Len(d) = L[n]
        BY <2>4, <3>4
      <4>2. F[n] = c \o d
        BY <3>3
      <4> HIDE DEF c, d
      <4>3. Followed(T, c, d, F[n])
        BY <4>1, <4>2, ConcatIs
      <4>4. /\ F[n] \in Seq(T) /\ Len(F[n]) = Start(L, n) + L[n]
            /\ \A a \in 1..(Start(L, n) + L[n]) :
                 F[n][a] = IF a <= Start(L, n) THEN c[a] ELSE d[a - Start(L, n)]
        BY <4>1, <4>3 DEF Followed
      <4> QED BY <4>4 DEF c, d
    <3>6. Len(F[n]) = Start(L, n + 1) /\ Start(L, n) \in Nat
      BY <1>0, <2>2, <3>5
    <3>7. \A i \in 1..n : \A t \in 1..L[i] : F[n][Start(L, i) + t] = ss[i][t]
      <4> SUFFICES ASSUME NEW i \in 1..n, NEW t \in 1..L[i]
                   PROVE  F[n][Start(L, i) + t] = ss[i][t]
        OBVIOUS
      <4>1. CASE i = n
        <5>1. /\ Start(L, n) + t \in 1..(Start(L, n) + L[n]) /\ ~(Start(L, n) + t <= Start(L, n))
              /\ (Start(L, n) + t) - Start(L, n) = t
          BY <2>4, <3>6, <4>1
        <5> QED BY <3>5, <4>1, <5>1
      <4>2. CASE i # n
        <5>1. i \in 1..k /\ i \in 1..m /\ n \in 1..(m + 1) /\ i < n
          BY <2>2, <3>1, <4>2
        <5>2. Start(L, i) + L[i] <= Start(L, n)
          BY <5>1, StartsGrow
        <5>3. Start(L, i) \in Nat /\ L[i] \in Nat
          <6>1. i \in 1..(m + 1)
            BY <5>1
          <6> QED BY <1>0, <5>1, <6>1
        <5>4. /\ Start(L, i) + t \in 1..(Start(L, n) + L[n])
              /\ Start(L, i) + t <= Start(L, n)
          <6>1. Start(L, n) \in Nat /\ L[n] \in Nat
            BY <2>4, <3>6
          <6> QED BY <5>2, <5>3, <6>1, Later
        <5>5. F[k][Start(L, i) + t] = ss[i][t]
          BY <3>2, <5>1 DEF Joined
        <5> QED BY <3>5, <5>4, <5>5
      <4> QED BY <4>1, <4>2
    <3> QED BY <2>2, <3>5, <3>6, <3>7 DEF Joined
  <2> QED BY <2>5, <2>6
<1> QED
  BY <1>1

\* A concatenation has the tokens of each part from where it starts.
Concatenates(T, ss, L, m, e) ==
  /\ e \in Seq(T) /\ Len(e) = Start(L, m + 1)
  /\ \A i \in 1..m : \A t \in 1..L[i] : e[Start(L, i) + t] = ss[i][t]

LEMMA FlattenIs ==
  ASSUME NEW T, NEW m \in Nat, NEW ss \in [1..m -> Seq(T)],
         NEW L \in [1..m -> Nat], \A i \in 1..m : L[i] = Len(ss[i])
  PROVE  Concatenates(T, ss, L, m, FlattenSeq(ss))
<1>0. Start(L, 1) = 0
  BY StartIs
<1>1. Len(ss) = m
  OBVIOUS
<1>2. CASE m = 0
  <2>1. FlattenSeq(ss) = ss /\ ss = << >>
    BY <1>1, <1>2 DEF FlattenSeq
  <2>2. Start(L, m + 1) = 0
    <3>1. m + 1 = 1
      BY <1>2
    <3>2. Start(L, 1) = 0
      BY <1>0
    <3> QED BY <3>1, <3>2
  <2>3. << >> \in Seq(T) /\ Len(<< >>) = 0
    OBVIOUS
  <2> QED BY <1>2, <2>1, <2>2, <2>3 DEF Concatenates
<1>3. CASE m # 0
  <2> DEFINE F == CHOOSE G : JoinsUp(ss, m, G)
  <2>1. JoinsUp(ss, m, F)
    BY JoinExists
  <2>2. FlattenSeq(ss) = F[m]
    BY <1>1, <1>3, FlattenedBy
  <2> HIDE DEF F
  <2>3. m \in 1..m
    BY <1>3
  <2>4. Joined(T, ss, L, F, m)
    BY <2>1, <2>3, JoinIs
  <2> QED BY <2>2, <2>4 DEF Joined, Concatenates
<1> QED
  BY <1>2, <1>3

-----------------------------------------------------------------------------
(* Grids.                                                                  *)

\* Row b of the grid has the b-th part of flat, and padding to the common width w.
GridOf(cells, flat, L, m, w, pad) ==
  /\ w \in Nat
  /\ cells = [b \in 1..m |-> [t \in 1..w |->
                IF t <= L[b] THEN flat[Start(L, b) + t] ELSE pad]]
  /\ \A b \in 1..m : L[b] <= w
  /\ \E b \in 1..m : L[b] = w

\* The longest of some requests.
LEMMA WidthIs ==
  ASSUME NEW m \in Nat \ {0}, NEW L \in [1..m -> Nat]
  PROVE  /\ Max(Range(L)) \in Nat
         /\ \A b \in 1..m : L[b] <= Max(Range(L))
         /\ \E b \in 1..m : L[b] = Max(Range(L))
<1> DEFINE S == Range(L)
<1>1. \A b \in 1..m : L[b] \in S
  BY DEF Range
<1>2. \A k \in S : \E b \in 1..m : k = L[b]
  BY DEF Range
<1>3. Start(L, m + 1) \in Nat
  BY StartIs
<1>4. \A b \in 1..m : L[b] <= Start(L, m + 1)
  <2> SUFFICES ASSUME NEW b \in 1..m PROVE L[b] <= Start(L, m + 1)
    OBVIOUS
  <2>1. Start(L, b) \in Nat /\ m + 1 \in 1..(m + 1) /\ b < m + 1
    BY StartIs
  <2>2. Start(L, b) + L[b] <= Start(L, m + 1)
    BY <2>1, StartsGrow
  <2> QED BY <1>3, <2>1, <2>2
<1>5. S \in SUBSET (0..Start(L, m + 1)) /\ S # {}
  <2>1. 1 \in 1..m
    OBVIOUS
  <2> QED BY <1>1, <1>2, <1>4, <2>1
<1> HIDE DEF S
<1>6. Max(S) \in S /\ \A k \in S : Max(S) >= k
  BY <1>3, <1>5, MaxIs
<1>7. Max(S) \in Nat /\ (\A b \in 1..m : L[b] <= Max(S)) /\ \E b \in 1..m : L[b] = Max(S)
  BY <1>1, <1>2, <1>6
<1> QED
  BY <1>7 DEF S

LEMMA GroupedIs ==
  ASSUME NEW m \in Nat \ {0}, NEW L \in [1..m -> Nat], NEW flat, NEW pad,
         Len(flat) = Start(L, m + 1)
  PROVE  \E w : GridOf(Grouped(flat, L, pad), flat, L, m, w, pad)
<1> DEFINE w == Max(Range(L))
<1>0. Len(L) = m
  OBVIOUS
<1>1. w \in Nat /\ (\A b \in 1..m : L[b] <= w) /\ \E b \in 1..m : L[b] = w
  BY WidthIs
<1>2. CASE ~Uniform(L)
  <2>1. Grouped(flat, L, pad) = [b \in 1..m |-> [t \in 1..w |->
                                   IF t <= L[b] THEN flat[Start(L, b) + t] ELSE pad]]
    BY <1>0, <1>2 DEF Grouped, Scatter
  <2> HIDE DEF w
  <2> QED BY <1>1, <2>1 DEF GridOf
<1>3. CASE Uniform(L)
  <2>1. \A b \in 1..m : L[b] = w
    BY <1>0, <1>1, <1>3 DEF Uniform
  <2> HIDE DEF w
  <2>2. \A b \in 1..(m + 1) : Start(L, b) = (b - 1) * w
    BY <1>1, <2>1, StartsEven
  <2>3. Len(flat) \div m = w
    <3>1. m + 1 \in 1..(m + 1) /\ (m + 1) - 1 = m
      OBVIOUS
    <3>2. Start(L, m + 1) = ((m + 1) - 1) * w
      BY <2>2, <3>1
    <3>3. Len(flat) = m * w /\ m * w = w * m + 0 /\ w * m \in Nat /\ 0 \in 0..(m - 1)
      BY <1>1, <3>1, <3>2, ProductIsNat
    <3>4. Len(flat) = w * m + 0 /\ Len(flat) \in Nat
      BY <3>3
    <3> QED BY <1>1, <3>3, <3>4, DividedOnce
  <2>4. Grouped(flat, L, pad) = [b \in 1..m |-> [t \in 1..w |-> flat[(b - 1) * w + t]]]
    BY <1>0, <1>3, <2>3 DEF Grouped, Reshape
  <2>5. ASSUME NEW b \in 1..m
        PROVE  [t \in 1..w |-> flat[(b - 1) * w + t]] =
               [t \in 1..w |-> IF t <= L[b] THEN flat[Start(L, b) + t] ELSE pad]
    <3>1. L[b] = w /\ Start(L, b) = (b - 1) * w
      BY <2>1, <2>2
    <3> QED BY <1>1, <3>1
  <2>6. Grouped(flat, L, pad) = [b \in 1..m |-> [t \in 1..w |->
                                   IF t <= L[b] THEN flat[Start(L, b) + t] ELSE pad]]
    BY <2>4, <2>5
  <2> QED BY <1>1, <2>6 DEF GridOf
<1> QED
  BY <1>2, <1>3

\* Taking the padding out of a grid gives back what was grouped.
LEMMA UnpackIs ==
  ASSUME NEW m \in Nat \ {0}, NEW L \in [1..m -> Nat], NEW T, NEW flat \in Seq(T), NEW pad \in T,
         Len(flat) = Start(L, m + 1), NEW cells, NEW w, GridOf(cells, flat, L, m, w, pad)
  PROVE  Unpack(cells, L) = flat
<1> DEFINE cut(b) == SubSeq(cells[b], 1, L[b])
           ss == [b \in 1..m |-> cut(b)]
<1>0. /\ Len(L) = m /\ w \in Nat /\ Start(L, m + 1) \in Nat
      /\ \A b \in 1..m : L[b] \in Nat /\ L[b] <= w
  BY StartIs DEF GridOf
<1>1. ASSUME NEW b \in 1..m
      PROVE  /\ ss[b] \in Seq(T) /\ Len(ss[b]) = L[b]
             /\ \A t \in 1..L[b] : ss[b][t] = flat[Start(L, b) + t]
  <2> DEFINE row == cells[b]
  <2>1. row = [t \in 1..w |-> IF t <= L[b] THEN flat[Start(L, b) + t] ELSE pad]
    BY DEF GridOf
  <2>2. \A t \in 1..L[b] : Start(L, b) + t \in 1..Len(flat)
    BY PlacedWithin
  <2>3. \A t \in 1..w : row[t] \in T
    BY <1>0, <2>1, <2>2
  <2>4. row \in Seq(T) /\ Len(row) = w
    <3>1. row = [t \in 1..w |-> row[t]]
      BY <2>1
    <3> HIDE DEF row
    <3>2. row \in [1..w -> T]
      BY <2>3, <3>1
    <3> QED BY <1>0, <3>2
  <2>5. \A t \in 1..L[b] : row[t] = flat[Start(L, b) + t]
    BY <1>0, <2>1
  <2> HIDE DEF row
  <2>6. SubSeq(row, 1, L[b]) = [t \in 1..L[b] |-> row[t]]
    <3>1. L[b] \in Nat /\ L[b] <= Len(row)
      BY <1>0, <2>4
    <3>2. CASE L[b] = 0
      BY <2>4, <3>1, <3>2
    <3>3. CASE L[b] # 0
      BY <2>4, <3>1, <3>3
    <3> QED BY <3>2, <3>3
  <2>7. ss[b] = [t \in 1..L[b] |-> row[t]]
    BY <2>6 DEF row
  <2>8. ss[b] \in [1..L[b] -> T]
    <3>1. \A t \in 1..L[b] : row[t] \in T
      BY <1>0, <2>1, <2>3 DEF row
    <3> QED BY <2>7, <3>1
  <2>9. ss[b] \in Seq(T) /\ Len(ss[b]) = L[b]
    <3> HIDE DEF ss
    <3> QED BY <1>0, <2>8, SeqIs
  <2> QED BY <2>5, <2>7, <2>9
<1>2. Unpack(cells, L) = FlattenSeq(ss)
  BY <1>0 DEF Unpack
<1>3. ss \in [1..m -> Seq(T)] /\ \A b \in 1..m : L[b] = Len(ss[b])
  BY <1>1
<1> HIDE DEF ss
<1> DEFINE out == FlattenSeq(ss)
<1>4. Concatenates(T, ss, L, m, out)
  BY <1>3, FlattenIs
<1> HIDE DEF out
<1>5. /\ out \in Seq(T) /\ Len(out) = Start(L, m + 1)
      /\ \A b \in 1..m : \A t \in 1..L[b] : out[Start(L, b) + t] = ss[b][t]
  BY <1>4 DEF Concatenates
<1>6. \A k \in 1..Start(L, m + 1) : out[k] = flat[k]
  <2> SUFFICES ASSUME NEW k \in 1..Start(L, m + 1) PROVE out[k] = flat[k]
    OBVIOUS
  <2>1. PICK b \in 1..m : \E t \in 1..L[b] : k = Start(L, b) + t
    BY Placed
  <2>2. PICK t \in 1..L[b] : k = Start(L, b) + t
    BY <2>1
  <2> QED BY <1>1, <1>5, <2>2
<1>7. out = flat
  BY <1>5, <1>6
<1> QED
  BY <1>2, <1>7 DEF out

-----------------------------------------------------------------------------
(* The batch.                                                              *)

\* Everything the pass writes is true of every pool size and budget.
LEMMA IndexerAssumed ==
  ASSUME IndexerAssumption
  PROVE  /\ NumReqs \in Nat \ {0} /\ MaxLen \in Nat /\ MaxGen \in Nat
         /\ Kpool \in Nat \ {0} /\ TopK \in Nat /\ NumSpec \in Nat
         /\ BlockN \in Nat \ {0} /\ MaxBatched \in Nat
         /\ Prompts \subseteq 1..MaxLen
BY DEF IndexerAssumption

\* What the scheduler makes of a step.
Scheduled(n, kept) ==
  /\ n \in [Requests -> 0..MaxLen] /\ kept \in [Requests -> Nat]
  /\ \A r \in Requests :
       /\ kept[r] <= n[r] /\ len[r] + n[r] <= MaxLen
       /\ (n[r] > 0 /\ len[r] < prompt[r]) =>
            /\ kept[r] = n[r]
            /\ len[r] + n[r] = prompt[r] \/ (len[r] + n[r]) % Kpool = 0
       /\ r \in Prefills(n) => len[r] < prompt[r]

\* An order of some requests names each once.
Ordered(order, m, S) ==
  /\ m \in Nat /\ m <= NumReqs /\ order \in [1..m -> S] /\ Len(order) = m
  /\ \A i, j \in 1..m : order[i] = order[j] => i = j
  /\ \A r \in S : \E i \in 1..m : order[i] = r

LEMMA OrderIs ==
  ASSUME IndexerAssumption, NEW S \in SUBSET Requests, NEW order \in SetToSeqs(S)
  PROVE  Ordered(order, Cardinality(S), S)
<1> DEFINE m == Cardinality(S)
<1>1. IsFiniteSet(Requests) /\ Cardinality(Requests) = NumReqs
  <2>1. IsFiniteSet(1..NumReqs) /\ Cardinality(1..NumReqs) = NumReqs
    <3>1. NumReqs \in Nat /\ NumReqs \in Int /\ 1 \in Int
      BY IndexerAssumed
    <3>2. IsFiniteSet(1..NumReqs)
      BY <3>1, FS_Interval
    <3>3. Cardinality(1..NumReqs) = IF 1 > NumReqs THEN 0 ELSE NumReqs - 1 + 1
      BY <3>1, FS_Interval
    <3>4. NumReqs # 0
      BY IndexerAssumed
    <3> QED BY <3>1, <3>2, <3>3, <3>4
  <2> QED BY <2>1 DEF Requests
<1>2. IsFiniteSet(S) /\ m \in Nat /\ m <= NumReqs
  BY <1>1, FS_Subset, FS_CardinalityType
<1>3. order \in [1..m -> S] /\ \A i, j \in 1..m : i # j => order[i] # order[j]
  BY DEF SetToSeqs
<1>4. Len(order) = m
  BY <1>2, <1>3
<1>5. ASSUME NEW r \in S
      PROVE  \E i \in 1..m : order[i] = r
  <2> SUFFICES ASSUME \A i \in 1..m : order[i] # r PROVE FALSE
    OBVIOUS
  <2>1. order \in [1..m -> S \ {r}]
    BY <1>3
  <2>2. IsFiniteSet(S \ {r}) /\ Cardinality(S \ {r}) = m - 1
    BY <1>2, FS_RemoveElement
  <2>3. IsFiniteSet(1..m) /\ Cardinality(1..m) = m
    <3>1. Cardinality(1..m) = IF 1 > m THEN 0 ELSE m - 1 + 1
      BY <1>2, FS_Interval
    <3>2. IsFiniteSet(1..m)
      BY <1>2, FS_Interval
    <3> HIDE DEF m
    <3> QED BY <1>2, <3>1, <3>2
  <2> DEFINE I == 1..m
             R == S \ {r}
  <2>4. order \in [I -> R] /\ IsFiniteSet(I) /\ IsFiniteSet(R) /\ Cardinality(R) < Cardinality(I)
    BY <1>2, <2>1, <2>2, <2>3
  <2>5. \A i, j \in I : i # j => order[i] # order[j]
    BY <1>3
  <2> HIDE DEF I, R
  <2>6. \E i, j \in I : i # j /\ order[i] = order[j]
    BY <2>4, FS_PigeonHole
  <2> QED BY <2>5, <2>6
<1> QED
  BY <1>2, <1>3, <1>4, <1>5 DEF Ordered

\* What of a token is told apart, within no bounds.
Toks == [req : Nat, gen : Nat, pos : Nat, kept : BOOLEAN]

LensOf(order, m, n) == [i \in 1..m |-> n[order[i]]]

\* The i-th chunk of a batch starts at the tokens of the chunks before it.
BatchOf(flat, order, m, n, kept) ==
  /\ flat \in Seq(Toks) /\ Len(flat) = Start(LensOf(order, m, n), m + 1)
  /\ \A i \in 1..m : \A t \in 1..n[order[i]] :
       flat[Start(LensOf(order, m, n), i) + t] =
         Token(order[i], len[order[i]] + t - 1, t <= kept[order[i]])

LEMMA ChunksAre ==
  ASSUME IndexerAssumption, gen \in [Requests -> Nat], len \in [Requests -> Nat],
         NEW n \in [Requests -> Nat], NEW kept \in [Requests -> Nat],
         NEW S \in SUBSET Requests, NEW m, NEW order, Ordered(order, m, S)
  PROVE  BatchOf(Chunks(order, n, kept), order, m, n, kept)
<1> DEFINE L == LensOf(order, m, n)
           ss == [i \in 1..m |-> Chunk(order[i], n, kept)]
<1>1. m \in Nat /\ Len(order) = m /\ \A i \in 1..m : order[i] \in Requests
  BY DEF Ordered
<1>2. L \in [1..m -> Nat] /\ \A i \in 1..m : L[i] = n[order[i]]
  BY <1>1 DEF LensOf
<1>3. ASSUME NEW r \in Requests
      PROVE  /\ Chunk(r, n, kept) \in Seq(Toks) /\ Len(Chunk(r, n, kept)) = n[r]
             /\ \A t \in 1..n[r] : Chunk(r, n, kept)[t] = Token(r, len[r] + t - 1, t <= kept[r])
  <2> DEFINE c == Chunk(r, n, kept)
  <2>1. c = [t \in 1..n[r] |-> Token(r, len[r] + t - 1, t <= kept[r])] /\ n[r] \in Nat
    BY DEF Chunk
  <2>2. \A t \in 1..n[r] : Token(r, len[r] + t - 1, t <= kept[r]) \in Toks
    <3> SUFFICES ASSUME NEW t \in 1..n[r] PROVE Token(r, len[r] + t - 1, t <= kept[r]) \in Toks
      OBVIOUS
    <3>1. r \in Nat /\ gen[r] \in Nat /\ len[r] + t - 1 \in Nat /\ (t <= kept[r]) \in BOOLEAN
      BY <2>1, IndexerAssumed DEF Requests
    <3> QED BY <3>1 DEF Token, Toks
  <2>3. c \in [1..n[r] -> Toks]
    BY <2>1, <2>2
  <2> HIDE DEF c
  <2>4. c \in Seq(Toks) /\ Len(c) = n[r]
    BY <2>1, <2>3, SeqIs
  <2> QED BY <2>1, <2>4 DEF c
<1>4. ss \in [1..m -> Seq(Toks)] /\ \A i \in 1..m : L[i] = Len(ss[i])
  BY <1>1, <1>2, <1>3
<1>5. Chunks(order, n, kept) = FlattenSeq(ss)
  BY <1>1 DEF Chunks
<1>6. \A i \in 1..m : \A t \in 1..n[order[i]] :
        ss[i][t] = Token(order[i], len[order[i]] + t - 1, t <= kept[order[i]])
  BY <1>1, <1>3
<1> HIDE DEF L, ss
<1>7. Concatenates(Toks, ss, L, m, FlattenSeq(ss))
  BY <1>1, <1>2, <1>4, FlattenIs
<1>8. Concatenates(Toks, ss, L, m, Chunks(order, n, kept))
  BY <1>5, <1>7
<1>9. /\ Chunks(order, n, kept) \in Seq(Toks) /\ Len(Chunks(order, n, kept)) = Start(L, m + 1)
      /\ \A i \in 1..m : \A t \in 1..n[order[i]] :
           Chunks(order, n, kept)[Start(L, i) + t] = ss[i][t]
  BY <1>2, <1>8 DEF Concatenates
<1>10. \A i \in 1..m : \A t \in 1..n[order[i]] :
         Chunks(order, n, kept)[Start(L, i) + t] =
           Token(order[i], len[order[i]] + t - 1, t <= kept[order[i]])
  BY <1>6, <1>9
<1> QED
  BY <1>9, <1>10 DEF BatchOf, L

\* A row of the grid is the chunk of its request, then padding.
RowOf(row, r, w, n, kept) ==
  /\ w \in Nat /\ n[r] <= w
  /\ row = [t \in 1..w |-> IF t <= n[r] THEN Token(r, len[r] + t - 1, t <= kept[r]) ELSE Nothing]

LEMMA RowIs ==
  ASSUME IndexerAssumption, gen \in [Requests -> Nat], len \in [Requests -> Nat],
         NEW n \in [Requests -> Nat], NEW kept \in [Requests -> Nat],
         NEW S \in SUBSET Requests, NEW m, NEW order, Ordered(order, m, S), NEW r \in S,
         NEW cells, cells = Grouped(Chunks(order, n, kept), LensOf(order, m, n), Nothing)
  PROVE  \E w : RowOf(cells[CHOOSE i \in 1..Len(order) : order[i] = r], r, w, n, kept)
<1> DEFINE L == LensOf(order, m, n)
           flat == Chunks(order, n, kept)
           b == CHOOSE i \in 1..Len(order) : order[i] = r
<1>1. m \in Nat /\ Len(order) = m /\ \A i \in 1..m : order[i] \in Requests
  BY DEF Ordered
<1>2. b \in 1..m /\ order[b] = r
  BY <1>1 DEF Ordered
<1>3. m \in Nat \ {0}
  BY <1>1, <1>2
<1>4. L \in [1..m -> Nat] /\ \A i \in 1..m : L[i] = n[order[i]]
  BY <1>1 DEF LensOf
<1>5. BatchOf(flat, order, m, n, kept)
  BY ChunksAre
<1>6. Len(flat) = Start(L, m + 1)
  BY <1>5 DEF BatchOf
<1>7. \A t \in 1..n[r] : flat[Start(L, b) + t] = Token(r, len[r] + t - 1, t <= kept[r])
  BY <1>2, <1>5 DEF BatchOf
<1> HIDE DEF L, flat, b
<1>8. PICK w : GridOf(Grouped(flat, L, Nothing), flat, L, m, w, Nothing)
  BY <1>3, <1>4, <1>6, GroupedIs
<1>9. cells = Grouped(flat, L, Nothing)
  BY DEF flat, L
<1>10. /\ w \in Nat /\ n[r] <= w
       /\ cells[b] = [t \in 1..w |-> IF t <= n[r] THEN flat[Start(L, b) + t] ELSE Nothing]
  BY <1>2, <1>4, <1>8, <1>9 DEF GridOf
<1>11. [t \in 1..w |-> IF t <= n[r] THEN flat[Start(L, b) + t] ELSE Nothing] =
       [t \in 1..w |-> IF t <= n[r] THEN Token(r, len[r] + t - 1, t <= kept[r]) ELSE Nothing]
  <2>1. n[r] \in Nat
    OBVIOUS
  <2>2. ASSUME NEW t \in 1..w
        PROVE  (IF t <= n[r] THEN flat[Start(L, b) + t] ELSE Nothing) =
               (IF t <= n[r] THEN Token(r, len[r] + t - 1, t <= kept[r]) ELSE Nothing)
    <3>1. CASE t <= n[r]
      <4>1. t \in 1..n[r]
        BY <1>10, <2>1, <3>1
      <4> QED BY <1>7, <3>1, <4>1
    <3>2. CASE ~(t <= n[r])
      BY <3>2
    <3> QED BY <3>1, <3>2
  <2> QED BY <2>2
<1>12. RowOf(cells[b], r, w, n, kept)
  BY <1>10, <1>11 DEF RowOf
<1> QED
  BY <1>12 DEF b

\* The chunk of a request follows place s of the batch, and nothing else is its own.
ChunkAt(region, r, s, n, kept) ==
  /\ s \in Nat
  /\ \A i \in 1..Len(region) : region[i].req = r <=> (s < i /\ i <= s + n[r])
  /\ \A t \in 1..n[r] : /\ s + t \in 1..Len(region)
                        /\ region[s + t] = Token(r, len[r] + t - 1, t <= kept[r])

LEMMA RegionIs ==
  ASSUME IndexerAssumption, gen \in [Requests -> Nat], len \in [Requests -> Nat],
         NEW n \in [Requests -> Nat], NEW kept \in [Requests -> Nat],
         NEW S \in SUBSET Requests, NEW m, NEW order, Ordered(order, m, S),
         NEW region, region = Chunks(order, n, kept)
  PROVE  /\ region \in Seq(Toks)
         /\ \A i \in 1..Len(region) : region[i].req \in S
         /\ \A r \in S : \E s : ChunkAt(region, r, s, n, kept)
<1> DEFINE L == LensOf(order, m, n)
<1>1. /\ m \in Nat /\ \A i \in 1..m : order[i] \in S /\ order[i] \in Requests
      /\ \A i, j \in 1..m : order[i] = order[j] => i = j
  BY DEF Ordered
<1>2. L \in [1..m -> Nat] /\ \A i \in 1..m : L[i] = n[order[i]]
  BY <1>1 DEF LensOf
<1>3. BatchOf(region, order, m, n, kept)
  BY ChunksAre
<1>4. /\ region \in Seq(Toks) /\ Len(region) = Start(L, m + 1)
      /\ \A i \in 1..m : \A t \in 1..L[i] :
           region[Start(L, i) + t] = Token(order[i], len[order[i]] + t - 1, t <= kept[order[i]])
  <2>1. /\ region \in Seq(Toks) /\ Len(region) = Start(L, m + 1)
        /\ \A i \in 1..m : \A t \in 1..n[order[i]] :
             region[Start(L, i) + t] = Token(order[i], len[order[i]] + t - 1, t <= kept[order[i]])
    BY <1>3 DEF BatchOf
  <2> HIDE DEF L
  <2> QED BY <1>2, <2>1
<1> HIDE DEF L
<1>5. ASSUME NEW k \in 1..Len(region)
      PROVE  \E i \in 1..m : \E t \in 1..L[i] : k = Start(L, i) + t /\ region[k].req = order[i]
  <2>0. k \in 1..Start(L, m + 1)
    BY <1>4
  <2>1. PICK i \in 1..m : \E t \in 1..L[i] : k = Start(L, i) + t
    BY <1>1, <1>2, <2>0, Placed
  <2>2. PICK t \in 1..L[i] : k = Start(L, i) + t
    BY <2>1
  <2>3. region[k].req = order[i]
    <3>1. region[k] = Token(order[i], len[order[i]] + t - 1, t <= kept[order[i]])
      BY <1>4, <2>2
    <3>2. Token(order[i], len[order[i]] + t - 1, t <= kept[order[i]]).req = order[i]
      BY DEF Token
    <3> QED BY <3>1, <3>2
  <2> QED BY <2>2, <2>3
<1>6. \A i \in 1..Len(region) : region[i].req \in S
  BY <1>1, <1>5
<1>7. ASSUME NEW r \in S
      PROVE  \E s : ChunkAt(region, r, s, n, kept)
  <2>1. PICK b \in 1..m : order[b] = r
    BY DEF Ordered
  <2> DEFINE s == Start(L, b)
  <2>2. s \in Nat /\ n[r] \in Nat /\ L[b] = n[r]
    <3>1. \A i \in 1..(m + 1) : Start(L, i) \in Nat
      BY <1>1, <1>2, StartIs
    <3>2. b \in 1..(m + 1)
      BY <1>1
    <3> QED BY <1>2, <2>1, <3>1, <3>2
  <2>3. ASSUME NEW t \in 1..n[r]
        PROVE  /\ s + t \in 1..Len(region)
               /\ region[s + t] = Token(r, len[r] + t - 1, t <= kept[r])
    <3>1. t \in 1..L[b]
      BY <2>2
    <3>2. s + t \in 1..Start(L, m + 1)
      BY <1>1, <1>2, <3>1, PlacedWithin
    <3> QED BY <1>4, <2>1, <3>1, <3>2
  <2>4. ASSUME NEW k \in 1..Len(region), region[k].req = r
        PROVE  s < k /\ k <= s + n[r]
    <3>1. PICK i \in 1..m : \E t \in 1..L[i] : k = Start(L, i) + t /\ region[k].req = order[i]
      BY <1>5
    <3>2. i = b
      BY <1>1, <2>1, <2>4, <3>1
    <3>3. PICK t \in 1..n[r] : k = s + t
      BY <2>2, <3>1, <3>2
    <3> HIDE DEF s
    <3> QED BY <2>2, <3>3
  <2>5. ASSUME NEW k \in 1..Len(region), s < k, k <= s + n[r]
        PROVE  region[k].req = r
    <3>1. k - s \in 1..n[r] /\ s + (k - s) = k
      <4> HIDE DEF s
      <4> QED BY <2>2, <2>5
    <3>2. region[s + (k - s)] = Token(r, len[r] + (k - s) - 1, (k - s) <= kept[r])
      BY <2>3, <3>1
    <3> HIDE DEF s
    <3>3. Token(r, len[r] + (k - s) - 1, (k - s) <= kept[r]).req = r
      BY DEF Token
    <3> QED BY <3>1, <3>2, <3>3
  <2>6. ChunkAt(region, r, s, n, kept)
    <3> HIDE DEF s
    <3> QED BY <2>2, <2>3, <2>4, <2>5 DEF ChunkAt
  <2> QED BY <2>6
<1> QED
  BY <1>4, <1>6, <1>7

-----------------------------------------------------------------------------
(* What a pass does to the keys of one request.                            *)

\* The keys of a request of which l tokens are kept: KeysRight says it of each.
KeysOf(r, ps, tl, sp, l) ==
  \A p \in 0..(MaxLen - 1) :
    p < l /\ p \div Kpool \notin sp =>
      IF p \div Kpool < l \div Kpool THEN ps[p \div Kpool][p % Kpool] = Token(r, p, TRUE)
      ELSE tl[p % Kpool] = Token(r, p, TRUE)

LEMMA KeysRightIs ==
  KeysRight <=> \A r \in Requests : KeysOf(r, pools[r], tail[r], spoiled[r], len[r])
BY DEF KeysRight, KeysOf

LEMMA InRowIs ==
  ASSUME IndexerAssumption, NEW r \in Requests, len[r] \in Nat, NEW n, n[r] \in Nat, NEW kept,
         NEW row, NEW w, RowOf(row, r, w, n, kept), NEW p \in Nat
  PROVE  /\ (len[r] <= p /\ p < len[r] + n[r]) => InRow(row, r, p) = {p - len[r] + 1}
         /\ ~(len[r] <= p /\ p < len[r] + n[r]) => InRow(row, r, p) = {}
<1>1. w \in Nat /\ n[r] <= w /\ Len(row) = w
  BY DEF RowOf
<1>2. ASSUME NEW t \in 1..w
      PROVE  (row[t].req = r /\ row[t].pos = p /\ row[t] # Nothing) <=>
             (t <= n[r] /\ len[r] + t - 1 = p)
  <2>1. r # 0
    BY IndexerAssumed DEF Requests
  <2>2. CASE t <= n[r]
    <3>1. row[t] = Token(r, len[r] + t - 1, t <= kept[r])
      BY <2>2 DEF RowOf
    <3>2. row[t].req = r /\ row[t].pos = len[r] + t - 1 /\ Nothing.req = 0
      BY <3>1 DEF Token, Nothing
    <3> QED BY <2>1, <2>2, <3>2
  <2>3. CASE ~(t <= n[r])
    <3>1. row[t] = Nothing
      BY <2>3 DEF RowOf
    <3> QED BY <2>3, <3>1
  <2> QED BY <2>2, <2>3
<1>3. InRow(row, r, p) = {t \in 1..w : t <= n[r] /\ len[r] + t - 1 = p}
  BY <1>1, <1>2 DEF InRow
<1>4. ASSUME len[r] <= p, p < len[r] + n[r]
      PROVE  InRow(row, r, p) = {p - len[r] + 1}
  <2>1. p - len[r] + 1 \in 1..w /\ p - len[r] + 1 <= n[r]
    BY <1>1, <1>4
  <2> QED BY <1>1, <1>3, <2>1
<1>5. ASSUME ~(len[r] <= p /\ p < len[r] + n[r])
      PROVE  InRow(row, r, p) = {}
  <2>1. \A t \in 1..w : ~(t <= n[r] /\ len[r] + t - 1 = p)
    BY <1>1, <1>5
  <2> QED BY <1>3, <2>1
<1> QED
  BY <1>4, <1>5

\* Positions with one offset are at least a pool apart.
LEMMA Congruent ==
  ASSUME NEW p \in Nat, NEW q \in Nat, NEW k \in Nat \ {0}, p % k = q % k, p < q
  PROVE  p + k <= q /\ p \div k < q \div k
<1> DEFINE a == p \div k
           b == q \div k
           o == p % k
<1>1. a \in Nat /\ o \in 0..(k - 1) /\ p = a * k + o /\ a * k \in Nat
  BY Divided
<1>2. b \in Nat /\ q = b * k + o /\ b * k \in Nat
  <2>1. b \in Nat /\ q = b * k + (q % k) /\ b * k \in Nat
    BY Divided
  <2> QED BY <2>1
<1> HIDE DEF a, b, o
<1>3. a < b
  <2> SUFFICES ASSUME b <= a PROVE FALSE
    BY <1>1, <1>2
  <2>1. b * k <= a * k
    BY <1>1, <1>2, Monotonic
  <2> QED BY <1>1, <1>2, <2>1
<1>4. (a + 1) * k <= b * k /\ (a + 1) * k = a * k + k
  <2>1. a + 1 \in Nat /\ a + 1 <= b
    BY <1>1, <1>2, <1>3
  <2> QED BY <1>1, <1>2, <2>1, Monotonic
<1>5. p + k <= q
  BY <1>1, <1>2, <1>4
<1> QED
  BY <1>3, <1>5 DEF a, b

\* A token within the bound is in a pool.
LEMMA PoolIs ==
  ASSUME IndexerAssumption, NEW p \in 0..MaxLen
  PROVE  p \div Kpool \in Pools /\ p \div Kpool \in Nat
<1> DEFINE j == p \div Kpool
           d == MaxLen \div Kpool
<1>0. Kpool \in Nat \ {0} /\ MaxLen \in Nat /\ p \in Nat /\ p <= MaxLen
  BY IndexerAssumed
<1>1. j \in Nat /\ p % Kpool \in 0..(Kpool - 1) /\ p = j * Kpool + (p % Kpool) /\ j * Kpool \in Nat
  BY <1>0, Divided
<1>2. d \in Nat
  BY <1>0, Divided
<1>3. j <= d
  <2> SUFFICES ASSUME ~(j <= d) PROVE FALSE
    OBVIOUS
  <2>2. d < j
    BY <1>1, <1>2
  <2>4. (d + 1) * Kpool <= j * Kpool
    <3>1. d + 1 \in Nat /\ d + 1 <= j
      BY <1>1, <1>2, <2>2
    <3> HIDE DEF d, j
    <3> QED BY <1>0, <1>1, <3>1, Monotonic
  <2>5. ~(d * Kpool + Kpool <= MaxLen)
    <3>1. ~(d < d)
      BY <1>2
    <3> QED BY <1>0, <1>2, <3>1, Complete
  <2>6. (d + 1) * Kpool = d * Kpool + Kpool /\ d * Kpool \in Nat
    <3> HIDE DEF d
    <3> QED BY <1>0, <1>2, ProductIsNat
  <2> HIDE DEF j, d
  <2> QED BY <1>0, <1>1, <2>4, <2>5, <2>6
<1> HIDE DEF j, d
<1>4. j \in 0..d
  BY <1>1, <1>2, <1>3
<1> QED
  BY <1>1, <1>4 DEF j, d, Pools

\* Where a position that is not the last of its pool lies.
LEMMA Between ==
  ASSUME NEW k \in Nat \ {0}, NEW j \in Nat, NEW b \in Nat, b = j * k,
         NEW m \in Nat, b < m, m <= b + k - 1
  PROVE  m \div k = j /\ m % k # 0 /\ (m \div k + 1) * k = b + k
<1> DEFINE e == m - b
<1>1. e \in 0..(k - 1) /\ e # 0 /\ m = b + e
  OBVIOUS
<1> HIDE DEF e
<1>2. m = j * k + e /\ j \in Int
  BY <1>1
<1>3. m \div k = j /\ m % k = e
  BY <1>1, <1>2, DividedOnce
<1>4. (j + 1) * k = j * k + k
  OBVIOUS
<1> QED
  BY <1>1, <1>3, <1>4

\* The pass does not take tokens from pool j.
Spares(r, n, kept, j) == Spoils(r, n[r], kept[r]) => (len[r] + kept[r]) \div Kpool # j

LEMMA SpoilsIs ==
  ASSUME NEW r, len[r] \in Nat, NEW a \in Nat, NEW c, NEW m, NEW top, len[r] + c = m, len[r] + a = top,
         m % Kpool # 0, top - 1 >= (m \div Kpool + 1) * Kpool
  PROVE  Spoils(r, a, c)
<1>1. len[r] + a - 1 = top - 1
  OBVIOUS
<1>2. ((len[r] + c) \div Kpool + 1) * Kpool = (m \div Kpool + 1) * Kpool
  OBVIOUS
<1>3. (len[r] + c) % Kpool # 0
  OBVIOUS
<1>4. len[r] + a - 1 >= ((len[r] + c) \div Kpool + 1) * Kpool
  BY <1>1, <1>2
<1> QED
  BY <1>3, <1>4 DEF Spoils

LEMMA PositionIs ==
  ASSUME NEW l \in Nat, NEW a \in Nat, NEW t \in 1..a
  PROVE  l + t - 1 \in Nat /\ l + t - 1 < l + a
OBVIOUS

\* The key of token p of request r, at offset o of pool j, of l kept tokens.
KeyOf(r, p, j, o, ps, tl, l) ==
  IF j * Kpool + Kpool - 1 < l THEN ps[j][o] = Token(r, p, TRUE) ELSE tl[o] = Token(r, p, TRUE)

\* A decode: the ring takes the tokens in order, and its pool is compressed when full.
LEMMA DecodeKeepsOne ==
  ASSUME IndexerAssumption, NEW r \in Requests, NEW l \in Nat, l = len[r],
         NEW n, NEW kept, NEW a \in Nat, a = n[r], NEW c \in Nat, c = kept[r], c <= a,
         NEW row, NEW w, RowOf(row, r, w, n, kept),
         NEW j \in Pools, j \in Nat, NEW o \in Offsets, NEW p \in Nat, p < l + c,
         NEW base \in Nat, base = j * Kpool, p = base + o,
         p < l => KeyOf(r, p, j, o, pools[r], tail[r], l),
         Spares(r, n, kept, j),
         NEW ps, ps[j] = DecodePool(row, r, j, pools[r][j], tail[r]),
         NEW tl, tl[o] = DecodeTail(row, r, o, tail[r])
  PROVE  KeyOf(r, p, j, o, ps, tl, l + c)
<1> DEFINE m == l + c
           top == l + a
           last == base + Kpool - 1
           at(q) == InRow(row, r, q)
<1>0. /\ Kpool \in Nat \ {0} /\ o \in 0..(Kpool - 1) /\ last \in Nat /\ p <= last
      /\ m \in Nat /\ top \in Nat /\ l <= m /\ m <= top /\ m = l + c /\ top = l + a /\ p < m
      /\ base <= p /\ last = base + Kpool - 1
  BY IndexerAssumed DEF Offsets
<1> HIDE DEF m, top, last
<1>1. w \in Nat /\ a <= w /\ Len(row) = w
  BY DEF RowOf
<1>2. \A q \in Nat : /\ (l <= q /\ q < top) => at(q) = {q - l + 1}
                     /\ ~(l <= q /\ q < top) => at(q) = {}
  <2> SUFFICES ASSUME NEW q \in Nat
               PROVE  /\ (l <= q /\ q < top) => at(q) = {q - l + 1}
                      /\ ~(l <= q /\ q < top) => at(q) = {}
    OBVIOUS
  <2>1. /\ (len[r] <= q /\ q < len[r] + n[r]) => at(q) = {q - len[r] + 1}
        /\ ~(len[r] <= q /\ q < len[r] + n[r]) => at(q) = {}
    BY InRowIs
  <2> HIDE DEF at
  <2> QED BY <1>0, <2>1
<1>3. p < l => IF last < l THEN pools[r][j][o] = Token(r, p, TRUE) ELSE tail[r][o] = Token(r, p, TRUE)
  BY <1>0 DEF KeyOf
<1>4. ASSUME NEW q \in Nat, l <= q, q < top
      PROVE  /\ q - l + 1 \in 1..a /\ q - l + 1 \in 1..Len(row)
             /\ row[q - l + 1] = Token(r, q, q < m) /\ Max({q - l + 1}) = q - l + 1
  <2> DEFINE t == q - l + 1
  <2>1. t \in Nat /\ t \in 1..a /\ l + t - 1 = q /\ (t <= c <=> q < m)
    BY <1>0, <1>4
  <2>2. \A u \in 1..a : u \in 1..w /\ u <= a
    BY <1>1
  <2>3. t \in 1..w /\ t <= a
    BY <2>1, <2>2
  <2>4. row[t] = Token(r, l + t - 1, t <= c)
    BY <1>0, <2>3 DEF RowOf
  <2>5. Max({t}) = t
    BY <2>1, MaxOfOne
  <2> HIDE DEF t
  <2>6. row[t] = Token(r, q, q < m)
    BY <2>1, <2>4
  <2> QED BY <1>1, <2>1, <2>3, <2>5, <2>6 DEF t
<1>5. (p < m) = TRUE
  BY <1>0
<1>8. CASE last < m
  <2> SUFFICES ps[j][o] = Token(r, p, TRUE)
    BY <1>0, <1>8 DEF KeyOf
  <2>1. CASE last < l
    <3>1. at(last) = {}
      BY <1>0, <1>2, <2>1
    <3>2. ps[j] = pools[r][j]
      BY <3>1, <1>0 DEF DecodePool
    <3>3. p < l
      BY <1>0, <2>1
    <3> QED BY <1>3, <2>1, <3>2, <3>3
  <2>2. CASE ~(last < l)
    <3>1. at(last) # {}
      <4>1. l <= last /\ last < top
        BY <1>0, <1>8, <2>2
      <4> QED BY <1>0, <1>2, <4>1
    <3>2. ps[j][o] = IF at(base + o) = {} THEN tail[r][o] ELSE row[Max(at(base + o))]
      BY <1>0, <3>1 DEF DecodePool
    <3>3. ps[j][o] = IF at(p) = {} THEN tail[r][o] ELSE row[Max(at(p))]
      BY <3>2
    <3>4. CASE p < l
      <4>1. at(p) = {}
        BY <1>0, <1>2, <3>4
      <4>2. tail[r][o] = Token(r, p, TRUE)
        BY <1>3, <2>2, <3>4
      <4> QED BY <3>3, <4>1, <4>2
    <3>5. CASE ~(p < l)
      <4>1. l <= p /\ p < top
        BY <1>0, <3>5
      <4>2. at(p) = {p - l + 1} /\ row[p - l + 1] = Token(r, p, p < m)
            /\ Max({p - l + 1}) = p - l + 1
        BY <1>2, <1>4, <4>1
      <4>3. ps[j][o] = Token(r, p, p < m)
        BY <3>3, <4>2
      <4> QED BY <1>5, <4>3
    <3> QED BY <3>4, <3>5
  <2> QED BY <2>1, <2>2
<1>9. CASE ~(last < m)
  <2> SUFFICES tl[o] = Token(r, p, TRUE)
    BY <1>0, <1>9 DEF KeyOf
  <2> DEFINE seeds == {t \in 1..Len(row) : row[t].req = r /\ row[t].pos % Kpool = o}
  <2>1. tl[o] = IF seeds = {} THEN tail[r][o] ELSE row[Max(seeds)]
    BY DEF DecodeTail
  <2>2. ASSUME NEW t \in seeds
        PROVE  t \in Nat /\ t \in 1..a /\ l + t - 1 <= p
    <3>2. t \in 1..w /\ row[t].req = r /\ row[t].pos % Kpool = o
      BY <1>1
    <3>3. t <= a
      <4> SUFFICES ASSUME ~(t <= a) PROVE FALSE
        OBVIOUS
      <4>1. row[t] = Nothing
        BY <3>2 DEF RowOf
      <4>2. row[t].req = 0 /\ r # 0
        BY <4>1, IndexerAssumed DEF Nothing, Requests
      <4> QED BY <3>2, <4>2
    <3>4. row[t] = Token(r, l + t - 1, t <= c)
      BY <1>0, <3>2, <3>3 DEF RowOf
    <3> DEFINE q == l + t - 1
    <3>5. q % Kpool = o
      <4>1. row[t].pos = q
        BY <3>4 DEF Token
      <4> QED BY <3>2, <4>1
    <3>6. q \in Nat /\ q < top
      <4>1. t \in 1..a
        BY <1>1, <3>2, <3>3
      <4> QED BY <1>0, <4>1, PositionIs
    <3>7. ~(p < q)
      <4> SUFFICES ASSUME p < q PROVE FALSE
        OBVIOUS
      <4> HIDE DEF q
      <4>0. p % Kpool = o
        <5>1. p = j * Kpool + o /\ j \in Int /\ o \in 0..(Kpool - 1)
          BY <1>0
        <5> QED BY <1>0, <5>1, DividedOnce
      <4>1. p % Kpool = q % Kpool
        BY <3>5, <4>0
      <4>2. p + Kpool <= q
        BY <1>0, <3>6, <4>1, Congruent
      <4>3. m \div Kpool = j /\ m % Kpool # 0 /\ (m \div Kpool + 1) * Kpool = base + Kpool
        <5>1. base < m /\ m <= base + Kpool - 1
          BY <1>0, <1>9
        <5> QED BY <1>0, <5>1, Between
      <4>5. top - 1 >= (m \div Kpool + 1) * Kpool
        <5>1. top - 1 >= base + Kpool
          BY <1>0, <3>6, <4>2
        <5> QED BY <4>3, <5>1
      <4>6. Spoils(r, n[r], kept[r])
        <5>1. len[r] + kept[r] = m /\ len[r] + n[r] = top
          BY <1>0
        <5> QED BY <4>3, <4>5, <5>1, SpoilsIs
      <4> QED BY <1>0, <4>3, <4>6 DEF Spares
    <3> QED BY <1>0, <3>2, <3>3, <3>6, <3>7
  <2>3. CASE p < l
    <3>1. seeds = {}
      <4> SUFFICES ASSUME NEW t \in seeds PROVE FALSE
        OBVIOUS
      <4>1. t \in Nat /\ t \in 1..a /\ l + t - 1 <= p
        BY <2>2
      <4> HIDE DEF seeds
      <4> QED BY <2>3, <4>1
    <3>2. tail[r][o] = Token(r, p, TRUE)
      <4>1. ~(last < l)
        BY <1>0, <1>9
      <4> QED BY <1>3, <2>3, <4>1
    <3> QED BY <2>1, <3>1, <3>2
  <2>4. CASE ~(p < l)
    <3> DEFINE t == p - l + 1
    <3>1. t \in 1..a /\ t \in 1..Len(row) /\ row[t] = Token(r, p, p < m) /\ l + t - 1 = p
      <4>1. l <= p /\ p < top
        BY <1>0, <2>4
      <4>2. t \in 1..a /\ t \in 1..Len(row) /\ row[t] = Token(r, p, p < m)
        BY <1>4, <4>1
      <4> QED BY <4>2
    <3>2. row[t].req = r /\ row[t].pos = p
      BY <3>1 DEF Token
    <3>0. p % Kpool = o
      <4>1. p = j * Kpool + o /\ j \in Int /\ o \in 0..(Kpool - 1)
        BY <1>0
      <4> QED BY <1>0, <4>1, DividedOnce
    <3> HIDE DEF t
    <3>3. t \in seeds
      BY <3>0, <3>1, <3>2
    <3> HIDE DEF seeds
    <3>4. seeds \in SUBSET (0..a) /\ seeds # {}
      <4>1. \A u \in seeds : u \in 0..a
        BY <2>2
      <4> QED BY <3>3, <4>1
    <3>5. Max(seeds) \in seeds /\ \A u \in seeds : Max(seeds) >= u
      BY <3>4, MaxIs
    <3>6. Max(seeds) = t
      <4>1. Max(seeds) \in Nat /\ Max(seeds) \in 1..a /\ l + Max(seeds) - 1 <= p
        BY <2>2, <3>5
      <4>2. Max(seeds) >= t
        BY <3>3, <3>5
      <4> QED BY <3>1, <4>1, <4>2
    <3>7. tl[o] = Token(r, p, p < m)
      BY <2>1, <3>1, <3>4, <3>6
    <3> QED BY <1>5, <3>7
  <2> QED BY <2>3, <2>4
<1>10. KeyOf(r, p, j, o, ps, tl, l + c)
  BY <1>8, <1>9
<1> QED
  BY <1>10

LEMMA KeysOfIs ==
  ASSUME IndexerAssumption, NEW r \in Requests, NEW ps, NEW tl, NEW sp, NEW l \in Nat
  PROVE  KeysOf(r, ps, tl, sp, l) <=>
           \A p \in 0..(MaxLen - 1) : (p < l /\ p \div Kpool \notin sp) =>
             KeyOf(r, p, p \div Kpool, p % Kpool, ps, tl, l)
<1>1. ASSUME NEW p \in 0..(MaxLen - 1)
      PROVE  KeyOf(r, p, p \div Kpool, p % Kpool, ps, tl, l) <=>
               IF p \div Kpool < l \div Kpool THEN ps[p \div Kpool][p % Kpool] = Token(r, p, TRUE)
               ELSE tl[p % Kpool] = Token(r, p, TRUE)
  <2>1. p \in Nat /\ Kpool \in Nat \ {0}
    BY IndexerAssumed
  <2> DEFINE j == p \div Kpool
  <2>2. j \in Nat
    BY <2>1, Divided
  <2> HIDE DEF j
  <2>3. j < l \div Kpool <=> j * Kpool + Kpool - 1 < l
    BY <2>1, <2>2, Complete
  <2>4. KeyOf(r, p, j, p % Kpool, ps, tl, l) <=>
          IF j < l \div Kpool THEN ps[j][p % Kpool] = Token(r, p, TRUE)
          ELSE tl[p % Kpool] = Token(r, p, TRUE)
    BY <2>3 DEF KeyOf
  <2> QED BY <2>4 DEF j
<1> QED
  BY <1>1 DEF KeysOf

\* Where token p is, in terms KeyOf speaks of.
LEMMA PlaceIs ==
  ASSUME IndexerAssumption, NEW p \in 0..(MaxLen - 1)
  PROVE  /\ p \in Nat /\ p \div Kpool \in Nat /\ p \div Kpool \in Pools /\ p % Kpool \in Offsets
         /\ (p \div Kpool) * Kpool \in Nat /\ p = (p \div Kpool) * Kpool + (p % Kpool)
<1>1. p \in Nat /\ Kpool \in Nat \ {0} /\ p \in 0..MaxLen
  BY IndexerAssumed
<1>2. p \div Kpool \in Pools
  BY <1>1, PoolIs
<1>3. /\ p \div Kpool \in Nat /\ p % Kpool \in 0..(Kpool - 1)
      /\ p = (p \div Kpool) * Kpool + (p % Kpool)
      /\ (p \div Kpool) * Kpool \in Nat
  BY <1>1, Divided
<1> QED
  BY <1>1, <1>2, <1>3 DEF Offsets

LEMMA DecodeKeeps ==
  ASSUME IndexerAssumption, NEW r \in Requests, len[r] \in Nat,
         NEW n, NEW kept, n[r] \in Nat, kept[r] \in Nat, kept[r] <= n[r],
         KeysOf(r, pools[r], tail[r], spoiled[r], len[r]),
         NEW row, NEW w, RowOf(row, r, w, n, kept),
         NEW ps, \A j \in Pools : ps[j] = DecodePool(row, r, j, pools[r][j], tail[r]),
         NEW tl, \A o \in Offsets : tl[o] = DecodeTail(row, r, o, tail[r]),
         NEW sp, spoiled[r] \subseteq sp,
         Spoils(r, n[r], kept[r]) => (len[r] + kept[r]) \div Kpool \in sp
  PROVE  KeysOf(r, ps, tl, sp, len[r] + kept[r])
<1> SUFFICES ASSUME NEW p \in 0..(MaxLen - 1), p < len[r] + kept[r], p \div Kpool \notin sp
             PROVE  KeyOf(r, p, p \div Kpool, p % Kpool, ps, tl, len[r] + kept[r])
  <2>1. len[r] + kept[r] \in Nat
    OBVIOUS
  <2> QED BY <2>1, KeysOfIs
<1> DEFINE j == p \div Kpool
           o == p % Kpool
           base == j * Kpool
<1>1. p \in Nat /\ j \in Nat /\ j \in Pools /\ o \in Offsets /\ base \in Nat /\ p = base + o
  BY PlaceIs
<1>2. p < len[r] => KeyOf(r, p, j, o, pools[r], tail[r], len[r])
  BY KeysOfIs
<1>3. j \notin sp
  OBVIOUS
<1> HIDE DEF j, o
<1>4. Spares(r, n, kept, j)
  BY <1>3 DEF Spares
<1>5. ps[j] = DecodePool(row, r, j, pools[r][j], tail[r]) /\ tl[o] = DecodeTail(row, r, o, tail[r])
  BY <1>1
<1>6. base = j * Kpool
  OBVIOUS
<1> HIDE DEF base
<1>7. KeyOf(r, p, j, o, ps, tl, len[r] + kept[r])
  <2>1. PICK l : l = len[r]
    OBVIOUS
  <2>2. PICK a : a = n[r]
    OBVIOUS
  <2>3. PICK c : c = kept[r]
    OBVIOUS
  <2>4. /\ l \in Nat /\ a \in Nat /\ c \in Nat /\ c <= a /\ p < l + c
        /\ (p < l => KeyOf(r, p, j, o, pools[r], tail[r], l))
    BY <1>2, <2>1, <2>2, <2>3
  <2>5. KeyOf(r, p, j, o, ps, tl, l + c)
    BY <1>1, <1>4, <1>5, <1>6, <2>1, <2>2, <2>3, <2>4, DecodeKeepsOne
  <2> QED BY <2>1, <2>3, <2>5
<1> QED
  BY <1>7 DEF j, o

-----------------------------------------------------------------------------
(* Prefills.                                                               *)

AtBoundary(l) == l % Kpool = 0

\* At a pool boundary, a pool with a token before it is complete.
LEMMA Boundary ==
  ASSUME Kpool \in Nat \ {0}, NEW l \in Nat, AtBoundary(l),
         NEW j \in Nat, NEW b \in Nat, b = j * Kpool
  PROVE  /\ b < l => b + Kpool - 1 < l
         /\ b + Kpool - 1 >= l => b >= l
<1> DEFINE k == Kpool
<1>0. k \in Nat \ {0} /\ l % k = 0 /\ b = j * k
  BY DEF AtBoundary
<1> HIDE DEF k
<1>1. l \div k \in Nat /\ l = (l \div k) * k
  <2>1. l \div k \in Nat /\ l = (l \div k) * k + (l % k) /\ (l \div k) * k \in Nat
    BY <1>0, Divided
  <2> QED BY <1>0, <2>1
<1>2. ASSUME b < l PROVE b + k - 1 < l
  <2>1. j < l \div k
    <3> SUFFICES ASSUME ~(j < l \div k) PROVE FALSE
      OBVIOUS
    <3> DEFINE d == l \div k
    <3>1. d \in Nat /\ l = d * k
      BY <1>1
    <3>2. d <= j
      BY <1>1
    <3> HIDE DEF d
    <3>3. d * k <= j * k
      BY <1>0, <3>1, <3>2, Monotonic
    <3> QED BY <1>0, <1>2, <3>1, <3>3
  <2>2. j * k + k - 1 < l
    BY <1>0, <2>1, Complete
  <2> QED BY <1>0, <2>2
<1>3. b + k - 1 >= l => b >= l
  BY <1>0, <1>2
<1> QED
  BY <1>2, <1>3 DEF k

\* Pool j starts at position b.
StartsAt(j, b) == b = j * Kpool

\* Position p of a request whose chunk, at position l, follows place s: its place.
Place(s, l, p) == s + (p - l + 1)

Reached(s, l, a, p) == \E t \in 1..a : Place(s, l, p) = s + t /\ l + t - 1 = p

LEMMA InChunk ==
  ASSUME NEW s \in Nat, NEW l \in Nat, NEW a \in Nat, NEW p \in Nat, p >= l, p < l + a
  PROVE  Reached(s, l, a, p)
<1> DEFINE t == p - l + 1
<1>1. t \in 1..a /\ Place(s, l, p) = s + t /\ l + t - 1 = p
  BY DEF Place
<1> QED
  BY <1>1 DEF Reached

\* Place i is that of a position of the chunk.
Counted(s, l, a, i) ==
  \E t \in 1..a : /\ i = s + t /\ l + t - 1 \in Nat /\ l <= l + t - 1 /\ l + t - 1 < l + a
                  /\ Place(s, l, l + t - 1) = i

LEMMA InChunkOnce ==
  ASSUME NEW l \in Nat, NEW a \in Nat, NEW s \in Nat, NEW i \in Nat, s < i, i <= s + a
  PROVE  Counted(s, l, a, i)
<1> DEFINE t == i - s
<1>1. t \in 1..a /\ i = s + t
  OBVIOUS
<1>2. l + t - 1 \in Nat /\ l <= l + t - 1 /\ l + t - 1 < l + a
  OBVIOUS
<1>3. Place(s, l, l + t - 1) = i
  BY DEF Place
<1> QED
  BY <1>1, <1>2, <1>3 DEF Counted

Preceded(s, l, b, q, k) ==
  /\ Place(s, l, q) >= k
  /\ \A o \in 0..(k - 1) : Place(s, l, q) - (k - 1) + o = Place(s, l, b + o)

\* The last token of a pool that starts in the chunk has the pool before it.
LEMMA PoolInChunk ==
  ASSUME NEW k \in Nat \ {0}, NEW l \in Nat, NEW s \in Nat, NEW b \in Nat, b >= l,
         NEW q \in Nat, q = b + k - 1
  PROVE  Preceded(s, l, b, q, k)
BY DEF Place, Preceded

\* Of a pool that does not end in the chunk, no token has another a pool ahead.
LEMMA PastChunk ==
  ASSUME NEW k \in Nat \ {0}, NEW l \in Nat, NEW a \in Nat, NEW s \in Nat, NEW b \in Nat,
         ~(b + k - 1 < l + a), NEW p \in Nat, p >= b, p >= l
  PROVE  /\ ~(Place(s, l, p) + k <= s + a)
         /\ Place(s, l, p) + k \in Nat /\ Place(s, l, p) + k >= 1
BY DEF Place

LEMMA PlacesGrow ==
  ASSUME NEW s \in Nat, NEW l \in Nat, NEW p \in Nat, NEW q \in Nat, ~(p < q)
  PROVE  Place(s, l, q) <= Place(s, l, p)
BY DEF Place

\* A chunk of a prompt: complete pools are compressed from the batch, the rest is in the tail.
LEMMA PrefillKeepsOne ==
  ASSUME IndexerAssumption, NEW r \in Requests, NEW l \in Nat, l = len[r], AtBoundary(l),
         NEW n, NEW kept, NEW a \in Nat, a = n[r], kept[r] = a,
         NEW region, region \in Seq(Toks), NEW s, ChunkAt(region, r, s, n, kept),
         NEW j \in Nat, NEW o \in Offsets, NEW p \in Nat, p < l + a,
         NEW base \in Nat, StartsAt(j, base), p = base + o,
         p < l => KeyOf(r, p, j, o, pools[r], tail[r], l),
         NEW ps, ps[j] = PrefillPool(region, r, j, pools[r][j]),
         NEW tl, tl[o] = PrefillTail(region, r, o, tail[r][o])
  PROVE  KeyOf(r, p, j, o, ps, tl, l + a)
<1> DEFINE m == l + a
           last == base + Kpool - 1
           N == Len(region)
           done == {i \in Kpool..N : region[i].req = r /\ region[i].pos = j * Kpool + Kpool - 1}
           seeds == {i \in 1..N : /\ region[i].req = r /\ region[i].pos % Kpool = o
                                  /\ i + Kpool > N \/ region[i + Kpool].req # r}
<1> HIDE DEF done, seeds
<1>0. /\ Kpool \in Nat \ {0} /\ o \in 0..(Kpool - 1) /\ last \in Nat /\ p <= last
      /\ m \in Nat /\ l <= m /\ m = l + a /\ p < m
      /\ base <= p /\ last = base + Kpool - 1 /\ N \in Nat
  <2>1. Kpool \in Nat \ {0} /\ o \in 0..(Kpool - 1)
    BY IndexerAssumed DEF Offsets
  <2>2. N \in Nat
    OBVIOUS
  <2> QED BY <2>1, <2>2
<1> USE DEF done, seeds
<1>1. s \in Nat /\ \A i \in 1..N : region[i].req = r <=> (s < i /\ i <= s + a)
  BY DEF ChunkAt
<1>2. \A t \in 1..a : s + t \in 1..N /\ region[s + t] = Token(r, l + t - 1, TRUE)
  <2>1. \A t \in 1..a : /\ s + t \in 1..N
                        /\ region[s + t] = Token(r, l + t - 1, t <= a)
    BY DEF ChunkAt
  <2>2. \A t \in 1..a : (t <= a) = TRUE
    OBVIOUS
  <2> QED BY <2>1, <2>2
<1>3. ps[j] = IF done = {} THEN pools[r][j]
              ELSE [oo \in Offsets |-> region[Max(done) - (Kpool - 1) + oo]]
  BY DEF PrefillPool
<1>4. tl[o] = IF seeds = {} THEN tail[r][o] ELSE region[Max(seeds)]
  BY DEF PrefillTail
\* What is in the region is in the chunk.
<1>5. ASSUME NEW i \in 1..N, region[i].req = r
      PROVE  \E q \in Nat : /\ region[i].pos = q /\ l <= q /\ q < l + a /\ i = Place(s, l, q)
                            /\ region[i] = Token(r, q, TRUE)
  <2>1. s < i /\ i <= s + a /\ i \in Nat
    BY <1>1, <1>5
  <2>2. PICK t \in 1..a : /\ i = s + t /\ l + t - 1 \in Nat /\ l <= l + t - 1 /\ l + t - 1 < l + a
                          /\ Place(s, l, l + t - 1) = i
    <3>1. Counted(s, l, a, i)
      BY <1>1, <2>1, InChunkOnce
    <3> QED BY <3>1 DEF Counted
  <2> DEFINE q == l + t - 1
  <2>3. region[i] = Token(r, q, TRUE)
    BY <1>2, <2>2
  <2>4. q \in Nat /\ l <= q /\ q < l + a /\ i = Place(s, l, q)
    BY <2>2
  <2> HIDE DEF q
  <2>5. region[i].pos = q
    BY <2>3 DEF Token
  <2> QED BY <2>3, <2>4, <2>5
<1>6. done \subseteq 1..N /\ \A i \in done : region[i].req = r /\ region[i].pos = last
  <2>1. \A i \in Kpool..N : i \in 1..N
    BY <1>0
  <2>2. j * Kpool + Kpool - 1 = last
    BY DEF StartsAt
  <2> HIDE DEF last, N
  <2> QED BY <2>1, <2>2
<1>7. \A i \in seeds : i \in 1..N /\ region[i].req = r /\ region[i].pos % Kpool = o
  OBVIOUS
<1>8. \A i \in 1..N : (i \in Kpool..N /\ region[i].req = r /\ region[i].pos = last) => i \in done
  <2>1. j * Kpool + Kpool - 1 = last
    BY DEF StartsAt
  <2> HIDE DEF last, N
  <2> QED BY <2>1
<1>9. \A i \in 1..N : (/\ region[i].req = r /\ region[i].pos % Kpool = o
                       /\ i + Kpool > N \/ region[i + Kpool].req # r) => i \in seeds
  OBVIOUS
<1> HIDE DEF m, last, N, done, seeds
<1>10. ASSUME NEW q \in Nat, q >= l, q < l + a
       PROVE  Place(s, l, q) \in 1..N /\ region[Place(s, l, q)] = Token(r, q, TRUE)
  <2>1. PICK t \in 1..a : Place(s, l, q) = s + t /\ l + t - 1 = q
    <3>1. Reached(s, l, a, q)
      BY <1>1, <1>10, InChunk
    <3> QED BY <3>1 DEF Reached
  <2>2. s + t \in 1..N /\ region[s + t] = Token(r, l + t - 1, TRUE)
    BY <1>2
  <2> QED BY <2>1, <2>2
<1>11. CASE last < m
  <2>0. KeyOf(r, p, j, o, ps, tl, l + a) <=> ps[j][o] = Token(r, p, TRUE)
    <3>1. j * Kpool + Kpool - 1 < l + a
      BY <1>0, <1>11 DEF StartsAt
    <3> QED BY <3>1, Zenon DEF KeyOf
  <2>1. CASE last < l
    <3>1. done = {}
      <4> SUFFICES ASSUME NEW i \in done PROVE FALSE
        OBVIOUS
      <4>1. i \in 1..N /\ region[i].req = r /\ region[i].pos = last
        BY <1>6
      <4>2. l <= last
        BY <1>5, <4>1
      <4> QED BY <1>0, <2>1, <4>2
    <3>2. p < l
      BY <1>0, <2>1
    <3>3. j * Kpool + Kpool - 1 < l
      BY <1>0, <2>1 DEF StartsAt
    <3>4. pools[r][j][o] = Token(r, p, TRUE)
      BY <3>2, <3>3, Zenon DEF KeyOf
    <3> QED BY <1>3, <2>0, <3>1, <3>4
  <2>2. CASE ~(last < l)
    <3>1. base >= l
      <4>1. base + Kpool - 1 >= l
        BY <1>0, <2>2
      <4> QED BY <1>0, <4>1, Boundary DEF StartsAt
    <3>2. p >= l
      BY <1>0, <3>1
    <3> DEFINE e == Place(s, l, last)
    <3>4. e >= Kpool /\ \A oo \in 0..(Kpool - 1) : e - (Kpool - 1) + oo = Place(s, l, base + oo)
      <4>1. last \in Nat /\ last = base + Kpool - 1
        BY <1>0
      <4>2. Preceded(s, l, base, last, Kpool)
        BY <1>0, <1>1, <3>1, <4>1, PoolInChunk
      <4> QED BY <4>2 DEF Preceded
    <3>5. e \in 1..N /\ region[e] = Token(r, last, TRUE)
      <4>1. last \in Nat /\ last >= l /\ last < l + a
        BY <1>0, <1>11, <2>2
      <4> QED BY <1>10, <4>1
    <3> HIDE DEF e
    <3>6. e \in Kpool..N /\ region[e].req = r /\ region[e].pos = last
      <4>1. region[e].req = r /\ region[e].pos = last
        BY <3>5 DEF Token
      <4>2. e \in Kpool..N
        BY <1>0, <3>4, <3>5
      <4> QED BY <4>1, <4>2
    <3>7. e \in done
      BY <1>8, <3>5, <3>6
    <3>8. \A i \in done : i = e
      <4> SUFFICES ASSUME NEW i \in done PROVE i = e
        OBVIOUS
      <4>1. i \in 1..N /\ region[i].req = r /\ region[i].pos = last
        BY <1>6
      <4> QED BY <1>5, <4>1 DEF e
    <3>9. done = {e} /\ e \in Nat
      <4>1. e \in Nat
        BY <1>0, <3>5
      <4> QED BY <3>7, <3>8, <4>1
    <3>10. Max(done) = e
      BY <3>9, MaxOfOne
    <3>11. ps[j][o] = region[e - (Kpool - 1) + o]
      BY <1>3, <3>9, <3>10
    <3>12. e - (Kpool - 1) + o = Place(s, l, p)
      <4>1. o \in 0..(Kpool - 1) /\ base + o = p
        BY <1>0
      <4> QED BY <3>4, <4>1
    <3>13. region[Place(s, l, p)] = Token(r, p, TRUE)
      BY <1>10, <3>2
    <3> QED BY <2>0, <3>11, <3>12, <3>13
  <2> QED BY <2>1, <2>2
<1>12. CASE ~(last < m)
  <2>0. KeyOf(r, p, j, o, ps, tl, l + a) <=> tl[o] = Token(r, p, TRUE)
    <3>1. ~(j * Kpool + Kpool - 1 < l + a)
      BY <1>0, <1>12 DEF StartsAt
    <3> QED BY <3>1, Zenon DEF KeyOf
  <2>1. p >= l
    <3> SUFFICES ASSUME ~(p >= l) PROVE FALSE
      OBVIOUS
    <3>1. base < l
      BY <1>0
    <3>2. base + Kpool - 1 < l
      BY <1>0, <3>1, Boundary DEF StartsAt
    <3> QED BY <1>0, <1>12, <3>2
  <2> DEFINE e == Place(s, l, p)
  <2>2. e \in 1..N /\ region[e] = Token(r, p, TRUE)
    BY <1>10, <2>1
  <2>3. region[e].req = r /\ region[e].pos = p
    BY <2>2 DEF Token
  <2>4. p % Kpool = o
    <3>1. p = j * Kpool + o /\ j \in Int /\ o \in 0..(Kpool - 1)
      BY <1>0 DEF StartsAt
    <3> QED BY <1>0, <3>1, DividedOnce
  <2>5. e + Kpool > N \/ region[e + Kpool].req # r
    <3>1. ~(base + Kpool - 1 < l + a)
      BY <1>0, <1>12
    <3>2. p >= base
      BY <1>0
    <3>3. ~(e + Kpool <= s + a) /\ e + Kpool \in Nat /\ e + Kpool >= 1
      BY <1>0, <1>1, <2>1, <3>1, <3>2, PastChunk
    <3> HIDE DEF e
    <3>4. CASE e + Kpool <= N
      <4> DEFINE f == e + Kpool
      <4>1. f \in 1..N /\ ~(f <= s + a)
        BY <1>0, <3>3, <3>4
      <4> HIDE DEF f
      <4>2. region[f].req # r
        BY <1>1, <4>1
      <4> QED BY <4>2 DEF f
    <3>5. CASE ~(e + Kpool <= N)
      BY <1>0, <3>3, <3>5
    <3> QED BY <3>4, <3>5
  <2> HIDE DEF e
  <2>6. e \in seeds
    BY <1>9, <2>2, <2>3, <2>4, <2>5
  <2>7. \A i \in seeds : i \in Nat /\ i \in 0..N /\ i <= e
    <3> SUFFICES ASSUME NEW i \in seeds PROVE i \in Nat /\ i \in 0..N /\ i <= e
      OBVIOUS
    <3>1. i \in 1..N /\ region[i].req = r /\ region[i].pos % Kpool = o
      BY <1>7
    <3>2. PICK q \in Nat : region[i].pos = q /\ l <= q /\ q < l + a /\ i = Place(s, l, q)
      BY <1>5, <3>1
    <3>3. ~(p < q)
      <4> SUFFICES ASSUME p < q PROVE FALSE
        OBVIOUS
      <4>1. p % Kpool = q % Kpool
        BY <2>4, <3>1, <3>2
      <4>2. p + Kpool <= q
        BY <1>0, <3>2, <4>1, Congruent
      <4>3. p + Kpool > last
        BY <1>0
      <4> QED BY <1>0, <1>12, <3>2, <4>2, <4>3
    <3>4. i <= e
      BY <1>1, <3>2, <3>3, PlacesGrow DEF e
    <3>5. i \in Nat /\ i \in 0..N
      BY <1>0, <3>1
    <3> QED BY <3>4, <3>5
  <2>8. Max(seeds) \in seeds /\ \A u \in seeds : Max(seeds) >= u
    <3>1. seeds \in SUBSET (0..N) /\ seeds # {} /\ N \in Nat
      BY <1>0, <2>6, <2>7
    <3> QED BY <3>1, MaxIs
  <2>9. Max(seeds) = e
    <3>1. Max(seeds) \in Nat /\ Max(seeds) <= e
      BY <2>7, <2>8
    <3>2. Max(seeds) >= e /\ e \in Nat
      BY <2>6, <2>7, <2>8
    <3> QED BY <3>1, <3>2
  <2> QED BY <1>4, <2>0, <2>2, <2>6, <2>9
<1> QED
  BY <1>11, <1>12

LEMMA PrefillKeeps ==
  ASSUME IndexerAssumption, NEW r \in Requests, len[r] \in Nat, AtBoundary(len[r]),
         NEW n, NEW kept, n[r] \in Nat, kept[r] = n[r],
         KeysOf(r, pools[r], tail[r], spoiled[r], len[r]),
         NEW region, region \in Seq(Toks), NEW s, ChunkAt(region, r, s, n, kept),
         NEW ps, \A j \in Pools : ps[j] = PrefillPool(region, r, j, pools[r][j]),
         NEW tl, \A o \in Offsets : tl[o] = PrefillTail(region, r, o, tail[r][o]),
         NEW sp, spoiled[r] \subseteq sp
  PROVE  KeysOf(r, ps, tl, sp, len[r] + kept[r])
<1> SUFFICES ASSUME NEW p \in 0..(MaxLen - 1), p < len[r] + kept[r], p \div Kpool \notin sp
             PROVE  KeyOf(r, p, p \div Kpool, p % Kpool, ps, tl, len[r] + kept[r])
  <2>1. len[r] + kept[r] \in Nat
    OBVIOUS
  <2> QED BY <2>1, KeysOfIs
<1> DEFINE j == p \div Kpool
           o == p % Kpool
           base == j * Kpool
<1>1. p \in Nat /\ j \in Nat /\ j \in Pools /\ o \in Offsets /\ base \in Nat /\ p = base + o
  BY PlaceIs
<1>2. p < len[r] => KeyOf(r, p, j, o, pools[r], tail[r], len[r])
  BY KeysOfIs
<1> HIDE DEF j, o
<1>5. ps[j] = PrefillPool(region, r, j, pools[r][j]) /\ tl[o] = PrefillTail(region, r, o, tail[r][o])
  BY <1>1
<1>6. StartsAt(j, base)
  BY DEF StartsAt
<1> HIDE DEF base
<1>7. KeyOf(r, p, j, o, ps, tl, len[r] + kept[r])
  <2>1. PICK l : l = len[r]
    OBVIOUS
  <2>2. PICK a : a = n[r]
    OBVIOUS
  <2>4. /\ l \in Nat /\ a \in Nat /\ kept[r] = a /\ p < l + a /\ AtBoundary(l)
        /\ (p < l => KeyOf(r, p, j, o, pools[r], tail[r], l))
    BY <1>2, <2>1, <2>2
  <2>5. KeyOf(r, p, j, o, ps, tl, l + a)
    BY <1>1, <1>5, <1>6, <2>1, <2>2, <2>4, PrefillKeepsOne
  <2> QED BY <2>1, <2>4, <2>5
<1> QED
  BY <1>7 DEF j, o

\* A request without tokens in the batch keeps its keys.
LEMMA IdleKeeps ==
  ASSUME IndexerAssumption, NEW r \in Requests,
         NEW region \in Seq(Toks), \A i \in 1..Len(region) : region[i].req # r,
         NEW ps, \A j \in Pools : ps[j] = PrefillPool(region, r, j, pools[r][j]),
         NEW tl, \A o \in Offsets : tl[o] = PrefillTail(region, r, o, tail[r][o])
  PROVE  /\ \A j \in Pools : ps[j] = pools[r][j]
         /\ \A o \in Offsets : tl[o] = tail[r][o]
<1>1. ASSUME NEW j \in Pools PROVE ps[j] = pools[r][j]
  <2> DEFINE done == {i \in Kpool..Len(region) :
                        /\ region[i].req = r
                        /\ region[i].pos = j * Kpool + Kpool - 1}
  <2>1. ps[j] = IF done = {} THEN pools[r][j]
                ELSE [oo \in Offsets |-> region[Max(done) - (Kpool - 1) + oo]]
    BY DEF PrefillPool
  <2>2. \A i \in Kpool..Len(region) : i \in 1..Len(region)
    BY IndexerAssumed
  <2>3. done = {}
    BY <2>2
  <2> QED BY <2>1, <2>3
<1>2. ASSUME NEW o \in Offsets PROVE tl[o] = tail[r][o]
  <2> DEFINE seeds == {i \in 1..Len(region) :
                         /\ region[i].req = r /\ region[i].pos % Kpool = o
                         /\ i + Kpool > Len(region) \/ region[i + Kpool].req # r}
  <2>1. tl[o] = IF seeds = {} THEN tail[r][o] ELSE region[Max(seeds)]
    BY DEF PrefillTail
  <2>2. seeds = {}
    OBVIOUS
  <2> QED BY <2>1, <2>2
<1> QED
  BY <1>1, <1>2

\* The same keys at the same places are right as they were.
LEMMA SameKeys ==
  ASSUME IndexerAssumption, NEW r \in Requests, NEW l \in Nat, NEW ps, NEW tl, NEW sp,
         KeysOf(r, pools[r], tail[r], spoiled[r], l), spoiled[r] \subseteq sp,
         \A j \in Pools : ps[j] = pools[r][j], \A o \in Offsets : tl[o] = tail[r][o]
  PROVE  KeysOf(r, ps, tl, sp, l)
<1> SUFFICES ASSUME NEW p \in 0..(MaxLen - 1), p < l, p \div Kpool \notin sp
             PROVE  KeyOf(r, p, p \div Kpool, p % Kpool, ps, tl, l)
  BY KeysOfIs
<1> DEFINE j == p \div Kpool
           o == p % Kpool
<1>1. j \in Pools /\ o \in Offsets
  BY PlaceIs
<1>2. KeyOf(r, p, j, o, pools[r], tail[r], l)
  BY KeysOfIs
<1> HIDE DEF j, o
<1>3. ps[j] = pools[r][j] /\ tl[o] = tail[r][o]
  BY <1>1
<1>4. KeyOf(r, p, j, o, ps, tl, l)
  BY <1>2, <1>3 DEF KeyOf
<1> QED
  BY <1>4 DEF j, o

-----------------------------------------------------------------------------
(* A pass.                                                                 *)

\* Where row b of the grid of a pass is.
RowAt(n, kept, D, r) ==
  Grouped(Chunks(D, n, kept), LensOf(D, Len(D), n), Nothing)
    [CHOOSE i \in 1..Len(D) : D[i] = r]

LEMMA PassIs ==
  ASSUME NEW n, NEW kept, NEW D, NEW P, NEW flatten, Pass(n, kept, D, P, flatten)
  PROVE  /\ pools' = [r \in Requests |-> [j \in Pools |->
                        IF r \in Decodes(n)
                        THEN DecodePool(RowAt(n, kept, D, r), r, j, pools[r][j], tail[r])
                        ELSE PrefillPool(Chunks(P, n, kept), r, j, pools[r][j])]]
         /\ tail' = [r \in Requests |-> [o \in Offsets |->
                       IF r \in Decodes(n) THEN DecodeTail(RowAt(n, kept, D, r), r, o, tail[r])
                       ELSE PrefillTail(Chunks(P, n, kept), r, o, tail[r][o])]]
         /\ len' = [r \in Requests |-> len[r] + kept[r]]
         /\ spoiled' = [r \in Requests |->
                          spoiled[r] \cup (IF Spoils(r, n[r], kept[r])
                                           THEN {(len[r] + kept[r]) \div Kpool} ELSE {})]
         /\ gen' = gen /\ prompt' = prompt
BY DEF Pass, RowAt, LensOf

LEMMA PassWrites ==
  ASSUME NEW n, NEW kept, NEW D, NEW P, NEW flatten, Pass(n, kept, D, P, flatten), NEW r \in Requests
  PROVE  /\ r \in Decodes(n) =>
              /\ \A j \in Pools : pools'[r][j] =
                                    DecodePool(RowAt(n, kept, D, r), r, j, pools[r][j], tail[r])
              /\ \A o \in Offsets : tail'[r][o] = DecodeTail(RowAt(n, kept, D, r), r, o, tail[r])
         /\ r \notin Decodes(n) =>
              /\ \A j \in Pools : pools'[r][j] =
                                    PrefillPool(Chunks(P, n, kept), r, j, pools[r][j])
              /\ \A o \in Offsets : tail'[r][o] = PrefillTail(Chunks(P, n, kept), r, o, tail[r][o])
         /\ len'[r] = len[r] + kept[r]
         /\ spoiled[r] \subseteq spoiled'[r]
         /\ Spoils(r, n[r], kept[r]) => (len[r] + kept[r]) \div Kpool \in spoiled'[r]
         /\ gen' = gen /\ prompt' = prompt
<1>2. /\ len' = [rr \in Requests |-> len[rr] + kept[rr]]
      /\ spoiled' = [rr \in Requests |->
                       spoiled[rr] \cup (IF Spoils(rr, n[rr], kept[rr])
                                         THEN {(len[rr] + kept[rr]) \div Kpool} ELSE {})]
      /\ gen' = gen /\ prompt' = prompt
  BY PassIs
<1>3. /\ len'[r] = len[r] + kept[r]
      /\ spoiled[r] \subseteq spoiled'[r]
      /\ Spoils(r, n[r], kept[r]) => (len[r] + kept[r]) \div Kpool \in spoiled'[r]
  BY <1>2
<1>4. /\ pools'[r] = [j \in Pools |->
                        IF r \in Decodes(n)
                        THEN DecodePool(RowAt(n, kept, D, r), r, j, pools[r][j], tail[r])
                        ELSE PrefillPool(Chunks(P, n, kept), r, j, pools[r][j])]
      /\ tail'[r] = [o \in Offsets |->
                       IF r \in Decodes(n) THEN DecodeTail(RowAt(n, kept, D, r), r, o, tail[r])
                       ELSE PrefillTail(Chunks(P, n, kept), r, o, tail[r][o])]
  <2>1. /\ pools' = [rr \in Requests |-> [j \in Pools |->
                       IF rr \in Decodes(n)
                       THEN DecodePool(RowAt(n, kept, D, rr), rr, j, pools[rr][j], tail[rr])
                       ELSE PrefillPool(Chunks(P, n, kept), rr, j, pools[rr][j])]]
        /\ tail' = [rr \in Requests |-> [o \in Offsets |->
                      IF rr \in Decodes(n) THEN DecodeTail(RowAt(n, kept, D, rr), rr, o, tail[rr])
                      ELSE PrefillTail(Chunks(P, n, kept), rr, o, tail[rr][o])]]
    BY PassIs
  <2> QED BY <2>1
<1> QED
  BY <1>2, <1>3, <1>4

\* What the proofs need of the types.
Lengths == /\ gen \in [Requests -> 0..MaxGen] /\ prompt \in [Requests -> 0..MaxLen]
           /\ len \in [Requests -> 0..MaxLen]

\* A prompt is computed up to a pool boundary or to its end.
Aligned == \A r \in Requests : len[r] < prompt[r] => AtBoundary(len[r])

LEMMA PassKeepsKeys ==
  ASSUME IndexerAssumption, Lengths, Aligned, KeysRight,
         NEW n, NEW kept, Scheduled(n, kept),
         NEW D \in SetToSeqs(Decodes(n)), NEW P \in SetToSeqs(Prefills(n)), NEW flatten,
         Pass(n, kept, D, P, flatten)
  PROVE  KeysRight'
<1>0. /\ n \in [Requests -> Nat] /\ kept \in [Requests -> Nat]
      /\ gen \in [Requests -> Nat] /\ len \in [Requests -> Nat]
      /\ Decodes(n) \in SUBSET Requests /\ Prefills(n) \in SUBSET Requests
  <2>1. MaxLen \in Nat /\ MaxGen \in Nat
    BY IndexerAssumed
  <2> QED BY <2>1 DEF Lengths, Scheduled, Decodes, Prefills
<1>1. \A r \in Requests : KeysOf(r, pools[r], tail[r], spoiled[r], len[r])
  BY KeysRightIs
<1> DEFINE region == Chunks(P, n, kept)
<1>2. /\ region \in Seq(Toks)
      /\ \A i \in 1..Len(region) : region[i].req \in Prefills(n)
      /\ \A r \in Prefills(n) : \E s : ChunkAt(region, r, s, n, kept)
  <2>1. Ordered(P, Cardinality(Prefills(n)), Prefills(n))
    BY <1>0, OrderIs
  <2> QED BY <1>0, <2>1, RegionIs
<1>3. ASSUME NEW r \in Requests
      PROVE  KeysOf(r, pools'[r], tail'[r], spoiled'[r], len'[r])
  <2>1. /\ r \in Decodes(n) =>
             /\ \A j \in Pools : pools'[r][j] =
                                   DecodePool(RowAt(n, kept, D, r), r, j, pools[r][j], tail[r])
             /\ \A o \in Offsets : tail'[r][o] = DecodeTail(RowAt(n, kept, D, r), r, o, tail[r])
        /\ r \notin Decodes(n) =>
             /\ \A j \in Pools : pools'[r][j] = PrefillPool(region, r, j, pools[r][j])
             /\ \A o \in Offsets : tail'[r][o] = PrefillTail(region, r, o, tail[r][o])
        /\ len'[r] = len[r] + kept[r]
        /\ spoiled[r] \subseteq spoiled'[r]
        /\ Spoils(r, n[r], kept[r]) => (len[r] + kept[r]) \div Kpool \in spoiled'[r]
    BY PassWrites
  <2>2. n[r] \in Nat /\ kept[r] \in Nat /\ kept[r] <= n[r] /\ len[r] \in Nat
    BY <1>0 DEF Scheduled
  <2>3. PICK ps, tl, sp, l : ps = pools'[r] /\ tl = tail'[r] /\ sp = spoiled'[r] /\ l = len'[r]
    OBVIOUS
  <2>4. KeysOf(r, pools[r], tail[r], spoiled[r], len[r])
    BY <1>1
  <2> HIDE DEF region
  <2>5. CASE r \in Decodes(n)
    <3> DEFINE row == RowAt(n, kept, D, r)
    <3>1. PICK w : RowOf(row, r, w, n, kept)
      <4>1. Ordered(D, Cardinality(Decodes(n)), Decodes(n))
        BY <1>0, OrderIs
      <4>2. Len(D) = Cardinality(Decodes(n))
        BY <4>1 DEF Ordered
      <4>3. PICK m : m = Len(D)
        OBVIOUS
      <4>4. Ordered(D, m, Decodes(n))
        BY <4>1, <4>2, <4>3
      <4>5. PICK cells : cells = Grouped(Chunks(D, n, kept), LensOf(D, m, n), Nothing)
        OBVIOUS
      <4>6. \E w : RowOf(cells[CHOOSE i \in 1..Len(D) : D[i] = r], r, w, n, kept)
        BY <1>0, <2>5, <4>4, <4>5, RowIs
      <4>7. row = cells[CHOOSE i \in 1..Len(D) : D[i] = r]
        BY <4>3, <4>5 DEF RowAt
      <4> QED BY <4>6, <4>7
    <3>2. /\ \A j \in Pools : ps[j] = DecodePool(row, r, j, pools[r][j], tail[r])
          /\ \A o \in Offsets : tl[o] = DecodeTail(row, r, o, tail[r])
          /\ spoiled[r] \subseteq sp
          /\ Spoils(r, n[r], kept[r]) => (len[r] + kept[r]) \div Kpool \in sp
      BY <2>1, <2>3, <2>5
    <3> HIDE DEF row
    <3>3. KeysOf(r, ps, tl, sp, len[r] + kept[r])
      BY <2>2, <2>4, <3>1, <3>2, DecodeKeeps
    <3> QED BY <2>1, <2>3, <3>3
  <2>6. CASE r \notin Decodes(n)
    <3>1. /\ \A j \in Pools : ps[j] = PrefillPool(region, r, j, pools[r][j])
          /\ \A o \in Offsets : tl[o] = PrefillTail(region, r, o, tail[r][o])
          /\ spoiled[r] \subseteq sp
      BY <2>1, <2>3, <2>6
    <3>2. CASE r \in Prefills(n)
      <4>1. PICK s : ChunkAt(region, r, s, n, kept)
        BY <1>2, <3>2
      <4>2. AtBoundary(len[r]) /\ kept[r] = n[r]
        <5>1. len[r] < prompt[r]
          BY <3>2 DEF Scheduled
        <5>2. n[r] > 0
          BY <2>2, <3>2, IndexerAssumed DEF Prefills
        <5> QED BY <5>1, <5>2 DEF Aligned, Scheduled
      <4>3. KeysOf(r, ps, tl, sp, len[r] + kept[r])
        BY <1>2, <2>2, <2>4, <3>1, <4>1, <4>2, PrefillKeeps
      <4> QED BY <2>1, <2>3, <4>3
    <3>3. CASE r \notin Prefills(n)
      <4>1. \A i \in 1..Len(region) : region[i].req # r
        BY <1>2, <3>3
      <4>2. /\ \A j \in Pools : ps[j] = pools[r][j]
            /\ \A o \in Offsets : tl[o] = tail[r][o]
        BY <1>2, <3>1, <4>1, IdleKeeps
      <4>3. kept[r] = 0
        <5>1. n[r] = 0
          BY <2>2, <2>6, <3>3, IndexerAssumed DEF Decodes, Prefills
        <5> QED BY <2>2, <5>1
      <4>4. KeysOf(r, ps, tl, sp, len[r])
        BY <2>2, <2>4, <3>1, <4>2, SameKeys
      <4>5. l = len[r]
        BY <2>1, <2>2, <2>3, <4>3
      <4> QED BY <2>3, <4>4, <4>5
    <3> QED BY <3>2, <3>3
  <2> QED BY <2>5, <2>6
<1>4. \A r, p, k : Token(r, p, k)' = Token(r, p, k)
  <2>1. gen' = gen
    BY DEF Pass
  <2> QED BY <2>1 DEF Token
<1> QED
  BY <1>3, <1>4 DEF KeysRight, KeysOf

\* A forward pass is one of a step the scheduler made.
Passed ==
  \E n, kept, flatten : /\ Scheduled(n, kept)
                        /\ \E D \in SetToSeqs(Decodes(n)), P \in SetToSeqs(Prefills(n)) :
                             Pass(n, kept, D, P, flatten)

LEMMA ForwardIs ==
  ASSUME IndexerAssumption, Lengths, Forward
  PROVE  Passed
<1>1. PICK n \in [Requests -> 0..MaxLen], keep \in [Requests -> 1..(NumSpec + 1)] :
        LET kept == [r \in Requests |->
                       IF n[r] = 0 \/ len[r] < prompt[r] THEN n[r] ELSE keep[r]] IN
        /\ \A r \in Requests :
             \/ n[r] > 0 /\ kept[r] <= n[r] /\ Schedulable(r, n[r])
                  /\ (len[r] < prompt[r] => keep[r] = 1)
             \/ n[r] = 0 /\ keep[r] = 1
        /\ \E D \in SetToSeqs(Decodes(n)), P \in SetToSeqs(Prefills(n)), flatten \in Flattens :
             Pass(n, kept, D, P, flatten)
  BY DEF Forward
<1> DEFINE kept == [r \in Requests |->
                      IF n[r] = 0 \/ len[r] < prompt[r] THEN n[r] ELSE keep[r]]
<1>2. /\ \A r \in Requests :
           \/ n[r] > 0 /\ kept[r] <= n[r] /\ Schedulable(r, n[r])
           \/ n[r] = 0
      /\ \E D \in SetToSeqs(Decodes(n)), P \in SetToSeqs(Prefills(n)), flatten \in Flattens :
           Pass(n, kept, D, P, flatten)
  BY <1>1
<1>0. MaxLen \in Nat /\ NumSpec \in Nat /\ Kpool \in Nat \ {0}
  BY IndexerAssumed
<1>3. ASSUME NEW r \in Requests
      PROVE  /\ n[r] \in Nat /\ kept[r] \in Nat
             /\ kept[r] <= n[r] /\ len[r] + n[r] <= MaxLen
             /\ (n[r] > 0 /\ len[r] < prompt[r]) =>
                  /\ kept[r] = n[r]
                  /\ len[r] + n[r] = prompt[r] \/ (len[r] + n[r]) % Kpool = 0
             /\ r \in Prefills(n) => len[r] < prompt[r]
  <2>1. n[r] \in Nat /\ keep[r] \in Nat /\ len[r] \in 0..MaxLen /\ prompt[r] \in 0..MaxLen
    BY <1>0 DEF Lengths
  <2>2. kept[r] = IF n[r] = 0 \/ len[r] < prompt[r] THEN n[r] ELSE keep[r]
    OBVIOUS
  <2> HIDE DEF kept
  <2>3. CASE n[r] = 0
    BY <1>0, <2>1, <2>2, <2>3 DEF Prefills
  <2>4. CASE n[r] # 0
    <3>1. kept[r] <= n[r] /\ Schedulable(r, n[r])
      BY <1>2, <2>4
    <3>2. /\ len[r] + n[r] <= MaxLen
          /\ len[r] < prompt[r] => (len[r] + n[r] = prompt[r] \/ (len[r] + n[r]) % Kpool = 0)
          /\ ~(len[r] < prompt[r]) => n[r] <= NumSpec + 1
      BY <3>1 DEF Schedulable
    <3>3. r \in Prefills(n) => len[r] < prompt[r]
      BY <1>0, <2>1, <3>2 DEF Prefills
    <3> QED BY <2>1, <2>2, <3>1, <3>2, <3>3
  <2> QED BY <2>3, <2>4
<1>4. Scheduled(n, kept)
  <2>1. kept \in [Requests -> Nat]
    <3>1. \A r \in Requests : kept[r] \in Nat
      BY <1>3
    <3> QED BY <3>1
  <2> HIDE DEF kept
  <2> QED BY <1>3, <2>1 DEF Scheduled
<1> HIDE DEF kept
<1> QED
  BY <1>2, <1>4 DEF Passed

LEMMA LengthsKept ==
  ASSUME IndexerAssumption, Lengths, Aligned, Next
  PROVE  Lengths' /\ Aligned'
<1>0. MaxLen \in Nat /\ MaxGen \in Nat /\ Prompts \subseteq 1..MaxLen /\ Kpool \in Nat \ {0}
  BY IndexerAssumed
<1>1. CASE Forward
  <2>1. PICK n, kept, flatten : /\ Scheduled(n, kept)
                                /\ \E D \in SetToSeqs(Decodes(n)), P \in SetToSeqs(Prefills(n)) :
                                     Pass(n, kept, D, P, flatten)
    BY <1>1, ForwardIs DEF Passed
  <2>2. /\ len' = [r \in Requests |-> len[r] + kept[r]] /\ gen' = gen /\ prompt' = prompt
    BY <2>1 DEF Pass
  <2>3. ASSUME NEW r \in Requests
        PROVE  /\ len[r] + kept[r] \in 0..MaxLen
               /\ len[r] + kept[r] < prompt[r] => AtBoundary(len[r] + kept[r])
    <3>1. /\ len[r] \in Nat /\ kept[r] \in Nat /\ n[r] \in Nat /\ kept[r] <= n[r]
          /\ len[r] + n[r] <= MaxLen /\ prompt[r] \in Nat
          /\ (n[r] > 0 /\ len[r] < prompt[r]) =>
               /\ kept[r] = n[r]
               /\ len[r] + n[r] = prompt[r] \/ (len[r] + n[r]) % Kpool = 0
      BY <1>0, <2>1 DEF Lengths, Scheduled
    <3>2. len[r] + kept[r] \in 0..MaxLen
      BY <1>0, <3>1
    <3>3. ASSUME len[r] + kept[r] < prompt[r] PROVE AtBoundary(len[r] + kept[r])
      <4>1. len[r] < prompt[r]
        BY <3>1, <3>3
      <4>2. CASE n[r] = 0
        <5>1. len[r] + kept[r] = len[r]
          BY <3>1, <4>2
        <5> QED BY <4>1, <5>1 DEF Aligned
      <4>3. CASE n[r] # 0
        <5>1. kept[r] = n[r] /\ (len[r] + n[r] = prompt[r] \/ (len[r] + n[r]) % Kpool = 0)
          BY <3>1, <4>1, <4>3
        <5>2. (len[r] + kept[r]) % Kpool = 0
          BY <3>1, <3>3, <5>1
        <5> QED BY <5>2 DEF AtBoundary
      <4> QED BY <4>2, <4>3
    <3> QED BY <3>2, <3>3
  <2>4. Lengths'
    BY <2>2, <2>3 DEF Lengths
  <2>5. Aligned'
    BY <2>2, <2>3 DEF Aligned, AtBoundary
  <2> QED BY <2>4, <2>5
<1>2. ASSUME NEW r \in Requests, NewRequest(r)
      PROVE  Lengths' /\ Aligned'
  <2>1. /\ gen[r] < MaxGen /\ gen' = [gen EXCEPT ![r] = @ + 1]
        /\ \E p \in Prompts : prompt' = [prompt EXCEPT ![r] = p]
        /\ len' = [len EXCEPT ![r] = 0]
    BY <1>2 DEF NewRequest
  <2>2. Lengths'
    BY <1>0, <2>1 DEF Lengths
  <2>3. ASSUME NEW q \in Requests, len'[q] < prompt'[q] PROVE AtBoundary(len'[q])
    <3>1. CASE q = r
      <4>1. len'[q] = 0 /\ 0 % Kpool = 0
        BY <1>0, <2>1, <3>1 DEF Lengths
      <4> QED BY <4>1 DEF AtBoundary
    <3>2. CASE q # r
      <4>1. len'[q] = len[q] /\ prompt'[q] = prompt[q]
        BY <2>1, <3>2 DEF Lengths
      <4> QED BY <2>3, <4>1 DEF Aligned
    <3> QED BY <3>1, <3>2
  <2> QED BY <2>2, <2>3 DEF Aligned, AtBoundary
<1> QED
  BY <1>1, <1>2 DEF Next

-----------------------------------------------------------------------------
(* The rows of a pass.                                                     *)

\* The tokens of a batch.
BatchTokens == [req : Requests, gen : 0..MaxGen, pos : 0..(MaxLen - 1), kept : BOOLEAN]

LEMMA TokensAre ==
  ASSUME IndexerAssumption, Lengths, NEW n, NEW kept, Scheduled(n, kept),
         NEW r \in Requests, NEW t \in 1..n[r]
  PROVE  Token(r, len[r] + t - 1, t <= kept[r]) \in BatchTokens
<1>1. /\ gen[r] \in 0..MaxGen /\ len[r] \in Nat /\ n[r] \in Nat /\ len[r] + n[r] <= MaxLen
      /\ MaxLen \in Nat /\ kept[r] \in Nat
  BY IndexerAssumed DEF Lengths, Scheduled
<1>2. len[r] + t - 1 \in 0..(MaxLen - 1) /\ (t <= kept[r]) \in BOOLEAN
  BY <1>1
<1> QED
  BY <1>1, <1>2 DEF Token, BatchTokens

LEMMA ChunksAreTokens ==
  ASSUME IndexerAssumption, Lengths, NEW n, NEW kept, Scheduled(n, kept),
         NEW S \in SUBSET Requests, NEW order, NEW m, Ordered(order, m, S)
  PROVE  /\ Chunks(order, n, kept) \in Seq(BatchTokens)
         /\ Len(Chunks(order, n, kept)) = Start(LensOf(order, m, n), m + 1)
<1> DEFINE flat == Chunks(order, n, kept)
           L == LensOf(order, m, n)
<1>0. /\ n \in [Requests -> Nat] /\ kept \in [Requests -> Nat]
      /\ gen \in [Requests -> Nat] /\ len \in [Requests -> Nat]
  <2>1. MaxLen \in Nat /\ MaxGen \in Nat
    BY IndexerAssumed
  <2> QED BY <2>1 DEF Lengths, Scheduled
<1>1. m \in Nat /\ \A i \in 1..m : order[i] \in Requests
  BY DEF Ordered
<1>2. L \in [1..m -> Nat] /\ \A i \in 1..m : L[i] = n[order[i]]
  BY <1>0, <1>1 DEF LensOf
<1>3. BatchOf(flat, order, m, n, kept)
  BY <1>0, ChunksAre
<1>4. /\ flat \in Seq(Toks) /\ Len(flat) = Start(L, m + 1)
      /\ \A i \in 1..m : \A t \in 1..n[order[i]] :
           flat[Start(L, i) + t] = Token(order[i], len[order[i]] + t - 1, t <= kept[order[i]])
  BY <1>3 DEF BatchOf
<1> HIDE DEF flat, L
<1>5. ASSUME NEW k \in 1..Len(flat) PROVE flat[k] \in BatchTokens
  <2>1. PICK i \in 1..m : \E t \in 1..L[i] : k = Start(L, i) + t
    <3>1. k \in 1..Start(L, m + 1)
      BY <1>4
    <3> QED BY <1>1, <1>2, <3>1, Placed
  <2>2. PICK t \in 1..n[order[i]] : k = Start(L, i) + t
    BY <1>2, <2>1
  <2>3. flat[k] = Token(order[i], len[order[i]] + t - 1, t <= kept[order[i]])
    BY <1>4, <2>2
  <2>4. order[i] \in Requests
    BY <1>1
  <2> QED BY <2>3, <2>4, TokensAre
<1>6. flat \in Seq(BatchTokens)
  BY <1>4, <1>5
<1> QED
  BY <1>4, <1>6 DEF flat, L

\* What every row of the top-k buffer is: expanded at the length of its token.
GoodRows ==
  {row \in [req : Requests, pos : 0..(MaxLen - 1), kept : BOOLEAN, length : 1..MaxLen,
            all : BOOLEAN, keys : {"cache", "topk", "none"}] :
     row.length = row.pos + 1 /\ (row.all => row.length <= TopK)}

LEMMA RowIsGood ==
  ASSUME IndexerAssumption, NEW x \in BatchTokens, NEW all \in BOOLEAN,
         NEW keys \in {"cache", "topk", "none"}, all => LengthAt(x) <= TopK
  PROVE  Row(x, LengthAt(x), all, keys) \in GoodRows
<1>1. /\ x.req \in Requests /\ x.pos \in 0..(MaxLen - 1) /\ x.kept \in BOOLEAN
      /\ MaxLen \in Nat
  BY IndexerAssumed DEF BatchTokens
<1>2. x.pos + 1 \in 1..MaxLen
  BY <1>1
<1> DEFINE row == Row(x, LengthAt(x), all, keys)
<1>3. /\ row \in [req : Requests, pos : 0..(MaxLen - 1), kept : BOOLEAN, length : 1..MaxLen,
                  all : BOOLEAN, keys : {"cache", "topk", "none"}]
      /\ row.length = LengthAt(x) /\ row.pos = x.pos /\ row.all = all
  BY <1>1, <1>2 DEF Row, LengthAt
<1> HIDE DEF row
<1>4. row \in GoodRows
  BY <1>3 DEF GoodRows, LengthAt
<1> QED
  BY <1>4 DEF row

LEMMA PrefillRowsAre ==
  ASSUME IndexerAssumption, NEW region \in Seq(BatchTokens), NEW n
  PROVE  PrefillRows(region, n) \in Seq(GoodRows)
<1> DEFINE short == \A i \in 1..Len(region) : LengthAt(region[i]) <= TopK
           key(x) == IF short THEN "none" ELSE ChunkKeys(LengthAt(x) - len[x.req], n[x.req])
           N == Len(region)
<1>1. PrefillRows(region, n) = [i \in 1..N |-> Row(region[i], LengthAt(region[i]), short, key(region[i]))]
  BY DEF PrefillRows
<1>2. N \in Nat /\ \A i \in 1..N : region[i] \in BatchTokens
  OBVIOUS
<1>3. short \in BOOLEAN /\ \A i \in 1..N : short => LengthAt(region[i]) <= TopK
  OBVIOUS
<1>4. \A x : key(x) \in {"cache", "topk", "none"}
  BY DEF ChunkKeys
<1> HIDE DEF short, key, N
<1>5. \A i \in 1..N : Row(region[i], LengthAt(region[i]), short, key(region[i])) \in GoodRows
  BY <1>2, <1>3, <1>4, RowIsGood
<1> DEFINE s == [i \in 1..N |-> Row(region[i], LengthAt(region[i]), short, key(region[i]))]
<1>6. s \in [1..N -> GoodRows]
  BY <1>5
<1> HIDE DEF s
<1>7. s \in Seq(GoodRows)
  BY <1>2, <1>6, SeqIs
<1> QED
  BY <1>1, <1>7 DEF s

LEMMA DecodeRowsAre ==
  ASSUME IndexerAssumption, NEW m \in Nat \ {0}, NEW L \in [1..m -> Nat],
         NEW flat \in Seq(BatchTokens), Len(flat) = Start(L, m + 1),
         NEW batch, \A i \in 1..Len(flat) : batch[i] = flat[i]
  PROVE  DecodeRows(batch, L) \in Seq(GoodRows)
<1> DEFINE N == Len(flat)
           f == [i \in 1..N |-> LengthAt(batch[i])]
           s == [i \in 1..N |-> Row(batch[i], f[i], FALSE, "cache")]
<1>1. N \in Nat /\ SumFunction(L) = N
  <2>1. SumFunction(L) = Start(L, m + 1)
    BY StartIs
  <2> QED BY <2>1
<1>2. \A i \in 1..N : batch[i] \in BatchTokens
  OBVIOUS
<1>3. f \in [1..N -> Nat]
  <2>1. \A x \in BatchTokens : LengthAt(x) \in Nat
    BY IndexerAssumed DEF BatchTokens, LengthAt
  <2> QED BY <1>2, <2>1
<1> DEFINE cells == Grouped(f, L, 0)
<1>4. DecodeLens(batch, L) = cells
  BY <1>1 DEF DecodeLens
<1>5. \A i \in 1..N : f[i] = LengthAt(batch[i])
  OBVIOUS
<1>6. Len(flat) = N
  OBVIOUS
<1>7. Unpack(cells, L) = f /\ Len(f) = N
  <2> HIDE DEF f
  <2>1. f \in Seq(Nat) /\ Len(f) = N
    BY <1>1, <1>3, SeqIs
  <2>2. Len(f) = Start(L, m + 1)
    BY <1>6, <2>1
  <2>3. PICK w : GridOf(cells, f, L, m, w, 0)
    BY <2>2, GroupedIs
  <2> HIDE DEF cells
  <2>4. 0 \in Nat
    OBVIOUS
  <2> QED BY <2>1, <2>2, <2>3, <2>4, UnpackIs
<1>8. DecodeRows(batch, L) = [i \in 1..Len(Unpack(DecodeLens(batch, L), L)) |->
                                Row(batch[i], Unpack(DecodeLens(batch, L), L)[i], FALSE, "cache")]
  BY DEF DecodeRows
<1> HIDE DEF f, cells, N
<1>9. DecodeRows(batch, L) = s
  BY <1>4, <1>7, <1>8
<1>10. \A i \in 1..N : Row(batch[i], f[i], FALSE, "cache") \in GoodRows
  BY <1>2, <1>5, RowIsGood
<1>11. s \in [1..N -> GoodRows]
  BY <1>10
<1> HIDE DEF s
<1>12. s \in Seq(GoodRows)
  BY <1>1, <1>11, SeqIs
<1> QED
  BY <1>9, <1>12

LEMMA Widest ==
  ASSUME NEW m \in Nat \ {0}, NEW L \in [1..m -> Nat], NEW w \in Nat, \A i \in 1..m : L[i] <= w
  PROVE  m * Max(Range(L)) \in Nat /\ m * Max(Range(L)) <= m * w
<1> DEFINE h == Max(Range(L))
<1>1. h \in Nat /\ \E b \in 1..m : L[b] = h
  BY WidthIs
<1> HIDE DEF h
<1>2. h <= w
  BY <1>1
<1>3. h * m <= w * m
  BY <1>1, <1>2, Monotonic
<1>4. m * h = h * m /\ m * w = w * m /\ m * h \in Nat
  BY <1>1, ProductIsNat
<1> QED
  BY <1>3, <1>4 DEF h

\* The lengths at which a grid of decodes is expanded.
ReadIs(read, flat, k) ==
  /\ k \in Nat \ {0} /\ read \in [1..k -> Nat] /\ Len(read) = k
  /\ Len(flat) = Start(read, k + 1)
  /\ Len(read) * Max(Range(read)) \in Nat
  /\ Len(read) * Max(Range(read)) <= NumReqs * (NumSpec + 1)

LEMMA ReadFlattened ==
  ASSUME IndexerAssumption, NEW m \in Nat, m <= NumReqs, NEW L \in [1..m -> Nat],
         \A i \in 1..m : L[i] <= NumSpec + 1,
         NEW T, NEW flat \in Seq(T), flat # << >>, Len(flat) = Start(L, m + 1),
         NEW read, read = [i \in 1..Len(flat) |-> 1]
  PROVE  ReadIs(read, flat, Len(flat))
<1> DEFINE k == Len(flat)
<1>0. NumReqs \in Nat /\ NumSpec \in Nat
  BY IndexerAssumed
<1>1. k \in Nat \ {0} /\ k = Start(L, m + 1)
  OBVIOUS
<1> HIDE DEF k
<1>2. read \in [1..k -> Nat] /\ Len(read) = k /\ \A i \in 1..k : read[i] = 1
  <2>1. read = [i \in 1..k |-> 1]
    BY DEF k
  <2>2. read \in [1..k -> Nat]
    BY <2>1
  <2> QED BY <1>1, <2>1, <2>2, SeqIs
<1>3. Start(read, k + 1) = k
  <2>1. \A i \in 1..(k + 1) : Start(read, i) = (i - 1) * 1
    BY <1>1, <1>2, StartsEven
  <2>2. k + 1 \in 1..(k + 1) /\ ((k + 1) - 1) * 1 = k
    BY <1>1
  <2>3. Start(read, k + 1) = ((k + 1) - 1) * 1
    BY <2>1, <2>2
  <2> QED BY <2>2, <2>3
<1>4. k <= NumReqs * (NumSpec + 1)
  <2> DEFINE w == NumSpec + 1
  <2>1. w \in Nat
    BY <1>0
  <2> HIDE DEF w
  <2>2. \A i \in 1..m : L[i] <= w
    BY DEF w
  <2>3. \A i \in 1..(m + 1) : Start(L, i) <= (i - 1) * w
    BY <2>1, <2>2, StartsEven
  <2>4. m + 1 \in 1..(m + 1) /\ (m + 1) - 1 = m
    OBVIOUS
  <2>5. k <= m * w
    BY <1>1, <2>3, <2>4
  <2>6. m * w <= NumReqs * w /\ m * w \in Nat /\ NumReqs * w \in Nat
    BY <1>0, <2>1, Monotonic, ProductIsNat
  <2>7. k <= NumReqs * w
    BY <1>1, <2>5, <2>6
  <2> QED BY <2>7 DEF w
<1>5. Len(read) * Max(Range(read)) \in Nat /\ Len(read) * Max(Range(read)) <= NumReqs * (NumSpec + 1)
  <2>0. 1 \in Nat /\ \A i \in 1..k : read[i] <= 1
    BY <1>2
  <2>1. k * Max(Range(read)) \in Nat /\ k * Max(Range(read)) <= k * 1
    <3> HIDE DEF k
    <3> QED BY <1>1, <1>2, <2>0, Widest
  <2>2. k * 1 = k /\ NumReqs * (NumSpec + 1) \in Nat
    BY <1>0, <1>1, ProductIsNat
  <2> DEFINE g == k * Max(Range(read))
             b == NumReqs * (NumSpec + 1)
  <2>3. g \in Nat /\ g <= k /\ k <= b /\ b \in Nat
    BY <1>4, <2>1, <2>2
  <2> HIDE DEF g, b
  <2>4. g <= b
    BY <1>1, <2>3
  <2> QED BY <1>2, <2>3, <2>4 DEF g, b
<1> QED
  BY <1>1, <1>2, <1>3, <1>5 DEF ReadIs, k

LEMMA ReadGrouped ==
  ASSUME IndexerAssumption, NEW m \in Nat, m <= NumReqs, NEW L \in [1..m -> Nat],
         \A i \in 1..m : L[i] <= NumSpec + 1,
         NEW T, NEW flat \in Seq(T), flat # << >>, Len(flat) = Start(L, m + 1)
  PROVE  ReadIs(L, flat, m)
<1>0. NumReqs \in Nat /\ NumSpec \in Nat
  BY IndexerAssumed
<1>1. m # 0
  <2> SUFFICES ASSUME m = 0 PROVE FALSE
    OBVIOUS
  <2>1. Start(L, 1) = 0
    BY StartIs
  <2> QED BY <2>1
<1>2. Len(L) = m
  BY SeqIs
<1> DEFINE w == NumSpec + 1
           g == m * Max(Range(L))
<1>3. w \in Nat /\ \A i \in 1..m : L[i] <= w
  BY <1>0
<1> HIDE DEF w
<1>4. g \in Nat /\ g <= m * w
  BY <1>1, <1>3, Widest
<1> HIDE DEF g
<1>5. m * w <= NumReqs * w /\ m * w \in Nat /\ NumReqs * w \in Nat
  BY <1>0, <1>3, Monotonic, ProductIsNat
<1>6. g <= NumReqs * w
  BY <1>4, <1>5
<1> QED
  BY <1>1, <1>2, <1>4, <1>6 DEF ReadIs, g, w

LEMMA PassRows ==
  ASSUME IndexerAssumption, Lengths, NEW n, NEW kept, Scheduled(n, kept),
         NEW D \in SetToSeqs(Decodes(n)), NEW P \in SetToSeqs(Prefills(n)), NEW flatten,
         Pass(n, kept, D, P, flatten)
  PROVE  rows' \in Seq(GoodRows) /\ grid' \in Nat /\ grid' <= NumReqs * (NumSpec + 1)
<1> DEFINE flat == Chunks(D, n, kept)
           region == Chunks(P, n, kept)
           m == Len(D)
           L == LensOf(D, m, n)
           read == IF flatten THEN [i \in 1..Len(flat) |-> 1] ELSE L
<1>0. /\ Decodes(n) \in SUBSET Requests /\ Prefills(n) \in SUBSET Requests
      /\ NumReqs \in Nat /\ NumSpec \in Nat
  BY IndexerAssumed DEF Decodes, Prefills
<1>1. /\ rows' = (IF flat = << >> THEN << >> ELSE DecodeRows(flat \o region, read))
                 \o PrefillRows(region, n)
      /\ grid' = IF flat = << >> THEN 0 ELSE Len(read) * Max(Range(read))
  BY DEF Pass, LensOf
<1>2. Ordered(D, m, Decodes(n)) /\ Ordered(P, Cardinality(Prefills(n)), Prefills(n))
  <2>1. Ordered(D, Cardinality(Decodes(n)), Decodes(n))
    BY <1>0, OrderIs
  <2>2. m = Cardinality(Decodes(n))
    BY <2>1 DEF Ordered
  <2>3. Ordered(P, Cardinality(Prefills(n)), Prefills(n))
    BY <1>0, OrderIs
  <2> QED BY <2>1, <2>2, <2>3
<1>3. m \in Nat /\ m <= NumReqs /\ \A i \in 1..m : D[i] \in Decodes(n)
  BY <1>2 DEF Ordered
<1> HIDE DEF m
<1>4. flat \in Seq(BatchTokens) /\ Len(flat) = Start(L, m + 1)
  BY <1>0, <1>2, ChunksAreTokens
<1>5. region \in Seq(BatchTokens)
  BY <1>0, <1>2, ChunksAreTokens
<1>6. L \in [1..m -> Nat] /\ \A i \in 1..m : L[i] <= NumSpec + 1
  <2>1. \A i \in 1..m : n[D[i]] \in 1..(NumSpec + 1)
    BY <1>3 DEF Decodes
  <2>2. \A i \in 1..m : n[D[i]] \in Nat /\ n[D[i]] <= NumSpec + 1
    BY <1>0, <2>1
  <2> QED BY <2>2 DEF LensOf
<1>7. PrefillRows(region, n) \in Seq(GoodRows)
  BY <1>5, PrefillRowsAre
<1> HIDE DEF flat, region, L, read
<1>8. CASE flat = << >>
  <2>1. << >> \in Seq(GoodRows) /\ rows' = << >> \o PrefillRows(region, n) /\ grid' = 0
    BY <1>1, <1>8
  <2>2. NumReqs * (NumSpec + 1) \in Nat
    BY <1>0, ProductIsNat
  <2> DEFINE b == NumReqs * (NumSpec + 1)
             a == << >>
  <2> HIDE DEF b, a
  <2>3. a \o PrefillRows(region, n) \in Seq(GoodRows)
    BY <1>7, <2>1, ConcatProperties DEF a
  <2> QED BY <2>1, <2>2, <2>3 DEF a, b
<1>9. CASE flat # << >>
  <2>1. PICK k : ReadIs(read, flat, k)
    <3>1. CASE flatten
      <4>1. read = [i \in 1..Len(flat) |-> 1]
        BY <3>1 DEF read
      <4>2. ReadIs(read, flat, Len(flat))
        BY <1>3, <1>4, <1>6, <1>9, <4>1, ReadFlattened
      <4> QED BY <4>2
    <3>2. CASE ~flatten
      <4>1. read = L
        BY <3>2 DEF read
      <4>2. ReadIs(L, flat, m)
        BY <1>3, <1>4, <1>6, <1>9, ReadGrouped
      <4> QED BY <4>1, <4>2
    <3> QED BY <3>1, <3>2
  <2>2. k \in Nat \ {0} /\ read \in [1..k -> Nat] /\ Len(flat) = Start(read, k + 1)
    BY <2>1 DEF ReadIs
  <2>3. \A i \in 1..Len(flat) : (flat \o region)[i] = flat[i]
    BY <1>4, <1>5
  <2>4. DecodeRows(flat \o region, read) \in Seq(GoodRows)
    BY <1>4, <2>2, <2>3, DecodeRowsAre
  <2>5. rows' = DecodeRows(flat \o region, read) \o PrefillRows(region, n)
    BY <1>1, <1>9
  <2>6. DecodeRows(flat \o region, read) \o PrefillRows(region, n) \in Seq(GoodRows)
    BY <1>7, <2>4, ConcatProperties
  <2>7. grid' = Len(read) * Max(Range(read))
    BY <1>1, <1>9
  <2> QED BY <2>1, <2>5, <2>6, <2>7 DEF ReadIs
<1> QED
  BY <1>8, <1>9

-----------------------------------------------------------------------------
(* What the rows attend to, and what they need.                            *)

LEMMA CeilIs ==
  ASSUME NEW a \in Nat, NEW b \in Nat \ {0}
  PROVE  CeilTo(a, b) \in Nat /\ a <= CeilTo(a, b)
<1> DEFINE s == a + b - 1
           q == s \div b
<1>1. s \in Nat
  OBVIOUS
<1>2. q \in Nat /\ s % b \in 0..(b - 1) /\ s = q * b + (s % b) /\ q * b \in Nat
  <2> HIDE DEF s
  <2> QED BY <1>1, Divided
<1>3. a <= q * b
  <2>1. \A z \in 0..(b - 1), y \in Nat : a + b - 1 = y + z => a <= y
    OBVIOUS
  <2> DEFINE y == q * b
             z == s % b
  <2>2. y \in Nat /\ z \in 0..(b - 1) /\ a + b - 1 = y + z
    BY <1>2
  <2> HIDE DEF y, z
  <2>3. a <= y
    BY <2>1, <2>2
  <2> QED BY <2>3 DEF y
<1> QED
  BY <1>2, <1>3 DEF CeilTo

LEMMA RowFits ==
  ASSUME IndexerAssumption, NEW row \in GoodRows
  PROVE  IF row.all THEN row.pos < BufferWidth ELSE Columns <= BufferWidth
<1>0. TopK \in Nat /\ Kpool \in Nat \ {0} /\ BlockN \in Nat \ {0} /\ MaxLen \in Nat
  BY IndexerAssumed
<1>1. BufferWidth \in Nat /\ TopK + Kpool - 1 <= BufferWidth
  <2> DEFINE a == TopK + Kpool - 1
  <2>1. a \in Nat
    BY <1>0
  <2> HIDE DEF a
  <2>2. CeilTo(a, BlockN) \in Nat /\ a <= CeilTo(a, BlockN)
    BY <1>0, <2>1, CeilIs
  <2>3. BufferWidth = CeilTo(a, BlockN)
    BY DEF BufferWidth, a
  <2>4. BufferWidth \in Nat /\ a <= BufferWidth
    BY <2>2, <2>3
  <2> QED BY <2>4 DEF a
<1>2. row.pos \in Nat /\ (row.all => row.pos + 1 <= TopK)
  BY <1>0 DEF GoodRows
<1>3. Columns <= TopK + Kpool - 1
  <2> DEFINE y == (TopK \div Kpool) * Kpool
             z == TopK % Kpool
  <2>1. y \in Nat /\ z \in 0..(Kpool - 1) /\ TopK = y + z
    BY <1>0, Divided
  <2>2. Columns = y + Kpool - 1
    BY DEF Columns, SelectK
  <2> HIDE DEF y, z
  <2> QED BY <1>0, <2>1, <2>2
<1>4. Columns \in Nat
  <2> DEFINE y == (TopK \div Kpool) * Kpool
  <2>1. y \in Nat
    BY <1>0, Divided
  <2>2. Columns = y + Kpool - 1
    BY DEF Columns, SelectK
  <2> HIDE DEF y
  <2> QED BY <1>0, <2>1, <2>2
<1>5. CASE row.all
  BY <1>0, <1>1, <1>2, <1>5
<1>6. CASE ~row.all
  BY <1>0, <1>1, <1>3, <1>4, <1>6
<1> QED
  BY <1>5, <1>6

\* The pools available to a row of length l.
Available(l) == {j \in Pools : (j + 1) * Kpool <= l}

LEMMA AvailableIs ==
  ASSUME IndexerAssumption, NEW l \in 0..MaxLen
  PROVE  /\ l \div Kpool \in Nat
         /\ \A j \in Nat : j \in Available(l) <=> j < l \div Kpool
         /\ Available(l) \subseteq Nat
         /\ IsFiniteSet(Available(l)) /\ Cardinality(Available(l)) = l \div Kpool
<1> DEFINE d == l \div Kpool
<1>0. Kpool \in Nat \ {0} /\ MaxLen \in Nat /\ l \in Nat /\ l <= MaxLen
  BY IndexerAssumed
<1>1. d \in Nat /\ d \in Pools
  BY <1>0, PoolIs
<1>2. ASSUME NEW j \in Nat PROVE (j + 1) * Kpool <= l <=> j < d
  <2>1. j < d <=> j * Kpool + Kpool <= l
    BY <1>0, Complete
  <2>2. (j + 1) * Kpool = j * Kpool + Kpool
    BY <1>0
  <2> QED BY <2>1, <2>2
<1>3. \A j \in Nat : j \in Pools <=> j <= MaxLen \div Kpool
  <2>1. MaxLen \div Kpool \in Nat
    BY <1>0, Divided
  <2> DEFINE e == MaxLen \div Kpool
  <2> HIDE DEF e
  <2>2. Pools = 0..e /\ e \in Nat
    BY <2>1 DEF Pools, e
  <2>3. \A j \in Nat : j \in Pools <=> j <= e
    BY <2>2
  <2> QED BY <2>3 DEF e
<1>4. Pools \subseteq Nat
  BY DEF Pools
<1>5. MaxLen \div Kpool \in Nat /\ d <= MaxLen \div Kpool
  <2>1. MaxLen \div Kpool \in Nat
    BY <1>0, Divided
  <2> HIDE DEF d
  <2> QED BY <1>1, <1>3, <2>1
<1>6. \A j \in Nat : j \in Available(l) <=> j < d
  <2> DEFINE e == MaxLen \div Kpool
  <2> HIDE DEF d, e
  <2>1. e \in Nat /\ d <= e /\ \A j \in Nat : j \in Pools <=> j <= e
    BY <1>3, <1>5 DEF e
  <2>2. \A j \in Nat : j < d => j \in Pools
    BY <1>1, <2>1
  <2> QED BY <1>2, <2>2 DEF Available
<1>7. Available(l) \subseteq Nat
  BY <1>4 DEF Available
<1> HIDE DEF d
<1>8. Available(l) = 0..(d - 1)
  <2> DEFINE av == Available(l)
  <2> HIDE DEF av
  <2>1. av \subseteq Nat /\ \A j \in Nat : j \in av <=> j < d
    BY <1>6, <1>7 DEF av
  <2>2. \A j \in Nat : j \in 0..(d - 1) <=> j < d
    BY <1>1
  <2>3. 0..(d - 1) \subseteq Nat
    OBVIOUS
  <2>4. av = 0..(d - 1)
    BY <2>1, <2>2, <2>3
  <2> QED BY <2>4 DEF av
<1>9. IsFiniteSet(0..(d - 1)) /\ Cardinality(0..(d - 1)) = d
  <2>1. 0 \in Int /\ d - 1 \in Int
    BY <1>1
  <2>2. IsFiniteSet(0..(d - 1))
    BY <2>1, FS_Interval
  <2>3. Cardinality(0..(d - 1)) = IF 0 > d - 1 THEN 0 ELSE (d - 1) - 0 + 1
    BY <2>1, FS_Interval
  <2> QED BY <1>1, <2>2, <2>3
<1> QED
  BY <1>1, <1>6, <1>7, <1>8, <1>9 DEF d

\* A position within the length is in a complete pool or in the rest.
LEMMA AttendRight ==
  ASSUME IndexerAssumption, NEW row \in GoodRows, NEW A \in Attended(row)
  PROVE  /\ A \subseteq 0..row.pos
         /\ {p \in 0..row.pos : p >= (LengthAt(row) \div Kpool) * Kpool} \subseteq A
         /\ LengthAt(row) <= TopK => A = 0..row.pos
<1>0. /\ Kpool \in Nat \ {0} /\ MaxLen \in Nat /\ TopK \in Nat
      /\ row.pos \in 0..(MaxLen - 1) /\ row.length = row.pos + 1
      /\ LengthAt(row) = row.pos + 1
  BY IndexerAssumed DEF GoodRows, LengthAt
<1> DEFINE l == row.pos + 1
           d == l \div Kpool
           av == Available(l)
           e == d * Kpool
<1>1. l \in 0..MaxLen /\ l \in Nat /\ row.pos \in Nat
  BY <1>0
<1>2. CASE row.all
  <2>1. A = 0..row.pos
    BY <1>2 DEF Attended
  <2> QED BY <2>1
<1>3. CASE ~row.all
  <2>1. PICK S \in SUBSET av : /\ Cardinality(S) = Min({SelectK, Cardinality(av)})
                              /\ A = {p \in 0..MaxLen : p \div Kpool \in S} \cup e..(l - 1)
    <3> DEFINE avail == {j \in Pools : (j + 1) * Kpool <= LengthAt(row)}
               picks == {S \in SUBSET avail :
                           Cardinality(S) = Min({SelectK, Cardinality(avail)})}
    <3>1. A \in {{p \in 0..MaxLen : p \div Kpool \in S}
                   \cup ((row.length \div Kpool) * Kpool)..(row.length - 1) : S \in picks}
      BY <1>3, Zenon DEF Attended
    <3>2. row.length = l /\ avail = av
      BY <1>0 DEF Available
    <3> HIDE DEF avail, av, l
    <3>3. PICK S \in SUBSET av : /\ Cardinality(S) = Min({SelectK, Cardinality(av)})
                                /\ A = {p \in 0..MaxLen : p \div Kpool \in S}
                                       \cup ((l \div Kpool) * Kpool)..(l - 1)
      BY <3>1, <3>2, Zenon
    <3> QED BY <3>3 DEF l
  <2>2. /\ d \in Nat /\ \A j \in Nat : j \in av <=> j < d
        /\ av \subseteq Nat /\ IsFiniteSet(av) /\ Cardinality(av) = d
    BY <1>1, AvailableIs
  <2>3. e \in Nat /\ e <= l
    <3>1. e \in Nat /\ l % Kpool \in 0..(Kpool - 1) /\ l = e + (l % Kpool)
      <4> HIDE DEF l
      <4> QED BY <1>0, <1>1, Divided
    <3> DEFINE o == l % Kpool
    <3> HIDE DEF o, e
    <3>2. o \in Nat /\ l = e + o
      BY <1>0, <3>1 DEF o
    <3> QED BY <1>1, <3>1, <3>2
  <2> HIDE DEF d, av, e
  <2>4. ASSUME NEW p \in Nat PROVE p \div Kpool \in Nat /\ (p \div Kpool < d => p < e) /\ (p < e => p \div Kpool < d)
    <3> DEFINE j == p \div Kpool
               b == j * Kpool
               o == p % Kpool
    <3>1. j \in Nat /\ o \in 0..(Kpool - 1) /\ p = b + o /\ b \in Nat
      BY <1>0, Divided
    <3>2. j < d <=> b + Kpool <= e
      <4>1. j < d => (j + 1) * Kpool <= d * Kpool
        <5> HIDE DEF j
        <5> SUFFICES ASSUME j < d PROVE (j + 1) * Kpool <= d * Kpool
          OBVIOUS
        <5>1. j + 1 \in Nat /\ j + 1 <= d
          BY <2>2, <3>1
        <5> QED BY <1>0, <2>2, <5>1, Monotonic
      <4>2. ~(j < d) => d * Kpool <= j * Kpool
        <5> HIDE DEF j
        <5> SUFFICES ASSUME ~(j < d) PROVE d * Kpool <= j * Kpool
          OBVIOUS
        <5>1. d <= j
          BY <2>2, <3>1
        <5> QED BY <1>0, <2>2, <3>1, <5>1, Monotonic
      <4>3. (j + 1) * Kpool = b + Kpool
        <5> HIDE DEF j
        <5> QED BY <1>0, <3>1
      <4> HIDE DEF j, b
      <4>4. (j < d => b + Kpool <= e) /\ (~(j < d) => e <= b)
        BY <4>1, <4>2, <4>3 DEF e, b
      <4> QED BY <1>0, <2>3, <3>1, <4>4
    <3>3. ~(j < d) => e <= b
      <4> HIDE DEF j
      <4> SUFFICES ASSUME ~(j < d) PROVE e <= b
        OBVIOUS
      <4>1. d <= j
        BY <2>2, <3>1
      <4>2. d * Kpool <= j * Kpool
        BY <1>0, <2>2, <3>1, <4>1, Monotonic
      <4> QED BY <4>2 DEF e
    <3> HIDE DEF j, b, o
    <3>4. (j < d => p < e) /\ (p < e => j < d)
      BY <1>0, <2>3, <3>1, <3>2, <3>3
    <3> QED BY <3>1, <3>4 DEF j
  <2>5. A \subseteq 0..row.pos
    <3> SUFFICES ASSUME NEW p \in A PROVE p \in 0..row.pos
      OBVIOUS
    <3>1. CASE p \in e..(l - 1)
      BY <1>1, <2>3, <3>1
    <3>2. CASE p \in 0..MaxLen /\ p \div Kpool \in S
      <4>1. p \in Nat /\ p \div Kpool \in av
        BY <1>0, <2>1, <3>2
      <4>2. p \div Kpool < d
        BY <2>2, <2>4, <4>1
      <4>3. p < e
        BY <2>4, <4>1, <4>2
      <4> QED BY <1>1, <2>3, <4>1, <4>3
    <3> QED BY <2>1, <3>1, <3>2
  <2>6. {p \in 0..row.pos : p >= e} \subseteq A
    <3> SUFFICES ASSUME NEW p \in 0..row.pos, p >= e PROVE p \in A
      OBVIOUS
    <3>1. p \in e..(l - 1)
      BY <1>1, <2>3
    <3> QED BY <2>1, <3>1
  <2>7. ASSUME l <= TopK PROVE A = 0..row.pos
    <3>1. SelectK \in Nat /\ d <= SelectK
      <4>1. TopK \div Kpool \in Nat
        BY <1>0, Divided
      <4> SUFFICES ASSUME ~(d <= TopK \div Kpool) PROVE FALSE
        BY <4>1 DEF SelectK
      <4> DEFINE k == TopK \div Kpool
      <4>2. ~(k < k) /\ k \in Nat
        BY <4>1
      <4>3. k < d
        <5> HIDE DEF k
        <5> QED BY <2>2, <4>2 DEF k
      <4>4. ~(k * Kpool + Kpool <= TopK)
        BY <1>0, <4>2, Complete
      <4>5. k * Kpool + Kpool <= l
        <5> HIDE DEF k
        <5> QED BY <1>0, <1>1, <4>2, <4>3, Complete DEF d
      <4>6. k * Kpool \in Nat
        <5> HIDE DEF k
        <5> QED BY <1>0, <4>2, ProductIsNat
      <4> DEFINE y == k * Kpool
      <4> HIDE DEF y
      <4> QED BY <1>0, <1>1, <2>7, <4>4, <4>5, <4>6 DEF y
    <3>2. Cardinality(S) = Cardinality(av)
      BY <2>1, <2>2, <3>1, MinOfTwo
    <3>3. S = av
      BY <2>2, <3>2, FS_Subset
    <3>4. ASSUME NEW p \in 0..row.pos PROVE p \in A
      <4>1. p \in Nat /\ p \in 0..MaxLen
        BY <1>0
      <4>2. CASE p >= e
        BY <2>6, <4>2
      <4>3. CASE ~(p >= e)
        <5>1. p \div Kpool \in Nat /\ p \div Kpool < d
          BY <2>3, <2>4, <4>1, <4>3
        <5>2. p \div Kpool \in S
          BY <2>2, <3>3, <5>1
        <5> QED BY <2>1, <4>1, <5>2
      <4> QED BY <4>2, <4>3
    <3> QED BY <2>5, <3>4
  <2> QED BY <1>0, <2>5, <2>6, <2>7 DEF e, d
<1> QED
  BY <1>2, <1>3

-----------------------------------------------------------------------------
(* Types.                                                                  *)

Entries == {<< >>} \cup [Offsets -> Tokens]

LEMMA TokensWithin ==
  ASSUME IndexerAssumption
  PROVE  BatchTokens \subseteq Tokens /\ Nothing \in Tokens
<1>0. NumReqs \in Nat /\ MaxLen \in Nat /\ MaxGen \in Nat /\ Requests \subseteq 0..NumReqs
  BY IndexerAssumed DEF Requests
<1>1. Nothing \in Tokens
  BY <1>0 DEF Nothing, Tokens
<1>2. 0..(MaxLen - 1) \subseteq 0..MaxLen
  BY <1>0
<1> QED
  BY <1>0, <1>1, <1>2 DEF BatchTokens, Tokens

LEMMA DecodeTypes ==
  ASSUME IndexerAssumption, NEW r \in Requests, NEW w \in Nat, NEW row, row \in [1..w -> Tokens],
         Len(row) = w, NEW ring, ring \in [Offsets -> Tokens], NEW j, NEW old, old \in Entries
  PROVE  /\ DecodePool(row, r, j, old, ring) \in Entries
         /\ \A o \in Offsets : DecodeTail(row, r, o, ring) \in Tokens
<1>1. ASSUME NEW S \in SUBSET (1..w), S # {} PROVE row[Max(S)] \in Tokens
  <2>1. S \in SUBSET (0..w)
    <3>1. \A i \in S : i \in 0..w
      OBVIOUS
    <3> QED BY <3>1
  <2>2. Max(S) \in 1..w
    BY <1>1, <2>1, MaxIs
  <2> QED BY <2>2
<1>2. DecodePool(row, r, j, old, ring) \in Entries
  <2> DEFINE at(o) == InRow(row, r, j * Kpool + o)
             cell(o) == IF at(o) = {} THEN ring[o] ELSE row[Max(at(o))]
  <2>1. DecodePool(row, r, j, old, ring) =
          IF InRow(row, r, j * Kpool + Kpool - 1) = {} THEN old ELSE [o \in Offsets |-> cell(o)]
    BY DEF DecodePool
  <2>2. \A o \in Offsets : at(o) \in SUBSET (1..w)
    BY DEF InRow
  <2> HIDE DEF at
  <2>3. \A o \in Offsets : cell(o) \in Tokens
    BY <1>1, <2>2
  <2> HIDE DEF cell
  <2>4. [o \in Offsets |-> cell(o)] \in [Offsets -> Tokens]
    BY <2>3
  <2> QED BY <2>1, <2>4 DEF Entries
<1>3. ASSUME NEW o \in Offsets PROVE DecodeTail(row, r, o, ring) \in Tokens
  <2> DEFINE at == {t \in 1..Len(row) : row[t].req = r /\ row[t].pos % Kpool = o}
  <2>1. DecodeTail(row, r, o, ring) = IF at = {} THEN ring[o] ELSE row[Max(at)]
    BY DEF DecodeTail
  <2>2. at \in SUBSET (1..w)
    OBVIOUS
  <2> HIDE DEF at
  <2> QED BY <1>1, <2>1, <2>2
<1> QED
  BY <1>2, <1>3

LEMMA PrefillTypes ==
  ASSUME IndexerAssumption, NEW r, NEW region \in Seq(Tokens),
         NEW j, NEW old, old \in Entries, NEW ring, ring \in [Offsets -> Tokens]
  PROVE  /\ PrefillPool(region, r, j, old) \in Entries
         /\ \A o \in Offsets : PrefillTail(region, r, o, ring[o]) \in Tokens
<1> DEFINE N == Len(region)
<1>0. N \in Nat /\ Kpool \in Nat \ {0} /\ \A i \in 1..N : region[i] \in Tokens
  BY IndexerAssumed
<1>1. PrefillPool(region, r, j, old) \in Entries
  <2> DEFINE done == {i \in Kpool..N : /\ region[i].req = r
                                       /\ region[i].pos = j * Kpool + Kpool - 1}
  <2>1. PrefillPool(region, r, j, old) =
          IF done = {} THEN old ELSE [o \in Offsets |-> region[Max(done) - (Kpool - 1) + o]]
    BY DEF PrefillPool
  <2>2. done \subseteq Kpool..N
    OBVIOUS
  <2> HIDE DEF done, N
  <2>3. ASSUME done # {}, NEW o \in Offsets
        PROVE  region[Max(done) - (Kpool - 1) + o] \in Tokens
    <3>1. done \in SUBSET (0..N)
      <4>1. \A i \in done : i \in 0..N
        BY <1>0, <2>2
      <4> QED BY <4>1
    <3>2. Max(done) \in Kpool..N
      BY <1>0, <2>2, <2>3, <3>1, MaxIs
    <3>3. o \in 0..(Kpool - 1)
      BY DEF Offsets
    <3>4. \A i \in Kpool..N, z \in 0..(Kpool - 1) : i - (Kpool - 1) + z \in 1..N
      BY <1>0
    <3> QED BY <1>0, <3>2, <3>3, <3>4
  <2>4. done # {} => [o \in Offsets |-> region[Max(done) - (Kpool - 1) + o]] \in [Offsets -> Tokens]
    BY <2>3
  <2> QED BY <2>1, <2>4 DEF Entries
<1>2. ASSUME NEW o \in Offsets PROVE PrefillTail(region, r, o, ring[o]) \in Tokens
  <2> DEFINE seeds == {i \in 1..N : /\ region[i].req = r /\ region[i].pos % Kpool = o
                                    /\ i + Kpool > N \/ region[i + Kpool].req # r}
  <2>1. PrefillTail(region, r, o, ring[o]) = IF seeds = {} THEN ring[o] ELSE region[Max(seeds)]
    BY DEF PrefillTail
  <2>2. seeds \in SUBSET (1..N)
    OBVIOUS
  <2> HIDE DEF seeds, N
  <2>3. seeds # {} => region[Max(seeds)] \in Tokens
    <3>1. seeds \in SUBSET (0..N)
      <4>1. \A i \in seeds : i \in 0..N
        BY <1>0, <2>2
      <4> QED BY <4>1
    <3>2. seeds # {} => Max(seeds) \in 1..N
      BY <1>0, <2>2, <3>1, MaxIs
    <3> QED BY <1>0, <3>2
  <2> QED BY <2>1, <2>3
<1> QED
  BY <1>1, <1>2

\* What the blocks and the spoiled pools of a request are.
Blocks == /\ pools \in [Requests -> [Pools -> Entries]]
          /\ tail \in [Requests -> [Offsets -> Tokens]]
          /\ spoiled \in [Requests -> SUBSET Pools]

LEMMA PassBlocks ==
  ASSUME IndexerAssumption, Lengths, Blocks, NEW n, NEW kept, Scheduled(n, kept),
         NEW D \in SetToSeqs(Decodes(n)), NEW P \in SetToSeqs(Prefills(n)), NEW flatten,
         Pass(n, kept, D, P, flatten)
  PROVE  Blocks'
<1>0. /\ n \in [Requests -> Nat] /\ kept \in [Requests -> Nat]
      /\ gen \in [Requests -> Nat] /\ len \in [Requests -> Nat]
      /\ Decodes(n) \in SUBSET Requests /\ Prefills(n) \in SUBSET Requests
  <2>1. MaxLen \in Nat /\ MaxGen \in Nat
    BY IndexerAssumed
  <2> QED BY <2>1 DEF Lengths, Scheduled, Decodes, Prefills
<1> DEFINE region == Chunks(P, n, kept)
<1>1. region \in Seq(Tokens)
  <2>1. Ordered(P, Cardinality(Prefills(n)), Prefills(n))
    BY <1>0, OrderIs
  <2>2. region \in Seq(BatchTokens)
    BY <1>0, <2>1, ChunksAreTokens
  <2> QED BY <2>2, TokensWithin
<1> HIDE DEF region
<1>2. ASSUME NEW r \in Decodes(n)
      PROVE  \E w \in Nat : /\ RowAt(n, kept, D, r) \in [1..w -> Tokens]
                            /\ Len(RowAt(n, kept, D, r)) = w
  <2>1. Ordered(D, Cardinality(Decodes(n)), Decodes(n))
    BY <1>0, OrderIs
  <2>2. PICK m : m = Len(D)
    OBVIOUS
  <2>3. Ordered(D, m, Decodes(n))
    BY <2>1, <2>2 DEF Ordered
  <2>4. PICK cells : cells = Grouped(Chunks(D, n, kept), LensOf(D, m, n), Nothing)
    OBVIOUS
  <2>5. PICK w : RowOf(cells[CHOOSE i \in 1..Len(D) : D[i] = r], r, w, n, kept)
    BY <1>0, <2>3, <2>4, RowIs
  <2> DEFINE row == RowAt(n, kept, D, r)
  <2>6. RowOf(row, r, w, n, kept)
    BY <2>2, <2>4, <2>5 DEF RowAt
  <2> HIDE DEF row
  <2>7. w \in Nat /\ row = [t \in 1..w |-> IF t <= n[r] THEN Token(r, len[r] + t - 1, t <= kept[r])
                                           ELSE Nothing]
    BY <2>6 DEF RowOf
  <2>8. r \in Requests /\ n[r] \in Nat
    BY <1>0
  <2>9. \A t \in 1..w : (IF t <= n[r] THEN Token(r, len[r] + t - 1, t <= kept[r])
                         ELSE Nothing) \in Tokens
    <3> SUFFICES ASSUME NEW t \in 1..w
                 PROVE  (IF t <= n[r] THEN Token(r, len[r] + t - 1, t <= kept[r])
                         ELSE Nothing) \in Tokens
      OBVIOUS
    <3>1. t <= n[r] => Token(r, len[r] + t - 1, t <= kept[r]) \in BatchTokens
      <4>1. t <= n[r] => t \in 1..n[r]
        BY <2>7, <2>8
      <4> QED BY <2>8, <4>1, TokensAre
    <3> QED BY <3>1, TokensWithin
  <2>10. row \in [1..w -> Tokens]
    BY <2>7, <2>9
  <2>11. Len(row) = w
    BY <2>7, <2>10, SeqIs
  <2> QED BY <2>7, <2>10, <2>11 DEF row
<1>3. ASSUME NEW r \in Requests, NEW j \in Pools
      PROVE  (IF r \in Decodes(n) THEN DecodePool(RowAt(n, kept, D, r), r, j, pools[r][j], tail[r])
              ELSE PrefillPool(region, r, j, pools[r][j])) \in Entries
  <2>1. pools[r][j] \in Entries /\ tail[r] \in [Offsets -> Tokens]
    BY DEF Blocks
  <2>2. CASE r \in Decodes(n)
    <3>1. DecodePool(RowAt(n, kept, D, r), r, j, pools[r][j], tail[r]) \in Entries
      BY <1>2, <2>1, <2>2, DecodeTypes
    <3> QED BY <2>2, <3>1
  <2>3. CASE r \notin Decodes(n)
    <3>1. PrefillPool(region, r, j, pools[r][j]) \in Entries
      BY <1>1, <2>1, PrefillTypes
    <3> QED BY <2>3, <3>1
  <2> QED BY <2>2, <2>3
<1>4. ASSUME NEW r \in Requests, NEW o \in Offsets
      PROVE  (IF r \in Decodes(n) THEN DecodeTail(RowAt(n, kept, D, r), r, o, tail[r])
              ELSE PrefillTail(region, r, o, tail[r][o])) \in Tokens
  <2>1. tail[r] \in [Offsets -> Tokens] /\ << >> \in Entries
    BY DEF Blocks, Entries
  <2>2. CASE r \in Decodes(n)
    <3>1. DecodeTail(RowAt(n, kept, D, r), r, o, tail[r]) \in Tokens
      BY <1>2, <2>1, <2>2, DecodeTypes
    <3> QED BY <2>2, <3>1
  <2>3. CASE r \notin Decodes(n)
    <3>1. PrefillTail(region, r, o, tail[r][o]) \in Tokens
      BY <1>1, <2>1, PrefillTypes
    <3> QED BY <2>3, <3>1
  <2> QED BY <2>2, <2>3
<1>5. ASSUME NEW r \in Requests
      PROVE  spoiled[r] \cup (IF Spoils(r, n[r], kept[r])
                              THEN {(len[r] + kept[r]) \div Kpool} ELSE {}) \in SUBSET Pools
  <2>1. len[r] + kept[r] \in 0..MaxLen
    <3>1. /\ len[r] \in Nat /\ kept[r] \in Nat /\ n[r] \in Nat /\ kept[r] <= n[r]
          /\ len[r] + n[r] <= MaxLen /\ MaxLen \in Nat
      BY <1>0, IndexerAssumed DEF Scheduled
    <3> QED BY <3>1
  <2>2. (len[r] + kept[r]) \div Kpool \in Pools
    BY <2>1, PoolIs
  <2>3. spoiled[r] \in SUBSET Pools
    BY DEF Blocks
  <2> QED BY <2>2, <2>3
<1>6. pools' \in [Requests -> [Pools -> Entries]]
  <2>1. pools' = [r \in Requests |-> [j \in Pools |->
                    IF r \in Decodes(n)
                    THEN DecodePool(RowAt(n, kept, D, r), r, j, pools[r][j], tail[r])
                    ELSE PrefillPool(region, r, j, pools[r][j])]]
    BY PassIs DEF region
  <2> QED BY <1>3, <2>1
<1>7. tail' \in [Requests -> [Offsets -> Tokens]]
  <2>1. tail' = [r \in Requests |-> [o \in Offsets |->
                   IF r \in Decodes(n) THEN DecodeTail(RowAt(n, kept, D, r), r, o, tail[r])
                   ELSE PrefillTail(region, r, o, tail[r][o])]]
    BY PassIs DEF region
  <2> QED BY <1>4, <2>1
<1>8. spoiled' \in [Requests -> SUBSET Pools]
  <2>1. spoiled' = [r \in Requests |->
                      spoiled[r] \cup (IF Spoils(r, n[r], kept[r])
                                       THEN {(len[r] + kept[r]) \div Kpool} ELSE {})]
    BY PassIs
  <2> QED BY <1>5, <2>1
<1>9. Blocks' <=> /\ pools' \in [Requests -> [Pools -> Entries]]
                  /\ tail' \in [Requests -> [Offsets -> Tokens]]
                  /\ spoiled' \in [Requests -> SUBSET Pools]
  BY DEF Blocks
<1> QED
  BY <1>6, <1>7, <1>8, <1>9

-----------------------------------------------------------------------------
(* The indexer.                                                            *)

Within == rows \in Seq(GoodRows) /\ grid \in Nat /\ grid <= NumReqs * (NumSpec + 1)

\* The keys are right because prompts end chunks at pool boundaries (Aligned); rows
\* and grid are of the last pass and need no history.
IndexerInv == Lengths /\ Blocks /\ Aligned /\ Within /\ KeysRight

LEMMA IndexerStarts ==
  ASSUME IndexerAssumption
  PROVE  Init => IndexerInv
<1> SUFFICES ASSUME Init PROVE IndexerInv
  OBVIOUS
<1>0. MaxLen \in Nat /\ MaxGen \in Nat /\ Kpool \in Nat \ {0} /\ NumReqs \in Nat /\ NumSpec \in Nat
  BY IndexerAssumed
<1>1. Lengths
  BY <1>0 DEF Init, Lengths
<1>2. Aligned
  BY DEF Init, Aligned
<1>3. KeysRight
  BY DEF Init, KeysRight
<1>4. Blocks
  BY TokensWithin DEF Init, Blocks, Entries
<1>5. Within
  <2>1. rows = << >> /\ grid = 0
    BY DEF Init
  <2>2. NumReqs * (NumSpec + 1) \in Nat
    BY <1>0, ProductIsNat
  <2> DEFINE b == NumReqs * (NumSpec + 1)
  <2>3. b \in Nat
    BY <2>2
  <2> HIDE DEF b
  <2>4. rows \in Seq(GoodRows) /\ grid \in Nat /\ grid <= b
    BY <2>1, <2>3
  <2> QED BY <2>4 DEF Within, b
<1> QED
  BY <1>1, <1>2, <1>3, <1>4, <1>5 DEF IndexerInv

LEMMA NewRequestKeepsKeys ==
  ASSUME IndexerAssumption, Lengths, Blocks, KeysRight, NEW r \in Requests, NewRequest(r)
  PROVE  KeysRight'
<1>1. /\ gen' = [gen EXCEPT ![r] = @ + 1]
      /\ len' = [len EXCEPT ![r] = 0] /\ spoiled' = [spoiled EXCEPT ![r] = {}]
      /\ pools' = pools /\ tail' = tail
  BY DEF NewRequest
<1>2. ASSUME NEW q \in Requests, NEW p \in 0..(MaxLen - 1)
      PROVE  (LET j == p \div Kpool
                  own == Token(q, p, TRUE)
              IN p < len[q] /\ j \notin spoiled[q] =>
                   IF j < len[q] \div Kpool THEN pools[q][j][p % Kpool] = own
                   ELSE tail[q][p % Kpool] = own)'
  <2>1. CASE q = r
    <3>1. len'[q] = 0 /\ ~(p < 0)
      BY <1>1, <2>1, IndexerAssumed DEF Lengths
    <3> QED BY <3>1
  <2>2. CASE q # r
    <3>1. len'[q] = len[q] /\ gen'[q] = gen[q] /\ pools' = pools /\ tail' = tail
          /\ spoiled'[q] = spoiled[q]
      BY <1>1, <2>2 DEF Lengths, Blocks
    <3>2. Token(q, p, TRUE)' = Token(q, p, TRUE)
      BY <3>1 DEF Token
    <3>3. p < len[q] /\ p \div Kpool \notin spoiled[q] =>
            IF p \div Kpool < len[q] \div Kpool
            THEN pools[q][p \div Kpool][p % Kpool] = Token(q, p, TRUE)
            ELSE tail[q][p % Kpool] = Token(q, p, TRUE)
      BY DEF KeysRight
    <3> QED BY <3>1, <3>2, <3>3
  <2> QED BY <2>1, <2>2
<1> QED
  BY <1>2 DEF KeysRight

LEMMA IndexerKeeps ==
  ASSUME IndexerAssumption
  PROVE  IndexerInv /\ [Next]_vars => IndexerInv'
<1> SUFFICES ASSUME IndexerInv, [Next]_vars PROVE IndexerInv'
  OBVIOUS
<1>0. Lengths /\ Blocks /\ Aligned /\ Within /\ KeysRight
  BY DEF IndexerInv
<1>1. CASE Forward
  <2>1. PICK n, kept, flatten : /\ Scheduled(n, kept)
                                /\ \E D \in SetToSeqs(Decodes(n)), P \in SetToSeqs(Prefills(n)) :
                                     Pass(n, kept, D, P, flatten)
    BY <1>0, <1>1, ForwardIs DEF Passed
  <2>2. KeysRight'
    BY <1>0, <2>1, PassKeepsKeys
  <2>3. Lengths' /\ Aligned'
    BY <1>0, <1>1, LengthsKept DEF Next
  <2>4. Blocks'
    BY <1>0, <2>1, PassBlocks
  <2>5. Within'
    <3>1. rows' \in Seq(GoodRows) /\ grid' \in Nat /\ grid' <= NumReqs * (NumSpec + 1)
      BY <1>0, <2>1, PassRows
    <3> QED BY <3>1 DEF Within, GoodRows
  <2> QED BY <2>2, <2>3, <2>4, <2>5 DEF IndexerInv
<1>2. ASSUME NEW r \in Requests, NewRequest(r)
      PROVE  IndexerInv'
  <2>1. /\ spoiled' = [spoiled EXCEPT ![r] = {}] /\ pools' = pools /\ tail' = tail
        /\ rows' = << >> /\ grid' = 0
    BY <1>2 DEF NewRequest
  <2>2. KeysRight'
    BY <1>0, <1>2, NewRequestKeepsKeys
  <2>3. Lengths' /\ Aligned'
    BY <1>0, <1>2, LengthsKept DEF Next
  <2>4. Blocks'
    BY <1>0, <2>1 DEF Blocks, Entries, Tokens
  <2>5. Within'
    <3> DEFINE b == NumReqs * (NumSpec + 1)
    <3>1. b \in Nat
      BY IndexerAssumed, ProductIsNat
    <3> HIDE DEF b
    <3>2. rows' \in Seq(GoodRows) /\ grid' \in Nat /\ grid' <= b
      BY <2>1, <3>1
    <3> QED BY <3>2 DEF Within, GoodRows, b
  <2> QED BY <2>2, <2>3, <2>4, <2>5 DEF IndexerInv
<1>3. CASE UNCHANGED vars
  <2>1. UNCHANGED <<gen, prompt, len, pools, tail, spoiled, rows, grid>>
    BY <1>3 DEF vars
  <2>2. Lengths' /\ Blocks' /\ Aligned' /\ Within'
    BY <1>0, <2>1 DEF Lengths, Blocks, Entries, Tokens, Aligned, AtBoundary, Within, GoodRows
  <2>3. KeysRight'
    BY <1>0, <2>1 DEF KeysRight, Token
  <2> QED BY <2>2, <2>3 DEF IndexerInv
<1> QED
  BY <1>1, <1>2, <1>3 DEF Next

LEMMA IndexerShows ==
  ASSUME IndexerAssumption, IndexerInv
  PROVE  TypeOK /\ KeysRight /\ RowsAttendRight /\ FitsBuffers
<1>0. /\ Lengths /\ Blocks /\ Within /\ KeysRight
      /\ rows \in Seq(GoodRows) /\ grid \in Nat /\ grid <= NumReqs * (NumSpec + 1)
  BY DEF IndexerInv, Within
<1>1. \A i \in 1..Len(rows) : rows[i] \in GoodRows
  BY <1>0
<1>2. TypeOK
  <2>1. GoodRows \subseteq [req : Requests, pos : 0..MaxLen, kept : BOOLEAN, length : 0..MaxLen,
                            all : BOOLEAN, keys : {"cache", "topk", "none"}]
    <3>1. 0..(MaxLen - 1) \subseteq 0..MaxLen /\ 1..MaxLen \subseteq 0..MaxLen
      BY IndexerAssumed
    <3> QED BY <3>1 DEF GoodRows
  <2> DEFINE R == [req : Requests, pos : 0..MaxLen, kept : BOOLEAN, length : 0..MaxLen,
                   all : BOOLEAN, keys : {"cache", "topk", "none"}]
  <2>2. GoodRows \subseteq R
    BY <2>1
  <2> HIDE DEF R
  <2>3. rows \in Seq(R)
    BY <1>0, <2>2
  <2> QED BY <1>0, <2>3 DEF TypeOK, Lengths, Blocks, Entries, R
<1>3. RowsAttendRight
  BY <1>1, AttendRight DEF RowsAttendRight
<1>4. FitsBuffers
  <2>1. \A i \in 1..Len(rows) :
          IF rows[i].all THEN rows[i].pos < BufferWidth ELSE Columns <= BufferWidth
    BY <1>1, RowFits
  <2>2. grid <= ProfiledRows
    <3> DEFINE b == NumReqs * (NumSpec + 1)
    <3>1. b \in Nat /\ MaxBatched \in Nat /\ b <= MaxBatched
      <4>1. b \in Nat
        BY IndexerAssumed, ProductIsNat
      <4> HIDE DEF b
      <4>2. MaxBatched \in Nat /\ MaxBatched >= b
        BY DEF IndexerAssumption, b
      <4> QED BY <4>1, <4>2
    <3>2. ProfiledRows = Min({b, MaxBatched})
      BY DEF ProfiledRows
    <3> HIDE DEF b
    <3>3. ProfiledRows = b
      BY <3>1, <3>2, MinOfTwo
    <3> QED BY <1>0, <3>3 DEF b
  <2> QED BY <2>1, <2>2 DEF FitsBuffers
<1> QED
  BY <1>0, <1>2, <1>3, <1>4

\* TypeOK: the keys, tails, rows and grid keep to their types.
THEOREM IndexerTypes ==
  ASSUME IndexerAssumption
  PROVE  Spec => []TypeOK
<1>1. Init => IndexerInv
  BY IndexerStarts
<1>2. IndexerInv /\ [Next]_vars => IndexerInv'
  BY IndexerKeeps
<1>3. IndexerInv => TypeOK
  BY IndexerShows
<1> QED
  BY <1>1, <1>2, <1>3, PTL DEF Spec

=============================================================================
