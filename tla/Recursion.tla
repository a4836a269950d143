----------------------------- MODULE Recursion -----------------------------
(***************************************************************************)
(* Facts about numbers and recursive functions that the proofs share: the  *)
(* least number of a set, and that a recursion that goes down a rank       *)
(* defines a function.                                                     *)
(***************************************************************************)
EXTENDS Integers, FiniteSetsExt, FiniteSetTheorems, WellFoundedInduction, TLAPS

\* A set of numbers has a least one: of the intervals 1 .. n for its members
\* none is below all others by inclusion for ever.
LEMMA LeastOf ==
  ASSUME NEW T \in SUBSET Nat, T # {}
  PROVE  \E n \in T : \A m \in T : n <= m
<1> DEFINE U == {1 .. n : n \in T}
           R == StrictSubsetOrdering(Nat)
           S == FiniteSubsetsOf(Nat)
<1>1. IsWellFoundedOn(R, S)
  BY FS_StrictSubsetOrderingWellFounded
<1>2. U \subseteq S
  <2>1. ASSUME NEW n \in T PROVE 1 .. n \in S
    <3>1. IsFiniteSet(1 .. n)
      BY FS_Interval
    <3>2. QED
      BY <3>1 DEF FiniteSubsetsOf
  <2>2. QED
    BY <2>1
<1>3. U # {}
  OBVIOUS
<1>4. PICK x \in U : \A y \in U : <<y, x>> \notin R
  <2> HIDE DEF U, R, S
  <2>1. QED
    BY <1>1, <1>2, <1>3, WFMin
<1>5. PICK n \in T : x = 1 .. n
  OBVIOUS
<1>6. ASSUME NEW m \in T, m < n PROVE FALSE
  <2>1. 1 .. m \subseteq 1 .. n /\ n \in 1 .. n /\ n \notin 1 .. m
    BY <1>6
  <2>2. <<1 .. m, 1 .. n>> \in R
    BY <2>1 DEF StrictSubsetOrdering
  <2>3. QED
    BY <1>4, <1>5, <2>2
<1>7. QED
  BY <1>6

\* So a set of numbers with 0 and with the successor of each member is Nat.
LEMMA Induction ==
  ASSUME NEW T, 0 \in T, \A n \in Nat : n \in T => n + 1 \in T
  PROVE  Nat \subseteq T
<1> DEFINE U == Nat \ T
<1>1. SUFFICES ASSUME U # {} PROVE FALSE
  OBVIOUS
<1>2. PICK n \in U : \A m \in U : n <= m
  <2>1. U \in SUBSET Nat
    OBVIOUS
  <2> HIDE DEF U
  <2>2. QED
    BY <1>1, <2>1, LeastOf
<1>3. n \in Nat /\ n # 0 /\ n \notin T
  OBVIOUS
<1>4. n - 1 \in Nat /\ n - 1 \in T /\ (n - 1) + 1 = n
  BY <1>2, <1>3
<1>5. QED
  BY <1>3, <1>4

\* A set of numbers up to n has a greatest one, and Max finds it.
LEMMA MaxIs ==
  ASSUME NEW n \in Nat, NEW T \in SUBSET (1 .. n), T # {}
  PROVE  Max(T) \in T /\ \A m \in T : Max(T) >= m
<1> DEFINE U == {n - i : i \in T}
<1>1. U \in SUBSET Nat /\ U # {}
  <2>1. PICK i \in T : TRUE
    OBVIOUS
  <2>2. n - i \in U
    OBVIOUS
  <2>3. \A j \in T : n - j \in Nat
    OBVIOUS
  <2>4. QED
    BY <2>2, <2>3
<1>2. PICK k \in U : \A m \in U : k <= m
  <2> HIDE DEF U
  <2>1. QED
    BY <1>1, LeastOf
<1>3. PICK i \in T : k = n - i
  BY <1>2
<1>4. \A m \in T : i >= m
  <2>1. ASSUME NEW m \in T PROVE i >= m
    <3>1. n - m \in U
      OBVIOUS
    <3>2. k <= n - m
      BY <1>2, <3>1
    <3>3. QED
      BY <1>3, <3>2
  <2>2. QED
    BY <2>1
<1>5. QED
  BY <1>3, <1>4 DEF Max

\* H gives the value at x of a function from D to V, of which it looks only at
\* what lies below x.
Descends(D, V, N, rank, H) ==
  /\ V # {} /\ N \in Nat /\ rank \in [D -> 0 .. N] /\ H \in [D \X [D -> V] -> V]
  /\ \A x \in D : \A f, g \in [D -> V] :
       (\A y \in D : rank[y] < rank[x] => f[y] = g[y]) => H[<<x, f>>] = H[<<x, g>>]

Solvable(D, V, H) == \E f \in [D -> V] : \A x \in D : f[x] = H[<<x, f>>]

\* Then there is a function that has these values everywhere.
LEMMA RecursionDefines ==
  ASSUME NEW D, NEW V, NEW N, NEW rank, NEW H, Descends(D, V, N, rank, H)
  PROVE  Solvable(D, V, H)
<1> USE DEF Descends
<1> DEFINE Upto(n, f) == \A x \in D : rank[x] < n => f[x] = H[<<x, f>>]
           T == {n \in Nat : \E f \in [D -> V] : Upto(n, f)}
<1>1. 0 \in T
  <2>1. PICK v \in V : TRUE
    OBVIOUS
  <2>2. [x \in D |-> v] \in [D -> V]
    OBVIOUS
  <2>3. Upto(0, [x \in D |-> v])
    OBVIOUS
  <2>4. QED
    BY <2>2, <2>3
<1>2. ASSUME NEW n \in Nat, n \in T PROVE n + 1 \in T
  <2>1. PICK f \in [D -> V] : Upto(n, f)
    BY <1>2
  <2> DEFINE g == [x \in D |-> IF rank[x] < n THEN f[x] ELSE H[<<x, f>>]]
  <2>2. g \in [D -> V]
    OBVIOUS
  <2>3. ASSUME NEW x \in D, rank[x] < n + 1 PROVE g[x] = H[<<x, g>>]
    <3>1. g[x] = H[<<x, f>>]
      BY <2>1
    <3>2. \A y \in D : rank[y] < rank[x] => f[y] = g[y]
      BY <2>3
    <3> HIDE DEF g
    <3>3. QED
      BY <2>2, <3>1, <3>2
  <2>4. Upto(n + 1, g)
    BY <2>3
  <2> HIDE DEF g
  <2>5. QED
    BY <2>2, <2>4
<1>3. N + 1 \in T
  <2> HIDE DEF T
  <2>1. QED
    BY <1>1, <1>2, Induction
<1>4. PICK f \in [D -> V] : Upto(N + 1, f)
  BY <1>3
<1>5. \A x \in D : f[x] = H[<<x, f>>]
  BY <1>4
<1>6. QED
  BY <1>5 DEF Solvable

\* The largest of 1 .. k is k, and without it 1 .. k - 1 are left.
LEMMA MaxOfInterval ==
  ASSUME NEW k \in Nat \ {0}
  PROVE  Max(1 .. k) = k /\ (1 .. k) \ {Max(1 .. k)} = 1 .. k - 1
<1>1. (1 .. k) \in SUBSET (1 .. k) /\ 1 .. k # {} /\ k \in Nat
  OBVIOUS
<1>2. Max(1 .. k) \in 1 .. k /\ \A m \in 1 .. k : Max(1 .. k) >= m
  BY <1>1, MaxIs
<1>3. Max(1 .. k) = k
  BY <1>2
<1>4. QED
  BY <1>3

\* A fold with op over the numbers up to n, the greatest one last, and the
\* function on sets of these numbers that it is defined by.
Foldable(V, base, n, op) ==
  base \in V /\ n \in Nat /\ op \in [V \X (1 .. n) -> V]

Folds(V, base, n, op, g) ==
  /\ g \in [SUBSET (1 .. n) -> V]
  /\ \A s \in SUBSET (1 .. n) :
       g[s] = IF s = {} THEN base ELSE op[<<g[s \ {Max(s)}], Max(s)>>]

LEMMA FoldDefines ==
  ASSUME NEW V, NEW base, NEW n, NEW op, Foldable(V, base, n, op)
  PROVE  \E g : Folds(V, base, n, op, g)
<1> USE DEF Foldable
<1> DEFINE D == SUBSET (1 .. n)
           rank == [s \in D |-> IF s = {} THEN 0 ELSE Max(s)]
           H == [p \in D \X [D -> V] |->
                   IF p[1] = {} THEN base
                   ELSE op[<<p[2][p[1] \ {Max(p[1])}], Max(p[1])>>]]
<1>1. \A s \in D : s # {} => /\ Max(s) \in s /\ Max(s) \in 1 .. n
                             /\ \A m \in s : Max(s) >= m
  <2>1. ASSUME NEW s \in D, s # {}
        PROVE  Max(s) \in s /\ \A m \in s : Max(s) >= m
    BY <2>1, MaxIs
  <2>2. QED
    BY <2>1
<1>2. rank \in [D -> 0 .. n]
  BY <1>1
<1>3. \A s \in D : s # {} => s \ {Max(s)} \in D /\ rank[s \ {Max(s)}] < rank[s]
  <2>1. ASSUME NEW s \in D, s # {}
        PROVE  s \ {Max(s)} \in D /\ rank[s \ {Max(s)}] < rank[s]
    <3> DEFINE t == s \ {Max(s)}
    <3>1. t \in D /\ rank[s] = Max(s) /\ Max(s) \in 1 .. n
      BY <1>1, <2>1
    <3>2. CASE t = {}
      BY <3>1, <3>2
    <3>3. CASE t # {}
      <4>1. /\ Max(t) \in t /\ Max(t) \in 1 .. n
        BY <1>1, <3>1, <3>3
      <4>2. Max(t) # Max(s) /\ Max(s) >= Max(t)
        BY <1>1, <2>1, <4>1
      <4>3. rank[t] = Max(t)
        BY <3>1, <3>3
      <4>4. rank[t] < rank[s]
        <5> HIDE DEF t, rank
        <5>1. QED
          BY <3>1, <4>1, <4>2, <4>3
      <4>5. QED
        BY <3>1, <4>4
    <3>4. QED
      BY <3>1, <3>2, <3>3
  <2>2. QED
    BY <2>1
<1>4. H \in [D \X [D -> V] -> V]
  <2>1. ASSUME NEW s \in D, NEW f \in [D -> V], s # {}
        PROVE  op[<<f[s \ {Max(s)}], Max(s)>>] \in V
    <3>1. s \ {Max(s)} \in D /\ Max(s) \in 1 .. n
      BY <1>1, <1>3, <2>1
    <3>2. QED
      BY <3>1
  <2>2. QED
    BY <2>1
<1>5. \A s \in D : \A f \in [D -> V] :
        H[<<s, f>>] = IF s = {} THEN base ELSE op[<<f[s \ {Max(s)}], Max(s)>>]
  OBVIOUS
<1> HIDE DEF H, rank, D
<1>6. ASSUME NEW s \in D, NEW f \in [D -> V], NEW g \in [D -> V],
             \A t \in D : rank[t] < rank[s] => f[t] = g[t]
      PROVE  H[<<s, f>>] = H[<<s, g>>]
  <2>1. CASE s = {}
    BY <1>5, <2>1
  <2>2. CASE s # {}
    <3>1. f[s \ {Max(s)}] = g[s \ {Max(s)}]
      BY <1>3, <1>6, <2>2
    <3>2. QED
      BY <1>5, <2>2, <3>1
  <2>3. QED
    BY <2>1, <2>2
<1>7. PICK g \in [D -> V] : \A s \in D : g[s] = H[<<s, g>>]
  <2>1. V # {}
    OBVIOUS
  <2>2. Descends(D, V, n, rank, H)
    BY <1>2, <1>4, <1>6, <2>1 DEF Descends
  <2>3. Solvable(D, V, H)
    BY <2>2, RecursionDefines
  <2>4. QED
    BY <2>3 DEF Solvable
<1>8. Folds(V, base, n, op, g)
  BY <1>5, <1>7 DEF D, Folds
<1>9. QED
  BY <1>8

\* A function that goes up from 0, or down to 1.
Steps(V, base, n, op) ==
  base \in V /\ n \in Nat /\ op \in [(1 .. n) \X V -> V]

Ascends(V, base, n, op, f) ==
  /\ f \in [0 .. n -> V] /\ f[0] = base
  /\ \A i \in 1 .. n : f[i] = op[<<i, f[i - 1]>>]

DescendsTo(V, base, n, op, f) ==
  /\ f \in [1 .. n + 1 -> V] /\ f[n + 1] = base
  /\ \A p \in 1 .. n : f[p] = op[<<p, f[p + 1]>>]

LEMMA Upwards ==
  ASSUME NEW V, NEW base, NEW n, NEW op, Steps(V, base, n, op)
  PROVE  \E f : Ascends(V, base, n, op, f)
<1> USE DEF Steps
<1> DEFINE Upto(k, f) == f[0] = base /\ \A i \in 1 .. n : i <= k =>
                                           f[i] = op[<<i, f[i - 1]>>]
           T == {k \in Nat : \E f \in [0 .. n -> V] : Upto(k, f)}
<1>1. 0 \in T
  <2>1. [i \in 0 .. n |-> base] \in [0 .. n -> V]
    OBVIOUS
  <2>2. Upto(0, [i \in 0 .. n |-> base])
    OBVIOUS
  <2>3. QED
    BY <2>1, <2>2
<1>2. ASSUME NEW k \in Nat, k \in T PROVE k + 1 \in T
  <2>1. PICK f \in [0 .. n -> V] : Upto(k, f)
    BY <1>2
  <2>2. CASE k + 1 > n
    <3>1. Upto(k + 1, f)
      BY <2>1, <2>2
    <3>2. QED
      BY <3>1
  <2>3. CASE k + 1 <= n
    <3> DEFINE v == op[<<k + 1, f[k]>>]
               g == [i \in 0 .. n |-> IF i = k + 1 THEN v ELSE f[i]]
    <3>1. v \in V
      BY <2>3
    <3> HIDE DEF v
    <3>2. g \in [0 .. n -> V]
      BY <3>1
    <3>3. g[0] = base /\ \A i \in 0 .. n : i # k + 1 => g[i] = f[i]
      BY <2>1
    <3>4. g[k + 1] = op[<<k + 1, g[k]>>]
      <4>1. k \in 0 .. n /\ k + 1 \in 0 .. n /\ k # k + 1
        BY <2>3
      <4>2. g[k] = f[k] /\ g[k + 1] = v
        BY <3>3, <4>1
      <4>3. QED
        BY <4>2 DEF v
    <3>5. ASSUME NEW i \in 1 .. n, i <= k + 1 PROVE g[i] = op[<<i, g[i - 1]>>]
      <4>1. CASE i = k + 1
        BY <3>4, <4>1
      <4>2. CASE i # k + 1
        <5>1. g[i] = f[i] /\ g[i - 1] = f[i - 1] /\ i <= k
          BY <3>3, <3>5, <4>2
        <5>2. QED
          BY <2>1, <5>1
      <4>3. QED
        BY <4>1, <4>2
    <3> HIDE DEF g
    <3>6. Upto(k + 1, g)
      BY <3>3, <3>5
    <3>7. QED
      BY <3>2, <3>6
  <2>4. QED
    BY <2>2, <2>3
<1>3. n \in T
  <2> HIDE DEF T
  <2>1. QED
    BY <1>1, <1>2, Induction
<1>4. QED
  BY <1>3 DEF Ascends

LEMMA Downwards ==
  ASSUME NEW V, NEW base, NEW n, NEW op, Steps(V, base, n, op)
  PROVE  \E f : DescendsTo(V, base, n, op, f)
<1> USE DEF Steps
<1> DEFINE back == [x \in (1 .. n) \X V |-> op[<<n + 1 - x[1], x[2]>>]]
<1>1. back \in [(1 .. n) \X V -> V]
  OBVIOUS
<1>2. \A i \in 1 .. n, v \in V : back[<<i, v>>] = op[<<n + 1 - i, v>>]
  OBVIOUS
<1> HIDE DEF back
<1>3. PICK f \in [0 .. n -> V] :
        f[0] = base /\ \A i \in 1 .. n : f[i] = back[<<i, f[i - 1]>>]
  <2>1. Steps(V, base, n, back)
    BY <1>1
  <2> HIDE DEF Steps
  <2>2. PICK f : Ascends(V, base, n, back, f)
    BY <2>1, Upwards
  <2>3. QED
    BY <2>2 DEF Ascends
<1> DEFINE g == [p \in 1 .. n + 1 |-> f[n + 1 - p]]
<1>4. g \in [1 .. n + 1 -> V] /\ g[n + 1] = base
  BY <1>3
<1>5. ASSUME NEW p \in 1 .. n PROVE g[p] = op[<<p, g[p + 1]>>]
  <2>1. n + 1 - p \in 1 .. n /\ n + 1 - (n + 1 - p) = p
    OBVIOUS
  <2>2. g[p] = f[n + 1 - p] /\ g[p + 1] = f[(n + 1 - p) - 1]
    OBVIOUS
  <2>3. f[(n + 1 - p) - 1] \in V
    BY <2>1
  <2>4. QED
    BY <1>2, <1>3, <2>1, <2>2, <2>3
<1> HIDE DEF g
<1>6. QED
  BY <1>4, <1>5 DEF DescendsTo

\* So what holds at the end, and at a place if at the next one, holds of all.
LEMMA FromTheEnd ==
  ASSUME NEW n \in Nat, NEW T, n + 1 \in T,
         \A p \in 1 .. n : p + 1 \in T => p \in T
  PROVE  1 .. n + 1 \subseteq T
<1> DEFINE U == {k \in Nat : \A p \in 1 .. n + 1 : n + 1 - p <= k => p \in T}
<1>1. 0 \in U
  OBVIOUS
<1>2. ASSUME NEW k \in Nat, k \in U PROVE k + 1 \in U
  <2>1. ASSUME NEW p \in 1 .. n + 1, n + 1 - p <= k + 1 PROVE p \in T
    <3>1. CASE p = n + 1
      BY <3>1
    <3>2. CASE p # n + 1
      <4>1. p \in 1 .. n /\ p + 1 \in 1 .. n + 1 /\ n + 1 - (p + 1) <= k
        BY <2>1, <3>2
      <4>2. p + 1 \in T
        BY <1>2, <4>1
      <4>3. QED
        BY <4>1, <4>2
    <3>3. QED
      BY <3>1, <3>2
  <2>2. QED
    BY <2>1
<1>3. n + 1 \in U
  <2> HIDE DEF U
  <2>1. QED
    BY <1>1, <1>2, Induction
<1>4. QED
  BY <1>3
=============================================================================
