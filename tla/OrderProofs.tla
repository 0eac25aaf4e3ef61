---------------------------- MODULE OrderProofs ----------------------------
(***************************************************************************)
(* What the proofs about loops rest on: induction over the numbers, the    *)
(* values a loop goes through, the order in which nested loops visit their *)
(* elements, chains of steps, and walks over a graph.                      *)
(***************************************************************************)
EXTENDS Order, Walk, FiniteSetTheorems, WellFoundedInduction, TLAPS

\* Induction over the natural numbers, for a set of numbers.
LEMMA Induct ==
    ASSUME NEW S \in SUBSET Nat, 0 \in S, \A n \in S : n + 1 \in S
    PROVE  S = Nat
<1> DEFINE R == OpToRel(<, Nat)
           U == Nat \ S
<1>1. IsWellFoundedOn(R, Nat)  BY NatLessThanWellFounded, Zenon
<1>2. SUFFICES ASSUME U # {} PROVE FALSE
  BY Zenon
<1>3. PICK x \in U : \A y \in U : ~(<<y, x>> \in R)
  <2> HIDE DEF R
  <2> QED BY <1>1, <1>2, WFMin, Zenon
<1>4. x # 0 /\ x - 1 \in Nat  OBVIOUS
<1>5. <<x - 1, x>> \in R  BY <1>4 DEF OpToRel
<1>6. x - 1 \in S
  <2> HIDE DEF R
  <2> QED BY <1>3, <1>4, <1>5
<1> QED BY <1>4, <1>6

\* g holds the values that a loop goes through in its first n rounds.
Rounds(g, n, base, round) == g[0] = base /\ \A i \in 1..n : g[i] = round[<<g[i - 1], i>>]

\* A loop of n rounds goes through n + 1 values, each computed from the one before.
LEMMA LoopValues ==
    ASSUME NEW T, NEW n \in Nat, NEW base \in T, NEW round \in [T \X (1..n) -> T]
    PROVE  \E g \in [0..n -> T] : Rounds(g, n, base, round)
<1> DEFINE Upto(m, g) == g[0] = base /\ \A i \in 1..m : g[i] = round[<<g[i - 1], i>>]
           S == {m \in Nat : m <= n => \E g \in [0..m -> T] : Upto(m, g)}
<1>1. 0 \in S
  <2>1. [i \in 0..0 |-> base] \in [0..0 -> T]  OBVIOUS
  <2>2. Upto(0, [i \in 0..0 |-> base])  OBVIOUS
  <2> HIDE DEF Upto
  <2> QED BY <2>1, <2>2
<1>2. ASSUME NEW m \in S PROVE m + 1 \in S
  <2> SUFFICES ASSUME m + 1 <= n PROVE \E g \in [0..(m + 1) -> T] : Upto(m + 1, g)
    OBVIOUS
  <2>1. PICK g \in [0..m -> T] : Upto(m, g)
    <3> HIDE DEF Upto
    <3> QED OBVIOUS
  <2>2. <<g[m], m + 1>> \in T \X (1..n)  OBVIOUS
  <2> DEFINE h == [i \in 0..(m + 1) |-> IF i = m + 1 THEN round[<<g[m], m + 1>>] ELSE g[i]]
  <2>3. h \in [0..(m + 1) -> T]  BY <2>2
  <2>4. h[0] = base  BY <2>1
  <2>5. ASSUME NEW i \in 1..(m + 1) PROVE h[i] = round[<<h[i - 1], i>>]
    <3>1. CASE i = m + 1
      <4>1. h[i] = round[<<g[m], m + 1>>] /\ h[i - 1] = g[m]  BY <3>1
      <4> QED BY <3>1, <4>1, Zenon
    <3>2. CASE i # m + 1
      <4>1. i \in 1..m /\ i - 1 \in 0..m  BY <3>2
      <4>2. h[i] = g[i] /\ h[i - 1] = g[i - 1]  BY <3>2, <4>1
      <4> QED BY <2>1, <4>1, <4>2
    <3> QED BY <3>1, <3>2
  <2> QED BY <2>3, <2>4, <2>5, Zenon
<1>3. S = Nat
  <2>1. S \in SUBSET Nat  OBVIOUS
  <2> HIDE DEF S
  <2> QED BY <1>1, <1>2, <2>1, Induct
<1>4. n \in S  BY <1>3, Zenon
<1> QED BY <1>4 DEF Rounds

-----------------------------------------------------------------------------
\* The loops visit each element of a finite set once, and number them from 1 on, without gap.
LEMMA InOrderBijective ==
    ASSUME NEW S \in SUBSET (Nat \X Nat), IsFiniteSet(S)
    PROVE  /\ Cardinality(S) \in Nat
           /\ InOrder(S) \in [1..Cardinality(S) -> S]
           /\ \A i, j \in 1..Cardinality(S) : InOrder(S)[i] = InOrder(S)[j] => i = j
           /\ \A x \in S : \E i \in 1..Cardinality(S) : InOrder(S)[i] = x
           /\ \A i, j \in 1..Cardinality(S) : i < j => Before(InOrder(S)[i], InOrder(S)[j])
<1> DEFINE below(x) == {y \in S : Before(y, x)}
           n == Cardinality(S)
           rank == [x \in S |-> Cardinality(below(x)) + 1]
<1>n. n \in Nat /\ IsFiniteSet(1..n) /\ Cardinality(1..n) = n
  BY FS_CardinalityType, FS_Interval
<1>1. \A x \in S : IsFiniteSet(below(x)) /\ Cardinality(below(x)) \in 0..(n - 1)
  <2> TAKE x \in S
  <2>1. below(x) \in SUBSET S /\ x \notin below(x)
    BY DEF Before
  <2>2. IsFiniteSet(below(x)) /\ Cardinality(below(x)) <= n /\ (n = Cardinality(below(x)) => S = below(x))
    BY <2>1, FS_Subset
  <2>3. Cardinality(below(x)) \in Nat
    BY <2>2, FS_CardinalityType
  <2> HIDE DEF below, n
  <2> QED BY <1>n, <2>1, <2>2, <2>3
<1>2. rank \in [S -> 1..n]
  <2> HIDE DEF below, n
  <2> QED BY <1>1, <1>n
<1>3. ASSUME NEW x \in S, NEW y \in S, Before(x, y)
      PROVE  rank[x] < rank[y]
  <2>1. below(x) \in SUBSET below(y) /\ x \in below(y) /\ x \notin below(x)
    BY <1>3 DEF Before
  <2>2. /\ Cardinality(below(y)) = Cardinality(below(x)) => below(y) = below(x)
        /\ Cardinality(below(x)) <= Cardinality(below(y))
    BY <2>1, <1>1, FS_Subset
  <2> HIDE DEF below, n
  <2> QED BY <1>1, <2>1, <2>2
<1>t. \A x, y \in S : x # y => Before(x, y) \/ Before(y, x)
  BY DEF Before
<1>4. rank \in Injection(S, 1..n)
  <2> HIDE DEF rank, n
  <2> QED BY <1>2, <1>3, <1>t DEF Injection, IsInjective
<1>5. rank \in Surjection(S, 1..n)
  BY <1>4, <1>n, FS_Injection
<1>6. \A i \in 1..n : InOrder(S)[i] \in S /\ rank[InOrder(S)[i]] = i
  <2> TAKE i \in 1..n
  <2>1. PICK x \in S : rank[x] = i
    BY <1>5, Zenon DEF Surjection
  <2>2. Cardinality(below(x)) = i - 1
    <3> HIDE DEF below, n
    <3> QED BY <1>1, <1>n, <2>1
  <2>3. InOrder(S)[i] = CHOOSE z \in S : Cardinality(below(z)) = i - 1
    BY DEF InOrder
  <2>4. InOrder(S)[i] \in S /\ Cardinality(below(InOrder(S)[i])) = i - 1
    <3> HIDE DEF below
    <3> QED BY <2>2, <2>3
  <2> HIDE DEF below, n
  <2> QED BY <1>1, <1>n, <2>4
<1>7. InOrder(S) \in [1..n -> S]
  <2>1. InOrder(S) = [i \in 1..n |-> InOrder(S)[i]]
    BY SMTT(30) DEF InOrder
  <2> HIDE DEF rank, n
  <2> QED BY <1>6, <2>1
<1>8. \A x \in S : rank[x] \in 1..n /\ InOrder(S)[rank[x]] = x
  <2> HIDE DEF rank, n
  <2> QED BY <1>2, <1>4, <1>6 DEF Injection, IsInjective
<1>9. ASSUME NEW i \in 1..n, NEW j \in 1..n, i < j PROVE Before(InOrder(S)[i], InOrder(S)[j])
  <2> HIDE DEF rank, n
  <2>1. InOrder(S)[i] # InOrder(S)[j] BY <1>6, <1>9
  <2>2. ~Before(InOrder(S)[j], InOrder(S)[i]) BY <1>3, <1>6, <1>9, <1>n
  <2> QED BY <1>6, <1>t, <2>1, <2>2
<1> HIDE DEF rank
<1> QED BY <1>n, <1>6, <1>7, <1>8, <1>9

\* An enumeration of a set that goes up is the order of the loops.
LEMMA InOrderUnique ==
    ASSUME NEW S \in SUBSET (Nat \X Nat), NEW n \in Nat, NEW e \in [1..n -> S],
           \A x \in S : \E i \in 1..n : e[i] = x,
           \A i, j \in 1..n : i < j => Before(e[i], e[j])
    PROVE  IsFiniteSet(S) /\ Cardinality(S) = n /\ InOrder(S) = e
<1>0. IsFiniteSet(1..n) /\ Cardinality(1..n) = n
  BY FS_Interval
<1>b. \A x, y \in S : Before(x, y) => x # y /\ ~Before(y, x)
  BY DEF Before
<1>1. \A i, j \in 1..n : e[i] = e[j] => i = j
  BY <1>b
<1>2. e \in Bijection(1..n, S)
  BY <1>1 DEF Bijection, Injection, Surjection, IsInjective
<1>3. IsFiniteSet(S) /\ Cardinality(S) = n
  <2>1. ExistsBijection(1..n, S)  BY <1>2 DEF ExistsBijection
  <2> QED BY <1>0, <2>1, FS_Bijection
<1>4. ASSUME NEW i \in 1..n PROVE Cardinality({y \in S : Before(y, e[i])}) = i - 1
  <2> DEFINE B == {y \in S : Before(y, e[i])}
             f == [j \in 1..(i - 1) |-> e[j]]
  <2>1. \A j \in 1..(i - 1) : f[j] = e[j] /\ j \in 1..n /\ f[j] \in B
    OBVIOUS
  <2>2. ASSUME NEW y \in B PROVE \E j \in 1..(i - 1) : f[j] = y
    <3>1. PICK j \in 1..n : e[j] = y  OBVIOUS
    <3>2. Before(e[j], e[i])  BY <3>1
    <3>3. ~(i < j) /\ j # i  BY <1>b, <3>2
    <3> QED BY <3>1, <3>3
  <2>3. f \in [1..(i - 1) -> B]  BY <2>1
  <2>4. f \in Bijection(1..(i - 1), B)
    <3> HIDE DEF B, f
    <3> QED BY <1>1, <2>1, <2>2, <2>3 DEF Bijection, Injection, Surjection, IsInjective
  <2>5. IsFiniteSet(1..(i - 1)) /\ Cardinality(1..(i - 1)) = i - 1
    <3>1. 1 \in Int /\ i - 1 \in Int  OBVIOUS
    <3> QED BY <3>1, FS_Interval
  <2> HIDE DEF B, f
  <2>6. ExistsBijection(1..(i - 1), B)  BY <2>4 DEF ExistsBijection
  <2>7. Cardinality(B) = i - 1  BY <2>5, <2>6, FS_Bijection
  <2> QED BY <2>7 DEF B
<1>5. ASSUME NEW i \in 1..n PROVE InOrder(S)[i] = e[i]
  <2>1. InOrder(S)[i] = CHOOSE x \in S : Cardinality({y \in S : Before(y, x)}) = i - 1
    BY <1>3, Zenon DEF InOrder
  <2>2. ASSUME NEW x \in S, Cardinality({y \in S : Before(y, x)}) = i - 1 PROVE x = e[i]
    <3>1. PICK j \in 1..n : e[j] = x  OBVIOUS
    <3>2. j - 1 = i - 1  BY <1>4, <2>2, <3>1, Zenon
    <3> QED BY <3>1, <3>2
  <2> DEFINE P(x) == Cardinality({y \in S : Before(y, x)}) = i - 1
  <2>3. P(e[i])  BY <1>4
  <2>4. \A x \in S : P(x) => x = e[i]  BY <2>2
  <2>5. InOrder(S)[i] = CHOOSE x \in S : P(x)  BY <2>1
  <2> HIDE DEF P
  <2> QED BY <2>3, <2>4, <2>5
<1> QED
  <2>1. InOrder(S) \in [1..n -> S]  BY <1>3, InOrderBijective, Zenon
  <2>2. InOrder(S) = e  BY <1>5, <2>1
  <2> QED BY <1>3, <2>2

\* Finitely many groups of finitely many elements each.
LEMMA FinitePairs ==
    ASSUME NEW w \in Nat, NEW count \in [1..w -> Nat]
    PROVE  LET all == UNION {{j} \X (1..count[j]) : j \in 1..w}
           IN  all \in SUBSET (Nat \X Nat) /\ IsFiniteSet(all)
<1> DEFINE part == [j \in 1..w |-> {j} \X (1..count[j])]
           parts == {{j} \X (1..count[j]) : j \in 1..w}
<1>1. part \in Surjection(1..w, parts)
  BY Zenon DEF Surjection
<1>2. IsFiniteSet(1..w)
  BY FS_Interval
<1>3. IsFiniteSet(parts)
  <2> HIDE DEF part, parts
  <2> QED BY <1>1, <1>2, FS_Surjection
<1>4. \A T \in parts : IsFiniteSet(T)
  <2> SUFFICES ASSUME NEW j \in 1..w PROVE IsFiniteSet({j} \X (1..count[j]))
    OBVIOUS
  <2>1. IsFiniteSet({j}) BY FS_Singleton, Zenon
  <2>2. 1 \in Int /\ count[j] \in Int OBVIOUS
  <2>3. IsFiniteSet(1..count[j]) BY <2>2, FS_Interval
  <2> QED BY <2>1, <2>3, FS_Product
<1>5. IsFiniteSet(UNION parts)
  <2> HIDE DEF parts
  <2> QED BY <1>3, <1>4, FS_UNION
<1>6. UNION parts \in SUBSET (Nat \X Nat)
  OBVIOUS
<1> QED BY <1>5, <1>6

-----------------------------------------------------------------------------
\* Following next from x for e steps leads to t.
Chain(N, next, e, x, t) ==
    \E g \in [0..e -> N] : g[0] = x /\ g[e] = t /\ \A i \in 1..e : g[i] = next[g[i - 1]]

\* No step leads nowhere.
LEMMA ChainZero ==
    ASSUME NEW N, NEW next, NEW x \in N, NEW t
    PROVE  Chain(N, next, 0, x, t) <=> x = t
<1>1. ASSUME x = t PROVE Chain(N, next, 0, x, t)
  <2> DEFINE g == [i \in 0..0 |-> x]
  <2>1. g \in [0..0 -> N] /\ g[0] = x  OBVIOUS
  <2>2. \A i \in 1..0 : g[i] = next[g[i - 1]]  OBVIOUS
  <2> HIDE DEF g
  <2> QED BY <1>1, <2>1, <2>2 DEF Chain
<1> QED BY <1>1 DEF Chain

\* The first step first.
LEMMA ChainFirst ==
    ASSUME NEW N, NEW next \in [N -> N], NEW e \in Nat, NEW x \in N, NEW t
    PROVE  Chain(N, next, e + 1, x, t) <=> Chain(N, next, e, next[x], t)
<1>1. ASSUME NEW g \in [0..(e + 1) -> N], g[0] = x, g[e + 1] = t,
             \A i \in 1..(e + 1) : g[i] = next[g[i - 1]]
      PROVE  Chain(N, next, e, next[x], t)
  <2> DEFINE h == [i \in 0..e |-> g[i + 1]]
  <2>1. h \in [0..e -> N] /\ h[e] = t  BY <1>1
  <2>2. h[0] = next[x]
    <3>1. 1 \in 1..(e + 1) /\ 0 \in 0..e /\ 1 - 1 = 0  OBVIOUS
    <3>2. g[1] = next[g[1 - 1]]  BY <1>1, <3>1
    <3> QED BY <1>1, <3>1, <3>2
  <2>3. ASSUME NEW i \in 1..e PROVE h[i] = next[h[i - 1]]
    <3>1. i \in 0..e /\ i - 1 \in 0..e /\ i + 1 \in 1..(e + 1) /\ (i + 1) - 1 = (i - 1) + 1  OBVIOUS
    <3>2. h[i] = g[i + 1] /\ h[i - 1] = g[(i - 1) + 1]  BY <3>1
    <3>3. g[i + 1] = next[g[(i + 1) - 1]]  BY <1>1, <3>1
    <3> QED BY <3>1, <3>2, <3>3
  <2> HIDE DEF h
  <2> QED BY <2>1, <2>2, <2>3 DEF Chain
<1>2. ASSUME NEW h \in [0..e -> N], h[0] = next[x], h[e] = t, \A i \in 1..e : h[i] = next[h[i - 1]]
      PROVE  Chain(N, next, e + 1, x, t)
  <2> DEFINE g == [i \in 0..(e + 1) |-> IF i = 0 THEN x ELSE h[i - 1]]
  <2>1. g \in [0..(e + 1) -> N] /\ g[0] = x /\ g[e + 1] = t  BY <1>2
  <2>2. ASSUME NEW i \in 1..(e + 1) PROVE g[i] = next[g[i - 1]]
    <3>1. g[i] = h[i - 1]  OBVIOUS
    <3>2. CASE i = 1
      <4>1. g[0] = x /\ i - 1 = 0  BY <3>2
      <4> QED BY <1>2, <3>1, <4>1
    <3>3. CASE i # 1
      <4>1. i - 1 \in 1..e /\ i - 1 \in 0..(e + 1) /\ i - 1 # 0  BY <3>3
      <4>2. g[i - 1] = h[(i - 1) - 1]  BY <4>1
      <4> QED BY <1>2, <3>1, <4>1, <4>2
    <3> QED BY <3>2, <3>3
  <2> HIDE DEF g
  <2> QED BY <2>1, <2>2 DEF Chain
<1> QED BY <1>1, <1>2 DEF Chain

\* An end that is its own successor stays the end.
LEMMA ChainLast ==
    ASSUME NEW N, NEW next, NEW e \in Nat, NEW x \in N, NEW t \in N, next[t] = t, Chain(N, next, e, x, t)
    PROVE  Chain(N, next, e + 1, x, t)
<1>1. PICK h \in [0..e -> N] : h[0] = x /\ h[e] = t /\ \A i \in 1..e : h[i] = next[h[i - 1]]
  BY DEF Chain
<1> DEFINE g == [i \in 0..(e + 1) |-> IF i = e + 1 THEN t ELSE h[i]]
<1>2. g \in [0..(e + 1) -> N] /\ g[0] = x /\ g[e + 1] = t  BY <1>1
<1>3. ASSUME NEW i \in 1..(e + 1) PROVE g[i] = next[g[i - 1]]
  <2>1. i - 1 \in 0..e /\ i - 1 \in 0..(e + 1) /\ i - 1 # e + 1  OBVIOUS
  <2>2. g[i - 1] = h[i - 1]  BY <2>1
  <2>3. CASE i = e + 1
    <3>1. g[i] = t /\ h[i - 1] = t  BY <1>1, <2>3
    <3> QED BY <2>2, <3>1
  <2>4. CASE i # e + 1
    <3>1. i \in 1..e /\ g[i] = h[i]  BY <2>4
    <3> QED BY <1>1, <2>2, <3>1
  <2> QED BY <2>3, <2>4
<1> HIDE DEF g
<1> QED BY <1>2, <1>3 DEF Chain

\* f follows next from k for w rounds.
Follows(f, next, w, k) == f[0] = k /\ \A i \in 1..w : f[i] = next[f[i - 1]]

\* A loop that follows next for w rounds ends where the chain does.
LEMMA ChainLoop ==
    ASSUME NEW N, NEW next \in [N -> N], NEW w \in Nat, NEW k \in N, NEW f, Follows(f, next, w, k)
    PROVE  f[w] \in N /\ \A t : Chain(N, next, w, k, t) <=> f[w] = t
<1> USE DEF Follows
<1>1. ASSUME NEW g, Follows(g, next, w, k) PROVE \A i \in 0..w : g[i] \in N /\ g[i] = f[i]
  <2> DEFINE S == {i \in Nat : i <= w => g[i] \in N /\ g[i] = f[i]}
  <2>1. 0 \in S  BY <1>1
  <2>2. ASSUME NEW i \in S PROVE i + 1 \in S
    <3> SUFFICES ASSUME i + 1 <= w PROVE g[i + 1] \in N /\ g[i + 1] = f[i + 1]
      OBVIOUS
    <3>1. i + 1 \in 1..w /\ (i + 1) - 1 = i /\ i <= w  OBVIOUS
    <3>2. g[i] \in N /\ f[i] = g[i]  BY <3>1
    <3>3. f[i + 1] = next[f[(i + 1) - 1]] /\ g[i + 1] = next[g[(i + 1) - 1]]  BY <1>1, <3>1
    <3> QED BY <3>1, <3>2, <3>3
  <2>3. S = Nat
    <3>1. S \in SUBSET Nat  OBVIOUS
    <3> HIDE DEF S
    <3> QED BY <2>1, <2>2, <3>1, Induct
  <2> QED BY <2>3
<1>2. \A i \in 0..w : f[i] \in N  BY <1>1
<1> DEFINE h == [i \in 0..w |-> f[i]]
<1>3. h \in [0..w -> N] /\ h[0] = k /\ h[w] = f[w]  BY <1>2
<1>4. \A i \in 1..w : h[i] = next[h[i - 1]]
  <2> SUFFICES ASSUME NEW i \in 1..w PROVE h[i] = next[h[i - 1]]
    OBVIOUS
  <2>1. i \in 0..w /\ i - 1 \in 0..w  OBVIOUS
  <2> QED BY <2>1
<1> HIDE DEF h
<1>5. Chain(N, next, w, k, f[w])  BY <1>3, <1>4 DEF Chain
<1>6. ASSUME NEW t, Chain(N, next, w, k, t) PROVE f[w] = t
  <2>1. PICK g \in [0..w -> N] : g[0] = k /\ g[w] = t /\ \A i \in 1..w : g[i] = next[g[i - 1]]
    BY <1>6 DEF Chain
  <2> QED BY <1>1, <2>1
<1> QED BY <1>2, <1>5, <1>6

\* Node b is merged into node a.
Joined(a, b, k) == IF k = b THEN a ELSE k

\* Taking out the step from b to a leads to the same end.
LEMMA ChainJoined ==
    ASSUME NEW N, NEW f \in [N -> N], NEW h \in [N -> N], NEW a \in N, NEW b \in N, a # b, f[b] = a,
           NEW t \in N, f[t] = t, \A x \in N : x # b => h[x] = Joined(a, b, f[x])
    PROVE  /\ h[t] = t
           /\ \A e \in Nat, x \in N : Chain(N, f, e, x, t) => Chain(N, h, e, Joined(a, b, x), t)
<1>1. t # b /\ h[t] = t  BY DEF Joined
<1>j. \A x \in N : Joined(a, b, x) \in N  BY DEF Joined
<1> DEFINE S == {e \in Nat : \A x \in N : Chain(N, f, e, x, t) => Chain(N, h, e, Joined(a, b, x), t)}
<1>2. 0 \in S
  <2> SUFFICES ASSUME NEW x \in N, Chain(N, f, 0, x, t) PROVE Chain(N, h, 0, Joined(a, b, x), t)
    OBVIOUS
  <2>1. Joined(a, b, x) = t  BY <1>1, ChainZero DEF Joined
  <2> QED BY <1>j, <2>1, ChainZero
<1>3. ASSUME NEW e \in S PROVE e + 1 \in S
  <2> SUFFICES ASSUME NEW x \in N, Chain(N, f, e + 1, x, t) PROVE Chain(N, h, e + 1, Joined(a, b, x), t)
    OBVIOUS
  <2>1. e \in Nat  OBVIOUS
  <2>2. f[x] \in N /\ Chain(N, f, e, f[x], t)  BY <2>1, ChainFirst
  <2>3. Chain(N, h, e, Joined(a, b, f[x]), t)  BY <2>2
  <2> HIDE DEF S
  <2>4. CASE x = b
    <3>1. Joined(a, b, x) = a /\ Joined(a, b, f[x]) = a  BY <2>4 DEF Joined
    <3> QED BY <1>1, <2>1, <2>3, <3>1, ChainLast
  <2>5. CASE x # b
    <3>1. Joined(a, b, x) = x /\ h[x] = Joined(a, b, f[x])  BY <2>5 DEF Joined
    <3> QED BY <2>1, <2>3, <3>1, ChainFirst
  <2> QED BY <2>4, <2>5
<1>4. S = Nat
  <2>1. S \in SUBSET Nat  OBVIOUS
  <2> HIDE DEF S
  <2> QED BY <1>2, <1>3, <2>1, Induct
<1> QED BY <1>1, <1>4

-----------------------------------------------------------------------------
\* The list names nothing twice.
Once(s) == \A i, j \in 1..Len(s) : s[i] = s[j] => i = j

\* A list of a set, upwards, holds each of its elements once.
LEMMA AscendingFacts ==
    ASSUME NEW S \in SUBSET Nat, IsFiniteSet(S)
    PROVE  Ascending(S) \in Seq(S) /\ Range(Ascending(S)) = S /\ Once(Ascending(S))
<1> DEFINE P == {0} \X S
           n == Cardinality(P)
           m == Cardinality(S)
<1>1. IsFiniteSet({0}) /\ Cardinality({0}) = 1  BY FS_Singleton, Zenon
<1>2. IsFiniteSet(P) /\ n = 1 * m  BY <1>1, FS_Product, Zenon
<1>3. m \in Nat  BY FS_CardinalityType, Zenon
<1>4. P \in SUBSET (Nat \X Nat)
  <2>1. 0 \in Nat  OBVIOUS
  <2>2. \A x \in S : x \in Nat  BY Zenon
  <2> QED BY <2>1, <2>2, Zenon
<1>5. n = m  BY <1>2, <1>3
<1>6. /\ InOrder(P) \in [1..m -> P]
      /\ \A i, j \in 1..m : InOrder(P)[i] = InOrder(P)[j] => i = j
      /\ \A x \in P : \E i \in 1..m : InOrder(P)[i] = x
  <2> HIDE DEF P, m
  <2> QED BY <1>2, <1>4, <1>5, InOrderBijective
<1> DEFINE a == [i \in 1..m |-> InOrder(P)[i][2]]
<1>7. a \in [1..m -> S]  BY <1>6
<1>8. Ascending(S) = a  BY Zenon DEF Ascending
<1>9. a \in Seq(S) /\ Len(a) = m
  <2> HIDE DEF a, m
  <2> QED BY <1>3, <1>7
<1>10. \A i, j \in 1..m : a[i] = a[j] => i = j
  <2> SUFFICES ASSUME NEW i \in 1..m, NEW j \in 1..m, a[i] = a[j] PROVE i = j
    BY Zenon
  <2> HIDE DEF n, m
  <2>1. InOrder(P)[i][2] = InOrder(P)[j][2]  BY Zenon
  <2>2. InOrder(P)[i] \in {0} \X S /\ InOrder(P)[j] \in {0} \X S  BY <1>6, Zenon
  <2> HIDE DEF P, a
  <2>3. InOrder(P)[i] = InOrder(P)[j]  BY <2>1, <2>2
  <2> QED BY <1>6, <2>3, Zenon
<1>11. \A x \in S : \E i \in 1..m : a[i] = x
  <2> SUFFICES ASSUME NEW x \in S PROVE \E i \in 1..m : a[i] = x
    BY Zenon
  <2>1. <<0, x>> \in P  OBVIOUS
  <2>2. PICK i \in 1..m : InOrder(P)[i] = <<0, x>>  BY <1>6, <2>1
  <2> HIDE DEF m, P
  <2> QED BY <2>2
<1>12. Range(a) = S
  <2> HIDE DEF a, m
  <2> QED BY <1>7, <1>11 DEF Range
<1> HIDE DEF a, m
<1> QED BY <1>8, <1>9, <1>10, <1>12 DEF Once

\* Sequences: the last element taken off.
LEMMA PopFacts ==
    ASSUME NEW V, NEW s \in Seq(V), Once(s), Len(s) # 0
    PROVE  LET x == s[Len(s)]
               front == SubSeq(s, 1, Len(s) - 1)
           IN  /\ x \in V /\ x \in Range(s)
               /\ front \in Seq(V) /\ Once(front)
               /\ Range(front) = Range(s) \ {x}
<1> DEFINE x == s[Len(s)]
           front == SubSeq(s, 1, Len(s) - 1)
<1>1. Len(s) \in Nat /\ Len(s) \in 1..Len(s) /\ DOMAIN s = 1..Len(s) /\ s \in [1..Len(s) -> V]  OBVIOUS
<1>2. front \in Seq(V) /\ Len(front) = Len(s) - 1 /\ DOMAIN front = 1..(Len(s) - 1)  BY <1>1
<1>3. \A i \in 1..(Len(s) - 1) : front[i] = s[i] /\ i \in 1..Len(s) /\ i # Len(s)
  <2> SUFFICES ASSUME NEW i \in 1..(Len(s) - 1) PROVE front[i] = s[i] /\ i \in 1..Len(s) /\ i # Len(s)
    BY Zenon
  <2>1. i \in 1..Len(s) /\ i # Len(s)
    <3> DEFINE m == Len(s)
    <3>1. m \in Nat /\ i \in 1..(m - 1)  BY <1>1, Zenon
    <3> HIDE DEF m
    <3>2. i \in 1..m /\ i # m  BY <3>1
    <3> QED BY <3>2, Zenon DEF m
  <2>2. front[i] = s[i]  BY <1>1
  <2> QED BY <2>1, <2>2, Zenon
<1>4. x \in V /\ x \in Range(s)  BY <1>1 DEF Range
<1> HIDE DEF x, front
<1>5. Once(front)  BY <1>1, <1>2, <1>3 DEF Once
<1>6. Range(front) \subseteq Range(s) \ {x}
  <2> SUFFICES ASSUME NEW i \in 1..(Len(s) - 1) PROVE front[i] \in Range(s) /\ front[i] # x
    BY <1>2, Zenon DEF Range
  <2>1. s[i] # s[Len(s)]  BY <1>1, <1>3, Zenon DEF Once
  <2> QED BY <1>1, <1>3, <2>1, Zenon DEF Range, x
<1>7. Range(s) \ {x} \subseteq Range(front)
  <2> SUFFICES ASSUME NEW i \in 1..Len(s), s[i] # x PROVE s[i] \in Range(front)
    BY <1>1, Zenon DEF Range
  <2>1. i # Len(s)  BY Zenon DEF x
  <2>2. i \in 1..(Len(s) - 1)
    <3> DEFINE m == Len(s)
    <3>1. m \in Nat /\ i \in 1..m /\ i # m  BY <1>1, <2>1, Zenon
    <3> HIDE DEF m
    <3>2. i \in 1..(m - 1)  BY <3>1
    <3> QED BY <3>2, Zenon DEF m
  <2> QED BY <1>2, <1>3, <2>2, Zenon DEF Range
<1> QED BY <1>2, <1>4, <1>5, <1>6, <1>7, Zenon DEF x, front

\* Sequences: one after another.
LEMMA ConcatFacts ==
    ASSUME NEW V, NEW s \in Seq(V), NEW t \in Seq(V), Once(s), Once(t), Range(s) \cap Range(t) = {}
    PROVE  s \o t \in Seq(V) /\ Once(s \o t) /\ Range(s \o t) = Range(s) \cup Range(t)
<1> DEFINE u == s \o t
           m == Len(s)
           n == Len(t)
<1>1. m \in Nat /\ n \in Nat /\ DOMAIN s = 1..m /\ DOMAIN t = 1..n  OBVIOUS
<1>2. u \in Seq(V) /\ Len(u) = m + n /\ DOMAIN u = 1..(m + n)  OBVIOUS
<1>3. \A i \in 1..m : u[i] = s[i] /\ i \in 1..(m + n)  OBVIOUS
<1>4. \A i \in 1..n : u[m + i] = t[i] /\ m + i \in 1..(m + n)  OBVIOUS
<1> HIDE DEF u, m, n
<1>5. \A i \in 1..(m + n) : i \in 1..m \/ \E j \in 1..n : i = m + j
  <2> SUFFICES ASSUME NEW i \in 1..(m + n), i \notin 1..m PROVE i - m \in 1..n /\ i = m + (i - m)
    BY Zenon
  <2> QED BY <1>1
<1>6. Range(u) = Range(s) \cup Range(t)
  <2>1. Range(u) \subseteq Range(s) \cup Range(t)
    <3> SUFFICES ASSUME NEW i \in 1..(m + n) PROVE u[i] \in Range(s) \cup Range(t)
      BY <1>2, Zenon DEF Range
    <3> QED BY <1>1, <1>3, <1>4, <1>5, Zenon DEF Range
  <2>2. Range(s) \cup Range(t) \subseteq Range(u)
    <3>1. \A i \in 1..m : s[i] \in Range(u)  BY <1>2, <1>3, Zenon DEF Range
    <3>2. \A i \in 1..n : t[i] \in Range(u)  BY <1>2, <1>4, Zenon DEF Range
    <3> QED BY <1>1, <3>1, <3>2, Zenon DEF Range
  <2> QED BY <2>1, <2>2, Zenon
<1>7. ASSUME NEW i \in 1..m, NEW j \in 1..n PROVE s[i] # t[j]
  <2>1. s[i] \in Range(s) /\ t[j] \in Range(t)  BY <1>1, Zenon DEF Range
  <2> QED BY <2>1, Zenon
<1>8. Once(u)
  <2> SUFFICES ASSUME NEW i \in 1..(m + n), NEW j \in 1..(m + n), u[i] = u[j] PROVE i = j
    BY <1>2, Zenon DEF Once
  <2>1. CASE i \in 1..m /\ j \in 1..m
    <3>1. s[i] = s[j]  BY <1>3, <2>1, Zenon
    <3> QED BY <2>1, <3>1, Zenon DEF Once, m
  <2>2. CASE \E k \in 1..n : i = m + k
    <3>1. PICK k \in 1..n : i = m + k  BY <2>2, Zenon
    <3>2. u[i] = t[k]  BY <1>4, <3>1, Zenon
    <3>3. j \notin 1..m  BY <1>3, <1>7, <3>2, Zenon
    <3>4. PICK l \in 1..n : j = m + l  BY <1>5, <3>3, Zenon
    <3>5. t[k] = t[l]  BY <1>4, <3>2, <3>4, Zenon
    <3>6. k = l  BY <3>5, Zenon DEF Once, n
    <3> QED BY <3>1, <3>4, <3>6, Zenon
  <2>3. CASE i \in 1..m /\ \E k \in 1..n : j = m + k
    <3>1. PICK k \in 1..n : j = m + k  BY <2>3, Zenon
    <3>2. u[j] = t[k] /\ u[i] = s[i]  BY <1>3, <1>4, <2>3, <3>1, Zenon
    <3> QED BY <1>7, <2>3, <3>2, Zenon
  <2> QED BY <1>5, <2>1, <2>2, <2>3, Zenon
<1> QED BY <1>2, <1>6, <1>8, Zenon DEF u

\* A list that names nothing twice is as long as the set it lists, and no longer than one that holds it.
LEMMA OnceLength ==
    ASSUME NEW V, IsFiniteSet(V), NEW s \in Seq(V), Once(s)
    PROVE  /\ Cardinality(Range(s)) = Len(s)
           /\ Len(s) = Cardinality(V) => Range(s) = V
<1>1. Len(s) \in Nat /\ s \in [1..Len(s) -> V] /\ DOMAIN s = 1..Len(s)  OBVIOUS
<1>2. IsFiniteSet(1..Len(s)) /\ Cardinality(1..Len(s)) = Len(s)  BY <1>1, FS_Interval
<1>3. Range(s) \subseteq V  BY <1>1 DEF Range
<1>4. s \in Bijection(1..Len(s), Range(s))
  <2>1. s \in [1..Len(s) -> Range(s)]  BY <1>1 DEF Range
  <2>2. \A y \in Range(s) : \E i \in 1..Len(s) : s[i] = y  BY <1>1, Zenon DEF Range
  <2> QED BY <1>1, <2>1, <2>2 DEF Bijection, Injection, Surjection, IsInjective, Once
<1>5. ExistsBijection(1..Len(s), Range(s))  BY <1>4, Zenon DEF ExistsBijection
<1>6. Cardinality(Range(s)) = Len(s)  BY <1>2, <1>5, FS_Bijection, Zenon
<1>7. Cardinality(V) = Cardinality(Range(s)) => V = Range(s)  BY <1>3, FS_Subset, Zenon
<1> QED BY <1>6, <1>7, Zenon
-----------------------------------------------------------------------------
\* A finite graph whose edges go both ways.
Graph(V, next) ==
    /\ V \in SUBSET Nat /\ IsFiniteSet(V)
    /\ next \in [V -> SUBSET V]
    /\ \A j, k \in V : k \in next[j] => j \in next[k]

\* What a node reaches is the smallest set of nodes that holds it and no edge leaves.
LEMMA ReachFacts ==
    ASSUME NEW V, NEW next, Graph(V, next), NEW x \in V
    PROVE  /\ Reach(next, x) \in SUBSET V /\ x \in Reach(next, x) /\ Closed(next, Reach(next, x))
           /\ \A C \in SUBSET V : x \in C /\ Closed(next, C) => Reach(next, x) \subseteq C
<1> DEFINE R == Reach(next, x)
<1>1. DOMAIN next = V /\ next \in [V -> SUBSET V]  BY Zenon DEF Graph
<1>2. R = {k \in V : \A C \in SUBSET V : x \in C /\ Closed(next, C) => k \in C}  BY <1>1, Zenon DEF Reach
<1>3. ASSUME NEW k \in R, NEW j \in next[k] PROVE j \in R
  <2>1. k \in V /\ j \in V  BY <1>1, <1>2, <1>3
  <2>2. ASSUME NEW C \in SUBSET V, x \in C, Closed(next, C) PROVE j \in C
    <3>1. k \in C  BY <1>2, <2>2, Zenon
    <3> QED BY <1>3, <2>2, <3>1, Zenon DEF Closed
  <2> HIDE DEF R
  <2> QED BY <1>2, <2>1, <2>2, Zenon
<1>4. Closed(next, R)  BY <1>3, Zenon DEF Closed
<1> QED BY <1>2, <1>4, Zenon

\* No edge leaves what is left of a closed set without another.
LEMMA ClosedWithout ==
    ASSUME NEW V, NEW next, Graph(V, next), NEW C \in SUBSET V, NEW D \in SUBSET V,
           Closed(next, C), Closed(next, D)
    PROVE  Closed(next, C \ D)
<1> SUFFICES ASSUME NEW k \in C \ D, NEW j \in next[k], j \in D PROVE FALSE
  BY Zenon DEF Closed
<1>1. j \in V /\ k \in V /\ k \in next[j]
  <2>1. next \in [V -> SUBSET V] /\ k \in V  BY Zenon DEF Graph
  <2>2. j \in V  BY <2>1
  <2> QED BY <2>1, <2>2, Zenon DEF Graph
<1> QED BY <1>1, Zenon DEF Closed

\* Nodes that reach one another reach the same nodes.
LEMMA ReachSame ==
    ASSUME NEW V, NEW next, Graph(V, next), NEW x \in V, NEW y \in Reach(next, x)
    PROVE  y \in V /\ Reach(next, y) = Reach(next, x)
<1> DEFINE X == Reach(next, x)
           Y == Reach(next, y)
<1>1. X \in SUBSET V /\ x \in X /\ Closed(next, X)  BY ReachFacts, Zenon
<1>2. y \in V  BY <1>1, Zenon
<1>3. Y \in SUBSET V /\ y \in Y /\ Closed(next, Y)  BY <1>2, ReachFacts, Zenon
<1>4. Y \subseteq X  BY <1>1, <1>2, ReachFacts, Zenon
<1>5. x \in Y
  <2> SUFFICES ASSUME x \notin Y PROVE FALSE
    BY Zenon
  <2> DEFINE D == X \ Y
  <2>1. Closed(next, D)  BY <1>1, <1>3, ClosedWithout, Zenon
  <2>2. x \in D /\ D \in SUBSET V  BY <1>1, Zenon
  <2>3. X \subseteq D
    <3> HIDE DEF D
    <3> QED BY <2>1, <2>2, ReachFacts, Zenon
  <2> QED BY <1>3, <2>3, Zenon
<1>6. X \subseteq Y  BY <1>3, <1>5, ReachFacts, Zenon
<1> QED BY <1>2, <1>4, <1>6, Zenon

\* What a node outside a closed set reaches is outside it.
LEMMA ReachOutside ==
    ASSUME NEW V, NEW next, Graph(V, next), NEW D \in SUBSET V, Closed(next, D), NEW x \in V \ D
    PROVE  Reach(next, x) \cap D = {}
<1> DEFINE rest == V \ D
<1>1. rest \in SUBSET V /\ x \in rest  BY Zenon
<1>2. Closed(next, rest)
  <2>1. Closed(next, V)  BY Zenon DEF Closed, Graph
  <2> QED BY <2>1, ClosedWithout, Zenon
<1>3. Reach(next, x) \subseteq rest
  <2> HIDE DEF rest
  <2> QED BY <1>1, <1>2, ReachFacts, Zenon
<1> QED BY <1>3, Zenon

-----------------------------------------------------------------------------
\* The state of a walk.
WalkType(V) == [stack : Seq(V), seen : SUBSET V, visited : Seq(V)]

\* A walk from start with i rounds done: what is on the stack and what is visited was reached and
\* is listed once, and the neighbours of what is visited are seen.
Walked(V, next, seen, start, i, w) ==
    /\ w \in WalkType(V)
    /\ Once(w.stack) /\ Once(w.visited)
    /\ Range(w.stack) \cap Range(w.visited) = {}
    /\ w.seen = seen \cup (Range(w.stack) \cup Range(w.visited))
    /\ (Range(w.stack) \cup Range(w.visited)) \cap seen = {}
    /\ Range(w.stack) \cup Range(w.visited) \subseteq Reach(next, start)
    /\ start \in Range(w.stack) \cup Range(w.visited)
    /\ \A k \in Range(w.visited) : next[k] \subseteq w.seen
    /\ Len(w.stack) = 0 \/ Len(w.visited) = i

\* A round keeps the type.
LEMMA VisitType ==
    ASSUME NEW V, NEW next, Graph(V, next), NEW skip, NEW w \in WalkType(V)
    PROVE  Visit(next, skip, w) \in WalkType(V)
<1> DEFINE top == Len(w.stack)
           node == w.stack[top]
           new == next[node] \ (w.seen \cup skip)
<1>1. CASE top = 0
  <2>1. Visit(next, skip, w) = w  BY <1>1, Zenon DEF Visit
  <2> QED BY <2>1, Zenon
<1>2. CASE top # 0
  <2>1. w.stack \in Seq(V) /\ w.seen \in SUBSET V /\ w.visited \in Seq(V)  BY Zenon DEF WalkType
  <2>2. node \in V /\ SubSeq(w.stack, 1, top - 1) \in Seq(V)  BY <1>2, <2>1
  <2>3. new \in SUBSET V
    <3>1. next \in [V -> SUBSET V]  BY Zenon DEF Graph
    <3>2. next[node] \in SUBSET V  BY <2>2, <3>1, Zenon
    <3> QED BY <3>2, Zenon
  <2> HIDE DEF top, node, new
  <2>4. Ascending(new) \in Seq(V)
    <3>1. new \in SUBSET Nat /\ IsFiniteSet(new)  BY <2>3, FS_Subset, Zenon DEF Graph
    <3>2. Ascending(new) \in Seq(new)  BY <3>1, AscendingFacts, Zenon
    <3> QED BY <2>3, <3>2
  <2>5. SubSeq(w.stack, 1, top - 1) \o Ascending(new) \in Seq(V)  BY <2>2, <2>4
  <2>6. Append(w.visited, node) \in Seq(V)  BY <2>1, <2>2
  <2>7. w.seen \cup new \in SUBSET V  BY <2>1, <2>3, Zenon
  <2>8. Visit(next, skip, w) = [stack |-> SubSeq(w.stack, 1, top - 1) \o Ascending(new),
                                seen |-> w.seen \cup new, visited |-> Append(w.visited, node)]
    BY <1>2, Zenon DEF Visit, top, node, new
  <2> QED BY <2>5, <2>6, <2>7, <2>8 DEF WalkType
<1> QED BY <1>1, <1>2, Zenon
\* The first state of a walk.
LEMMA WalkStart ==
    ASSUME NEW V, NEW next, Graph(V, next), NEW seen \in SUBSET V, NEW start \in V \ seen
    PROVE  Walked(V, next, seen, start, 0,
                  [stack |-> <<start>>, seen |-> seen \cup {start}, visited |-> <<>>])
<1> DEFINE w == [stack |-> <<start>>, seen |-> seen \cup {start}, visited |-> <<>>]
<1>1. w.stack = <<start>> /\ w.seen = seen \cup {start} /\ w.visited = <<>>  BY Zenon
<1>2. w \in WalkType(V)  BY DEF WalkType
<1>3. Once(<<start>>) /\ Len(<<>>) = 0 /\ Once(<<>>)  BY DEF Once
<1>4. Range(<<start>>) = {start}  BY DEF Range
<1>5. Range(<<>>) = {}  BY DEF Range
<1>6. start \in Reach(next, start)  BY ReachFacts, Zenon
<1> HIDE DEF w
<1>7. Walked(V, next, seen, start, 0, w)
  BY <1>1, <1>2, <1>3, <1>4, <1>5, <1>6, Zenon DEF Walked
<1> QED BY <1>7, Zenon DEF w

\* A round of a walk.
LEMMA WalkRound ==
    ASSUME NEW V, NEW next, Graph(V, next), NEW seen \in SUBSET V, NEW skip \in SUBSET seen,
           NEW start \in V, NEW i \in Nat, NEW w, Walked(V, next, seen, start, i, w)
    PROVE  Walked(V, next, seen, start, i + 1, Visit(next, skip, w))
<1> DEFINE top == Len(w.stack)
           node == w.stack[top]
           new == next[node] \ (w.seen \cup skip)
           front == SubSeq(w.stack, 1, top - 1)
           v == Visit(next, skip, w)
<1>0. w \in WalkType(V) /\ w.stack \in Seq(V) /\ w.visited \in Seq(V)  BY Zenon DEF Walked, WalkType
<1>1. CASE top = 0
  <2>1. v = w  BY <1>1, Zenon DEF Visit
  <2> QED BY <1>1, <2>1, Zenon DEF Walked
<1>2. CASE top # 0
  <2>1. v \in WalkType(V)  BY <1>0, VisitType, Zenon
  <2>2. v = [stack |-> front \o Ascending(new), seen |-> w.seen \cup new, visited |-> Append(w.visited, node)]
    BY <1>2, Zenon DEF Visit
  <2>3. v.stack = front \o Ascending(new) /\ v.seen = w.seen \cup new /\ v.visited = Append(w.visited, node)
    <3> HIDE DEF v, new, node, front
    <3> QED BY <2>2
  <2>4. node \in V /\ node \in Range(w.stack) /\ front \in Seq(V) /\ Once(front) /\ Range(front) = Range(w.stack) \ {node}
    BY <1>0, <1>2, PopFacts, Zenon DEF Walked
  <2>5. next[node] \in SUBSET V
    <3>1. next \in [V -> SUBSET V]  BY Zenon DEF Graph
    <3> QED BY <2>4, <3>1, Zenon
  <2>6. new \in SUBSET V /\ new \cap w.seen = {} /\ new \subseteq next[node]  BY <2>5, Zenon
  <2>7. next[node] \subseteq w.seen \cup new  BY Zenon DEF Walked
  <2> HIDE DEF new, v, node, front
  <2>8. Ascending(new) \in Seq(V) /\ Range(Ascending(new)) = new /\ Once(Ascending(new))
    <3>1. new \in SUBSET Nat /\ IsFiniteSet(new)  BY <2>6, FS_Subset, Zenon DEF Graph
    <3>2. Ascending(new) \in Seq(new)  BY <3>1, AscendingFacts, Zenon
    <3>3. Ascending(new) \in Seq(V)  BY <2>6, <3>2
    <3> QED BY <3>1, <3>3, AscendingFacts, Zenon
  <2>9. Range(front) \cap Range(Ascending(new)) = {}  BY <2>4, <2>6, <2>8, Zenon DEF Walked
  <2>10. Once(v.stack) /\ Range(v.stack) = (Range(w.stack) \ {node}) \cup new
    <3>1. /\ Once(front \o Ascending(new))
          /\ Range(front \o Ascending(new)) = Range(front) \cup Range(Ascending(new))
      BY <2>4, <2>8, <2>9, ConcatFacts, Zenon
    <3> QED BY <2>3, <2>4, <2>8, <3>1, Zenon
  <2>11. node \notin Range(w.visited)  BY <2>4, Zenon DEF Walked
  <2>12. Once(v.visited) /\ Range(v.visited) = Range(w.visited) \cup {node}
    <3>1. Append(w.visited, node) = w.visited \o <<node>>  BY <1>0, <2>4
    <3>2. <<node>> \in Seq(V) /\ Once(<<node>>)  BY <2>4 DEF Once
    <3>3. Range(<<node>>) = {node}  BY DEF Range
    <3>4. Range(w.visited) \cap Range(<<node>>) = {}  BY <2>11, <3>3, Zenon
    <3>5. Once(w.visited)  BY Zenon DEF Walked
    <3> DEFINE a == w.visited
               b == <<node>>
    <3>6. Once(a \o b) /\ Range(a \o b) = Range(a) \cup Range(b)
      <4>1. a \in Seq(V) /\ Once(a) /\ b \in Seq(V) /\ Once(b) /\ Range(a) \cap Range(b) = {}
        BY <1>0, <3>2, <3>4, <3>5, Zenon
      <4> HIDE DEF a, b
      <4> QED BY <4>1, ConcatFacts
    <3> QED BY <2>3, <3>1, <3>3, <3>6, Zenon
  <2>13. Range(v.stack) \cap Range(v.visited) = {}  BY <2>4, <2>6, <2>10, <2>12, Zenon DEF Walked
  <2>14. Range(v.stack) \cup Range(v.visited) = (Range(w.stack) \cup Range(w.visited)) \cup new
    BY <2>4, <2>10, <2>12, Zenon
  <2>15. v.seen = seen \cup (Range(v.stack) \cup Range(v.visited))  BY <2>3, <2>14, Zenon DEF Walked
  <2>16. (Range(v.stack) \cup Range(v.visited)) \cap seen = {}  BY <2>6, <2>14, Zenon DEF Walked
  <2>17. new \subseteq Reach(next, start)
    <3>1. node \in Reach(next, start)  BY <2>4, Zenon DEF Walked
    <3>2. Closed(next, Reach(next, start))  BY ReachFacts, Zenon
    <3> QED BY <2>6, <3>1, <3>2, Zenon DEF Closed
  <2>18. Range(v.stack) \cup Range(v.visited) \subseteq Reach(next, start)  BY <2>14, <2>17, Zenon DEF Walked
  <2>19. start \in Range(v.stack) \cup Range(v.visited)  BY <2>14, Zenon DEF Walked
  <2>20. \A k \in Range(v.visited) : next[k] \subseteq v.seen  BY <2>3, <2>7, <2>12, Zenon DEF Walked
  <2>21. Len(v.visited) = i + 1
    <3>1. Len(w.visited) = i  BY <1>2, Zenon DEF Walked
    <3> QED BY <1>0, <2>3, <2>4, <3>1
  <2> QED BY <2>1, <2>10, <2>12, <2>13, <2>15, <2>16, <2>18, <2>19, <2>20, <2>21, Zenon DEF Walked, v
<1> QED BY <1>1, <1>2, Zenon

\* The walk has visited what its start reaches, each node once.
Visited(V, next, seen, start, w) ==
    /\ w.seen = seen \cup Reach(next, start)
    /\ w.visited \in Seq(V) /\ Once(w.visited) /\ Range(w.visited) = Reach(next, start)

\* A walk that stays outside a closed set ends with an empty stack, and has visited what its start
\* reaches.
LEMMA WalkExact ==
    ASSUME NEW V, NEW next, Graph(V, next), NEW seen \in SUBSET V, Closed(next, seen),
           NEW skip \in SUBSET seen, NEW start \in V \ seen
    PROVE  Visited(V, next, seen, start, WalkFrom(next, start, seen, skip))
<1> DEFINE size == Cardinality(V)
           T == WalkType(V)
           base == [stack |-> <<start>>, seen |-> seen \cup {start}, visited |-> <<>>]
           round == [x \in T \X (1..size) |-> Visit(next, skip, x[1])]
<1>1. size \in Nat /\ DOMAIN next = V  BY FS_CardinalityType, Zenon DEF Graph
<1>2. base \in T  BY WalkStart, Zenon DEF Walked
<1>3. round \in [T \X (1..size) -> T]
  <2> HIDE DEF T, size
  <2>1. ASSUME NEW x \in T \X (1..size) PROVE Visit(next, skip, x[1]) \in T
    <3>1. x[1] \in T  OBVIOUS
    <3> QED BY <3>1, VisitType, Zenon DEF T
  <2> QED BY <2>1, Zenon
<1>4. PICK g \in [0..size -> T] : Rounds(g, size, base, round)
  <2> HIDE DEF T, base, round, size
  <2> QED BY <1>1, <1>2, <1>3, LoopValues, Zenon
<1> DEFINE rec(h) == h = [i \in 0..size |-> IF i = 0 THEN base ELSE Visit(next, skip, h[i - 1])]
           rounds == CHOOSE h : rec(h)
<1>5. rec(g)
  <2>1. g[0] = base  BY <1>4, Zenon DEF Rounds
  <2>2. ASSUME NEW i \in 0..size, i # 0 PROVE g[i] = Visit(next, skip, g[i - 1])
    <3> HIDE DEF T, size
    <3>1. i \in 1..size /\ i - 1 \in 0..size  BY <1>1, <2>2
    <3>2. g[i] = round[<<g[i - 1], i>>]  BY <1>4, <3>1, Zenon DEF Rounds
    <3>3. g[i - 1] \in T  BY <3>1, Zenon
    <3>4. <<g[i - 1], i>> \in T \X (1..size) /\ <<g[i - 1], i>>[1] = g[i - 1]  BY <3>1, <3>3
    <3> QED BY <3>2, <3>4, Zenon
  <2> HIDE DEF T, base, round, size
  <2>3. \A i \in 0..size : g[i] = IF i = 0 THEN base ELSE Visit(next, skip, g[i - 1])  BY <2>1, <2>2, Zenon
  <2> QED BY <2>3, Zenon
<1>6. rec(rounds)
  <2> HIDE DEF rec
  <2> QED BY <1>5, Zenon
<1>7. WalkFrom(next, start, seen, skip) = rounds[size]  BY <1>1, Zenon DEF WalkFrom
<1> HIDE DEF rounds
<1>8. rounds[0] = base /\ \A i \in 1..size : rounds[i] = Visit(next, skip, rounds[i - 1])
  <2> HIDE DEF base, size
  <2>1. 0 \in 0..size /\ \A i \in 1..size : i \in 0..size /\ i # 0  BY <1>1
  <2> QED BY <1>6, <2>1, Zenon
<1> DEFINE S == {i \in Nat : i <= size => Walked(V, next, seen, start, i, rounds[i])}
<1>9. 0 \in S
  <2>1. Walked(V, next, seen, start, 0, base)  BY WalkStart, Zenon
  <2> HIDE DEF base
  <2>2. Walked(V, next, seen, start, 0, rounds[0])  BY <1>8, <2>1, Zenon
  <2> QED BY <2>2
<1>10. ASSUME NEW i \in S PROVE i + 1 \in S
  <2> HIDE DEF size
  <2> SUFFICES ASSUME i + 1 <= size PROVE Walked(V, next, seen, start, i + 1, rounds[i + 1])
    OBVIOUS
  <2>1. i \in Nat /\ i + 1 \in 1..size /\ (i + 1) - 1 = i /\ i <= size  BY <1>1
  <2>2. Walked(V, next, seen, start, i, rounds[i])  BY <2>1, Zenon
  <2>3. rounds[i + 1] = Visit(next, skip, rounds[i])  BY <1>8, <2>1, Zenon
  <2>4. start \in V  BY Zenon
  <2>5. Walked(V, next, seen, start, i + 1, Visit(next, skip, rounds[i]))  BY <2>1, <2>2, <2>4, WalkRound, Zenon
  <2> QED BY <2>3, <2>5, Zenon
<1>11. S = Nat
  <2>1. S \in SUBSET Nat  BY Zenon
  <2> HIDE DEF S
  <2> QED BY <1>9, <1>10, <2>1, Induct
<1> DEFINE w == rounds[size]
<1>12. Walked(V, next, seen, start, size, w)
  <2> HIDE DEF size
  <2>1. size \in S /\ size <= size  BY <1>1, <1>11
  <2> QED BY <2>1, Zenon
<1> HIDE DEF w
<1>13. w.stack \in Seq(V) /\ w.visited \in Seq(V)  BY <1>12, Zenon DEF Walked, WalkType
<1>14. Len(w.stack) = 0
  <2> SUFFICES ASSUME Len(w.stack) # 0 PROVE FALSE
    BY Zenon
  <2>1. Len(w.visited) = Cardinality(V) /\ Once(w.visited)  BY <1>12, Zenon DEF Walked
  <2>2. Range(w.visited) = V
    <3>1. IsFiniteSet(V)  BY Zenon DEF Graph
    <3> QED BY <1>13, <2>1, <3>1, OnceLength, Zenon
  <2>3. w.stack[Len(w.stack)] \in V /\ w.stack[Len(w.stack)] \in Range(w.stack)
    BY <1>12, <1>13, PopFacts, Zenon DEF Walked
  <2> QED BY <1>12, <2>2, <2>3, Zenon DEF Walked
<1>15. Range(w.stack) = {}
  <2>1. w.stack = <<>>  BY <1>13, <1>14
  <2>2. Range(<<>>) = {}  BY DEF Range
  <2> QED BY <2>1, <2>2, Zenon
<1> DEFINE D == Range(w.visited)
<1>16. D \in SUBSET V /\ start \in D /\ D \cap seen = {} /\ w.seen = seen \cup D /\ D \subseteq Reach(next, start)
  <2>1. D \subseteq Reach(next, start) /\ Reach(next, start) \in SUBSET V  BY <1>12, ReachFacts, Zenon DEF Walked
  <2> QED BY <1>12, <1>15, <2>1, Zenon DEF Walked
<1>17. Closed(next, D)
  <2> SUFFICES ASSUME NEW k \in D, NEW j \in next[k], j \in seen PROVE FALSE
    BY <1>12, <1>16, Zenon DEF Walked, Closed
  <2>1. k \in V /\ j \in V  BY <1>16, Zenon
  <2>2. k \in next[j]  BY <2>1, Zenon DEF Graph
  <2> QED BY <1>16, <2>2, Zenon DEF Closed
<1>18. Reach(next, start) \subseteq D
  <2> HIDE DEF D
  <2> QED BY <1>16, <1>17, ReachFacts, Zenon
<1>19. D = Reach(next, start)  BY <1>16, <1>18, Zenon
<1>20. Once(w.visited)  BY <1>12, Zenon DEF Walked
<1>21. Visited(V, next, seen, start, w)  BY <1>13, <1>16, <1>19, <1>20, Zenon DEF Visited
<1> QED BY <1>7, <1>21, Zenon DEF w
-----------------------------------------------------------------------------
\* The state of the loop over the starts.
SubnetsType(V) == [seen : SUBSET V, found : Seq(Seq(V))]

\* No node is on two lists.
Apart(found) == \A i, j \in 1..Len(found) : i # j => Range(found[i]) \cap Range(found[j]) = {}

\* The list names what a node with pins, but not ground, reaches.
Subnet(next, ground, used, list) ==
    Once(list) /\ \E x \in used \ Reach(next, ground) : Range(list) = Reach(next, x)

\* The lists found so far: what is seen is what ground reaches and what they name.
Found(V, next, ground, used, s) ==
    /\ s \in SubnetsType(V)
    /\ Closed(next, s.seen) /\ Reach(next, ground) \subseteq s.seen
    /\ \A j \in 1..Len(s.found) : Subnet(next, ground, used, s.found[j]) /\ Range(s.found[j]) \subseteq s.seen
    /\ \A y \in s.seen \ Reach(next, ground) : \E j \in 1..Len(s.found) : y \in Range(s.found[j])
    /\ Apart(s.found)

\* A start that is seen changes nothing; a new one adds what it reaches.
LEMMA SubnetRound ==
    ASSUME NEW V, NEW next, Graph(V, next), NEW ground \in V, NEW used \in SUBSET V,
           NEW start \in used, NEW s, Found(V, next, ground, used, s)
    PROVE  LET t == NextSubnet(next, {ground}, s, start)
           IN  Found(V, next, ground, used, t) /\ start \in t.seen /\ s.seen \subseteq t.seen
<1> DEFINE t == NextSubnet(next, {ground}, s, start)
           w == WalkFrom(next, start, s.seen, {ground})
           R == Reach(next, start)
<1>1. CASE start \in s.seen
  <2>1. t = s  BY <1>1, Zenon DEF NextSubnet
  <2> QED BY <1>1, <2>1, Zenon
<1>2. CASE start \notin s.seen
  <2>1. s.seen \in SUBSET V /\ s.found \in Seq(Seq(V))  BY Zenon DEF Found, SubnetsType
  <2>2. ground \in s.seen  BY ReachFacts, Zenon DEF Found
  <2>3. start \in V \ s.seen /\ {ground} \in SUBSET s.seen /\ Closed(next, s.seen)
    BY <1>2, <2>2, Zenon DEF Found
  <2>4. w.seen = s.seen \cup R /\ w.visited \in Seq(V) /\ Once(w.visited) /\ Range(w.visited) = R
    <3> DEFINE skip == {ground}
               D == s.seen
    <3>1. skip \in SUBSET D /\ D \in SUBSET V /\ Closed(next, D) /\ start \in V \ D  BY <2>1, <2>3, Zenon
    <3> HIDE DEF skip, D
    <3>2. Visited(V, next, D, start, WalkFrom(next, start, D, skip))  BY <3>1, WalkExact, Zenon
    <3> QED BY <3>2, Zenon DEF Visited, skip, D
  <2>5. R \cap s.seen = {}  BY <2>1, <2>3, ReachOutside, Zenon
  <2>6. R \in SUBSET V /\ start \in R /\ Closed(next, R)  BY ReachFacts, Zenon
  <2>7. t = [seen |-> w.seen, found |-> Append(s.found, w.visited)]  BY <1>2, Zenon DEF NextSubnet
  <2> HIDE DEF t, w, R
  <2>8. t.seen = s.seen \cup R /\ t.found = Append(s.found, w.visited)  BY <2>4, <2>7
  <2> DEFINE n == Len(s.found)
  <2>9. n \in Nat /\ t.found \in Seq(Seq(V)) /\ Len(t.found) = n + 1 /\ t.found[n + 1] = w.visited
    BY <2>1, <2>4, <2>8
  <2>10. \A j \in 1..n : t.found[j] = s.found[j]
    BY <2>1, <2>4, <2>8
  <2>11. t \in SubnetsType(V)
    <3>1. t.seen \in SUBSET V  BY <2>1, <2>6, <2>8, Zenon
    <3> QED BY <2>7, <2>8, <2>9, <3>1 DEF SubnetsType
  <2> HIDE DEF n
  <2>12. \A j \in 1..(n + 1) : j = n + 1 \/ j \in 1..n  BY <2>9
  <2>13. n + 1 \in 1..(n + 1) /\ \A j \in 1..n : j \in 1..(n + 1)  BY <2>9
  <2>14. Closed(next, t.seen)  BY <2>3, <2>6, <2>8, Zenon DEF Closed
  <2>15. Reach(next, ground) \subseteq t.seen  BY <2>8, Zenon DEF Found
  <2>16. \A j \in 1..(n + 1) : Subnet(next, ground, used, t.found[j]) /\ Range(t.found[j]) \subseteq t.seen
    <3>1. start \in used \ Reach(next, ground)  BY <1>2, Zenon DEF Found
    <3>2. Subnet(next, ground, used, w.visited)  BY <2>4, <3>1, Zenon DEF Subnet, R
    <3>3. \A j \in 1..n : Subnet(next, ground, used, s.found[j]) /\ Range(s.found[j]) \subseteq s.seen
      BY Zenon DEF Found, n
    <3> QED BY <2>4, <2>8, <2>9, <2>10, <2>12, <3>2, <3>3, Zenon
  <2>17. \A y \in t.seen \ Reach(next, ground) : \E j \in 1..(n + 1) : y \in Range(t.found[j])
    <3>1. \A y \in s.seen \ Reach(next, ground) : \E j \in 1..n : y \in Range(s.found[j])  BY Zenon DEF Found, n
    <3> QED BY <2>4, <2>8, <2>9, <2>10, <2>13, <3>1, Zenon
  <2>18. Apart(t.found)
    <3>1. ASSUME NEW i \in 1..n PROVE Range(t.found[i]) \cap R = {}
      <4>1. Range(s.found[i]) \subseteq s.seen  BY Zenon DEF Found, n
      <4> QED BY <2>5, <2>10, <4>1, Zenon
    <3>2. \A i, j \in 1..n : i # j => Range(t.found[i]) \cap Range(t.found[j]) = {}
      BY <2>10, Zenon DEF Found, Apart, n
    <3>3. Range(t.found[n + 1]) = R  BY <2>4, <2>9, Zenon
    <3> SUFFICES ASSUME NEW i \in 1..(n + 1), NEW j \in 1..(n + 1), i # j
                 PROVE  Range(t.found[i]) \cap Range(t.found[j]) = {}
      BY <2>9, Zenon DEF Apart
    <3> QED BY <2>12, <3>1, <3>2, <3>3, Zenon
  <2>19. Found(V, next, ground, used, t)
    BY <2>9, <2>11, <2>14, <2>15, <2>16, <2>17, <2>18, Zenon DEF Found
  <2> QED BY <2>6, <2>8, <2>19, Zenon DEF t
<1> QED BY <1>1, <1>2, Zenon
\* The lists found are those of what the nodes with pins that ground does not reach, reach.
AllFound(V, next, ground, used, found) ==
    /\ found \in Seq(Seq(V)) /\ Apart(found)
    /\ {Range(found[i]) : i \in 1..Len(found)} = {Reach(next, x) : x \in used \ Reach(next, ground)}
    /\ \A i \in 1..Len(found) : Once(found[i])

\* detect() finds what the nodes with pins that ground does not reach, reach.
LEMMA SubnetsExact ==
    ASSUME NEW V, NEW next, Graph(V, next), NEW ground \in V, NEW used \in SUBSET V
    PROVE  AllFound(V, next, ground, used,
               Subnets(next, {ground}, Ascending(used \ {ground}), WalkFrom(next, ground, {}, {}).seen))
<1> DEFINE D == WalkFrom(next, ground, {}, {}).seen
           G == Reach(next, ground)
           starts == Ascending(used \ {ground})
           m == Len(starts)
           T == {s \in SubnetsType(V) : Found(V, next, ground, used, s)}
           base == [seen |-> D, found |-> <<>>]
           round == [x \in T \X (1..m) |-> NextSubnet(next, {ground}, x[1], starts[x[2]])]
<1>1. D = G
  <2> DEFINE none == {}
  <2>1. none \in SUBSET V /\ Closed(next, none) /\ none \in SUBSET none /\ ground \in V \ none
    BY Zenon DEF Closed
  <2> HIDE DEF none
  <2>2. Visited(V, next, none, ground, WalkFrom(next, ground, none, none))  BY <2>1, WalkExact, Zenon
  <2> QED BY <2>2, Zenon DEF Visited, none
<1>2. G \in SUBSET V /\ ground \in G /\ Closed(next, G)  BY ReachFacts, Zenon
<1>3. starts \in Seq(used \ {ground}) /\ Range(starts) = used \ {ground}
  <2> DEFINE S == used \ {ground}
  <2>1. S \in SUBSET V  BY Zenon
  <2>2. S \in SUBSET Nat /\ IsFiniteSet(S)
    <3> HIDE DEF S
    <3> QED BY <2>1, FS_Subset, Zenon DEF Graph
  <2> HIDE DEF S
  <2>3. Ascending(S) \in Seq(S) /\ Range(Ascending(S)) = S  BY <2>2, AscendingFacts, Zenon
  <2> QED BY <2>3, Zenon DEF S
<1>4. m \in Nat /\ DOMAIN starts = 1..m /\ \A i \in 1..m : starts[i] \in used
  <2> HIDE DEF starts
  <2> QED BY <1>3
<1>5. base \in T
  <2> HIDE DEF D, G
  <2>1. base.seen = G /\ base.found = <<>>  BY <1>1
  <2>2. base \in SubnetsType(V)
    <3>1. <<>> \in Seq(Seq(V))  OBVIOUS
    <3> QED BY <1>1, <1>2, <3>1 DEF SubnetsType
  <2>3. Len(<<>>) = 0 /\ \A j \in 1..0 : FALSE  OBVIOUS
  <2> HIDE DEF base
  <2>4. Found(V, next, ground, used, base)  BY <1>2, <2>1, <2>2, <2>3, Zenon DEF Found, Apart, G
  <2> QED BY <2>2, <2>4, Zenon
<1>6. ASSUME NEW s \in T, NEW i \in 1..m
      PROVE  LET t == NextSubnet(next, {ground}, s, starts[i])
             IN  t \in T /\ starts[i] \in t.seen /\ s.seen \subseteq t.seen
  <2> DEFINE a == starts[i]
             t == NextSubnet(next, {ground}, s, a)
  <2>1. a \in used  BY <1>4, Zenon
  <2> HIDE DEF a
  <2>2. Found(V, next, ground, used, t) /\ a \in t.seen /\ s.seen \subseteq t.seen  BY <2>1, SubnetRound, Zenon
  <2>3. t \in SubnetsType(V)  BY <2>2, Zenon DEF Found
  <2> QED BY <2>2, <2>3, Zenon DEF a
<1> HIDE DEF D, G, T, starts
<1>7. round \in [T \X (1..m) -> T]
  <2> HIDE DEF m
  <2>1. ASSUME NEW x \in T \X (1..m) PROVE NextSubnet(next, {ground}, x[1], starts[x[2]]) \in T
    <3>1. x[1] \in T /\ x[2] \in 1..m  OBVIOUS
    <3> QED BY <1>6, <3>1, Zenon
  <2> QED BY <2>1, Zenon
<1>8. PICK g \in [0..m -> T] : Rounds(g, m, base, round)
  <2> HIDE DEF base, round, m
  <2> QED BY <1>4, <1>5, <1>7, LoopValues, Zenon
<1> DEFINE rec(h) == h = [i \in 0..m |-> IF i = 0 THEN base ELSE NextSubnet(next, {ground}, h[i - 1], starts[i])]
           loop == CHOOSE h : rec(h)
<1>9. rec(g)
  <2>1. g[0] = base  BY <1>8, Zenon DEF Rounds
  <2>2. ASSUME NEW i \in 0..m, i # 0 PROVE g[i] = NextSubnet(next, {ground}, g[i - 1], starts[i])
    <3> HIDE DEF m
    <3>1. i \in 1..m /\ i - 1 \in 0..m  BY <1>4, <2>2
    <3>2. g[i] = round[<<g[i - 1], i>>]  BY <1>8, <3>1, Zenon DEF Rounds
    <3>3. g[i - 1] \in T  BY <3>1, Zenon
    <3>4. <<g[i - 1], i>> \in T \X (1..m) /\ <<g[i - 1], i>>[1] = g[i - 1] /\ <<g[i - 1], i>>[2] = i
      BY <3>1, <3>3
    <3> QED BY <3>2, <3>4, Zenon
  <2> HIDE DEF base, round, m
  <2>3. \A i \in 0..m : g[i] = IF i = 0 THEN base ELSE NextSubnet(next, {ground}, g[i - 1], starts[i])
    BY <2>1, <2>2, Zenon
  <2> QED BY <2>3, Zenon
<1>10. rec(loop)
  <2> HIDE DEF rec
  <2> QED BY <1>9, Zenon
<1>11. Subnets(next, {ground}, starts, D) = loop[m].found  BY Zenon DEF Subnets
<1> HIDE DEF loop
<1>12. loop[0] = base /\ \A i \in 1..m : loop[i] = NextSubnet(next, {ground}, loop[i - 1], starts[i])
  <2> HIDE DEF base, m
  <2>1. 0 \in 0..m /\ \A i \in 1..m : i \in 0..m /\ i # 0  BY <1>4
  <2> QED BY <1>10, <2>1, Zenon
<1> DEFINE Done(i) == loop[i] \in T /\ \A k \in 1..i : starts[k] \in loop[i].seen
           S == {i \in Nat : i <= m => Done(i)}
<1> HIDE DEF base, round, rec, m
<1>13. 0 \in S
  <2>1. Done(0)
    <3>1. \A k \in 1..0 : FALSE  OBVIOUS
    <3> QED BY <1>5, <1>12, <3>1, Zenon
  <2> HIDE DEF Done
  <2> QED BY <2>1
<1>14. ASSUME NEW i \in S PROVE i + 1 \in S
  <2> SUFFICES ASSUME i + 1 <= m PROVE Done(i + 1)
    <3> HIDE DEF Done
    <3> QED OBVIOUS
  <2>1. i \in Nat /\ i + 1 \in 1..m /\ (i + 1) - 1 = i /\ i <= m  BY <1>4
  <2>2. Done(i)  BY <2>1, Zenon
  <2>3. loop[i + 1] = NextSubnet(next, {ground}, loop[i], starts[i + 1])  BY <1>12, <2>1, Zenon
  <2>4. loop[i + 1] \in T /\ starts[i + 1] \in loop[i + 1].seen /\ loop[i].seen \subseteq loop[i + 1].seen
    BY <1>6, <2>1, <2>2, <2>3, Zenon
  <2>5. \A k \in 1..(i + 1) : k = i + 1 \/ k \in 1..i  BY <2>1
  <2> QED BY <2>2, <2>4, <2>5, Zenon
<1>15. S = Nat
  <2>1. S \in SUBSET Nat  BY Zenon
  <2> HIDE DEF S
  <2> QED BY <1>13, <1>14, <2>1, Induct
<1>16. Done(m)
  <2>1. m \in S /\ m <= m  BY <1>4, <1>15
  <2> HIDE DEF Done
  <2> QED BY <2>1, Zenon
<1> DEFINE s == loop[m]
           found == s.found
<1>17. Found(V, next, ground, used, s)  BY <1>16, Zenon DEF T
<1>18. \A k \in 1..m : starts[k] \in s.seen  BY <1>16, Zenon
<1> HIDE DEF s
<1>19. found \in Seq(Seq(V)) /\ Apart(found)  BY <1>17, Zenon DEF Found, SubnetsType
<1>20. \A j \in 1..Len(found) : Subnet(next, ground, used, found[j])  BY <1>17, Zenon DEF Found
<1>21. ASSUME NEW x \in used \ G PROVE \E j \in 1..Len(found) : Range(found[j]) = Reach(next, x)
  <2>1. x \in V /\ x \in Range(starts)  BY <1>2, <1>3, Zenon
  <2>2. PICK k \in 1..m : starts[k] = x  BY <1>4, <2>1, Zenon DEF Range
  <2>3. x \in s.seen \ Reach(next, ground)  BY <1>18, <2>2, Zenon DEF G
  <2>4. PICK j \in 1..Len(found) : x \in Range(found[j])  BY <1>17, <2>3, Zenon DEF Found
  <2>5. PICK y \in used : Range(found[j]) = Reach(next, y)  BY <1>20, Zenon DEF Subnet
  <2>6. y \in V /\ x \in Reach(next, y)  BY <2>4, <2>5, Zenon
  <2>7. Reach(next, x) = Reach(next, y)  BY <2>6, ReachSame
  <2> QED BY <2>5, <2>7, Zenon
<1>22. \A j \in 1..Len(found) : Once(found[j]) /\ \E x \in used \ G : Range(found[j]) = Reach(next, x)
  BY <1>20, Zenon DEF Subnet, G
<1>23. {Range(found[i]) : i \in 1..Len(found)} = {Reach(next, x) : x \in used \ G}
  <2> HIDE DEF found
  <2> QED BY <1>21, <1>22, Zenon
<1>24. AllFound(V, next, ground, used, found)  BY <1>19, <1>22, <1>23, Zenon DEF AllFound, G
<1> QED BY <1>11, <1>24, Zenon DEF s, starts, D

=============================================================================
