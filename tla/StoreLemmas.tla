---------------------------- MODULE StoreLemmas ----------------------------
(***************************************************************************)
(* What the operators of TelemetryStore that do not depend on the state of *)
(* the store return: recursions over a sequence, removal from a sequence,  *)
(* the size of a set of items, the key of a batch, fresh session ids.      *)
(***************************************************************************)
EXTENDS TelemetryStore, FunctionTheorems, FiniteSetTheorems, WellFoundedInduction, TLAPS


\* A set of naturals that holds 0 and with each number the next holds them all.
LEMMA EveryNatural ==
  ASSUME NEW T, 0 \in T, \A n \in Nat : n \in T => n + 1 \in T
  PROVE  \A n \in Nat : n \in T
<1> SUFFICES ASSUME NEW m \in Nat, m \notin T PROVE FALSE
  OBVIOUS
<1> DEFINE R == OpToRel(<, Nat)
           Missing == Nat \ T
<1>1. \A x, y \in Nat : <<y, x>> \in R <=> y < x
  BY DEF OpToRel
<1>2. IsWellFoundedOn(R, Nat)
  BY NatLessThanWellFounded
<1> HIDE DEF R
<1>3. PICK x \in Missing : \A y \in Missing : ~ (<<y, x>> \in R)
  BY <1>2, WFMin
<1>4. x # 0 /\ x \in Nat
  BY <1>3
<1>5. x - 1 \in Nat /\ x - 1 < x /\ (x - 1) + 1 = x
  BY <1>4
<1>6. x - 1 \in T
  BY <1>1, <1>3, <1>4, <1>5
<1> QED
  BY <1>3, <1>5, <1>6

\* A nonempty set of naturals has a least element.
LEMMA Least ==
  ASSUME NEW X \in SUBSET Nat, X # {}
  PROVE  \E x \in X : \A y \in X : x <= y
<1> DEFINE R == OpToRel(<, Nat)
<1>1. \A x, y \in Nat : <<y, x>> \in R <=> y < x
  BY DEF OpToRel
<1>2. IsWellFoundedOn(R, Nat)
  BY NatLessThanWellFounded
<1> HIDE DEF R
<1>3. PICK x \in X : \A y \in X : ~ (<<y, x>> \in R)
  BY <1>2, WFMin
<1>4. ASSUME NEW y \in X PROVE x <= y
  <2>1. x \in Nat /\ y \in Nat /\ ~(y < x)
    BY <1>1, <1>3
  <2> QED
    BY <2>1
<1> QED
  BY <1>4

\* A finite nonempty set has an element with a greatest value.
LEMMA Greatest ==
  ASSUME NEW X, IsFiniteSet(X), X # {}, NEW f \in [X -> Nat]
  PROVE  \E x \in X : \A y \in X : f[y] <= f[x]
<1> DEFINE T == {n \in Nat : \A Y \in SUBSET X : Y # {} /\ Cardinality(Y) = n
                              => \E x \in Y : \A y \in Y : f[y] <= f[x]}
<1>1. 0 \in T
  <2> SUFFICES ASSUME NEW Y \in SUBSET X, Y # {}, Cardinality(Y) = 0 PROVE FALSE
    OBVIOUS
  <2> QED
    BY FS_Subset, FS_EmptySet
<1>2. ASSUME NEW n \in Nat, n \in T PROVE n + 1 \in T
  <2> SUFFICES ASSUME NEW Y \in SUBSET X, Y # {}, Cardinality(Y) = n + 1
               PROVE  \E x \in Y : \A y \in Y : f[y] <= f[x]
    OBVIOUS
  <2>1. PICK z : z \in Y
    OBVIOUS
  <2> DEFINE Z == Y \ {z}
  <2>2. IsFiniteSet(Y)
    BY FS_Subset
  <2>3. Cardinality(Z) = n
    <3>1. Cardinality(Z) = Cardinality(Y) - 1
      BY <2>1, <2>2, FS_RemoveElement
    <3> QED
      BY <3>1
  <2>4. f[z] \in Nat /\ \A y \in Y : f[y] \in Nat
    BY <2>1
  <2>5. CASE Z = {}
    BY <2>1, <2>4, <2>5
  <2>6. CASE Z # {}
    <3>1. PICK x \in Z : \A y \in Z : f[y] <= f[x]
      BY <1>2, <2>3, <2>6
    <3>2. CASE f[z] <= f[x]
      BY <3>1, <3>2
    <3>3. CASE ~(f[z] <= f[x])
      <4>1. \A y \in Y : f[y] <= f[z]
        BY <2>4, <3>1, <3>3
      <4> QED
        BY <2>1, <4>1
    <3> QED
      BY <3>2, <3>3
  <2> QED
    BY <2>5, <2>6
<1> HIDE DEF T
<1>3. Cardinality(X) \in T
  BY <1>1, <1>2, EveryNatural, FS_CardinalityType
<1> QED
  BY <1>3 DEF T

\* f is the recursion F from s over L steps, and stays in H.
Recurs(f, s, L, H, F) ==
  /\ f = [n \in 0..L |-> f[n]] /\ f[0] = s
  /\ \A n \in 1..L : f[n - 1] \in H[n - 1] /\ f[n] = F[<<f[n - 1], n>>]

\* A recursion from s on, which stays in H, is defined.
LEMMA Recursion ==
  ASSUME NEW S, NEW L \in Nat, NEW H \in [0..L -> SUBSET S], NEW s \in H[0],
         NEW F \in [S \X (1..L) -> S],
         \A n \in 1..L : \A x \in H[n - 1] : F[<<x, n>>] \in H[n]
  PROVE  \E f : Recurs(f, s, L, H, F)
<1> DEFINE Runs(f, k) == /\ DOMAIN f = 0..k /\ f[0] = s
                         /\ \A n \in 1..k : f[n] = F[<<f[n - 1], n>>]
                         /\ \A n \in 0..k : f[n] \in H[n]
           T == {k \in Nat : k <= L => \E f \in [0..k -> S] : Runs(f, k)}
<1>1. 0 \in T
  <2>1. [n \in 0..0 |-> s] \in [0..0 -> S] /\ Runs([n \in 0..0 |-> s], 0)
    OBVIOUS
  <2> QED
    BY <2>1
<1>2. ASSUME NEW k \in Nat, k \in T PROVE k + 1 \in T
  <2> SUFFICES ASSUME k + 1 <= L PROVE \E f \in [0..(k + 1) -> S] : Runs(f, k + 1)
    OBVIOUS
  <2>1. PICK f \in [0..k -> S] : Runs(f, k)
    BY <1>2
  <2> DEFINE v == F[<<f[k], k + 1>>]
             g == [n \in 0..(k + 1) |-> IF n = k + 1 THEN v ELSE f[n]]
  <2>2. k \in 0..k /\ k + 1 \in 1..L /\ k \in 0..L /\ k + 1 \in 0..L /\ k + 1 # 0 /\ (k + 1) - 1 = k
    OBVIOUS
  <2>3. f[k] \in H[k] /\ f[k] \in S
    BY <2>1, <2>2
  <2>4. v \in H[k + 1] /\ v \in S
    BY <2>2, <2>3
  <2>5. \A n \in 0..(k + 1) : n = k + 1 \/ n \in 0..k
    OBVIOUS
  <2>6. g \in [0..(k + 1) -> S]
    BY <2>4, <2>5
  <2>7. g[0] = s /\ g[k + 1] = v /\ \A n \in 0..k : g[n] = f[n]
    BY <2>1, <2>2
  <2>8. \A n \in 1..(k + 1) : g[n] = F[<<g[n - 1], n>>]
    <3> SUFFICES ASSUME NEW n \in 1..(k + 1) PROVE g[n] = F[<<g[n - 1], n>>]
      OBVIOUS
    <3> HIDE DEF g, v
    <3>1. CASE n = k + 1
      <4>1. n - 1 = k /\ g[n - 1] = f[k]
        BY <2>2, <2>7, <3>1
      <4> QED
        BY <2>7, <3>1, <4>1 DEF v
    <3>2. CASE n # k + 1
      <4>1. n \in 1..k /\ n \in 0..k /\ n - 1 \in 0..k
        BY <3>2
      <4> QED
        BY <2>1, <2>7, <4>1
    <3> QED
      BY <3>1, <3>2
  <2>9. \A n \in 0..(k + 1) : g[n] \in H[n]
    <3> HIDE DEF g, v
    <3> QED
      BY <2>1, <2>4, <2>5, <2>7
  <2>10. Runs(g, k + 1)
    <3>1. DOMAIN g = 0..(k + 1)
      OBVIOUS
    <3> HIDE DEF g, v
    <3> QED
      BY <2>7, <2>8, <2>9, <3>1
  <2> HIDE DEF g, Runs
  <2> QED
    BY <2>6, <2>10
<1>3. L \in T
  <2> HIDE DEF T
  <2> QED
    BY <1>1, <1>2, EveryNatural
<1>4. PICK f \in [0..L -> S] : Runs(f, L)
  BY <1>3
<1>5. \A n \in 1..L : n - 1 \in 0..L
  OBVIOUS
<1> QED
  BY <1>4, <1>5 DEF Recurs

\* A recursion stays in H.
LEMMA RecursionStays ==
  ASSUME NEW L \in Nat, NEW H, NEW f, f[0] \in H[0],
         \A n \in 1..L : f[n - 1] \in H[n - 1] => f[n] \in H[n]
  PROVE  f[L] \in H[L]
<1> DEFINE T == {n \in Nat : n <= L => f[n] \in H[n]}
<1>1. 0 \in T
  OBVIOUS
<1>2. ASSUME NEW n \in Nat, n \in T PROVE n + 1 \in T
  <2> SUFFICES ASSUME n + 1 <= L PROVE f[n + 1] \in H[n + 1]
    OBVIOUS
  <2>1. n + 1 \in 1..L /\ (n + 1) - 1 = n /\ f[n] \in H[n]
    BY <1>2
  <2>2. f[(n + 1) - 1] \in H[(n + 1) - 1] => f[n + 1] \in H[n + 1]
    BY <2>1
  <2> QED
    BY <2>1, <2>2
<1> HIDE DEF T
<1>3. L \in T
  BY <1>1, <1>2, EveryNatural
<1> QED
  BY <1>3 DEF T

\* SetToSeq lists every element of a finite set once.
LEMMA ListedOnce ==
  ASSUME NEW S, IsFiniteSet(S)
  PROVE  /\ Cardinality(S) \in Nat
         /\ SetToSeq(S) \in [1..Cardinality(S) -> S]
         /\ \A j, n \in 1..Cardinality(S) : SetToSeq(S)[j] = SetToSeq(S)[n] => j = n
         /\ \A x \in S : \E n \in 1..Cardinality(S) : SetToSeq(S)[n] = x
<1> DEFINE N == Cardinality(S)
<1>1. N \in Nat /\ ExistsBijection(1..N, S)
  BY FS_CardinalityType
<1>2. PICK g : g \in Bijection(1..N, S)
  BY <1>1 DEF ExistsBijection
<1>3. g \in [1..N -> S] /\ \A a, b \in 1..N : g[a] = g[b] => a = b
  BY <1>2, Fun_BijectionProperties
<1>4. \E f \in [1..N -> S] : IsInjective(f)
  <2>1. IsInjective(g)
    BY <1>3 DEF IsInjective
  <2> QED
    BY <1>3, <2>1
<1>5. SetToSeq(S) \in [1..N -> S] /\ IsInjective(SetToSeq(S))
  <2> DEFINE f == CHOOSE h \in [1..N -> S] : IsInjective(h)
  <2>1. f \in [1..N -> S] /\ IsInjective(f)
    BY <1>4
  <2> QED
    BY <2>1 DEF SetToSeq
<1> DEFINE f == SetToSeq(S)
<1> HIDE DEF f, N
<1>6. f \in [1..N -> S] /\ \A a, b \in 1..N : f[a] = f[b] => a = b
  BY <1>5 DEF IsInjective, f
<1>7. f \in Injection(1..N, S)
  BY <1>6, Fun_IsInj
<1>8. IsFiniteSet(1..N) /\ Cardinality(1..N) = N
  BY <1>1, FS_Interval
<1>9. f \in Surjection(1..N, S)
  BY <1>7, <1>8, FS_Injection DEF N
<1>10. \A x \in S : \E n \in 1..N : f[n] = x
  BY <1>9 DEF Surjection
<1> QED
  BY <1>1, <1>6, <1>10 DEF f, N

\* The elements of a sequence.
LEMMA Elements ==
  ASSUME NEW S, NEW q \in Seq(S)
  PROVE  /\ Len(q) \in Nat /\ DOMAIN q = 1..Len(q)
         /\ \A i \in 1..Len(q) : q[i] \in S /\ q[i] \in ToSet(q)
         /\ \A x \in ToSet(q) : x \in S /\ \E i \in 1..Len(q) : q[i] = x
  BY DEF ToSet

\* A sequence is injective when no two of its indices hold the same.
LEMMA Injective ==
  ASSUME NEW S, NEW q \in Seq(S)
  PROVE  IsInjective(q) <=> \A i, j \in 1..Len(q) : q[i] = q[j] => i = j
  BY DEF IsInjective

\* Appending adds one member, and keeps the sequence injective if it is new.
LEMMA Appended ==
  ASSUME NEW S, NEW q \in Seq(S), NEW x \in S
  PROVE  /\ Append(q, x) \in Seq(S) /\ Len(Append(q, x)) = Len(q) + 1
         /\ ToSet(Append(q, x)) = ToSet(q) \cup {x}
         /\ IsInjective(q) /\ x \notin ToSet(q) => IsInjective(Append(q, x))
<1> DEFINE a == Append(q, x)
<1>1. /\ a \in Seq(S) /\ Len(a) = Len(q) + 1 /\ a[Len(q) + 1] = x /\ Len(q) \in Nat
      /\ \A i \in 1..Len(q) : a[i] = q[i]
  OBVIOUS
<1> HIDE DEF a
<1>2. \A i \in 1..Len(a) : i = Len(q) + 1 \/ i \in 1..Len(q)
  BY <1>1
<1>3. Len(q) + 1 \in 1..Len(a) /\ \A i \in 1..Len(q) : i \in 1..Len(a) /\ i # Len(q) + 1
  BY <1>1
<1>4. ToSet(a) = ToSet(q) \cup {x}
  <2>1. ASSUME NEW y \in ToSet(a) PROVE y \in ToSet(q) \cup {x}
    <3>1. PICK i \in 1..Len(a) : a[i] = y
      BY <1>1, <2>1, Elements
    <3> QED
      BY <1>1, <1>2, <3>1, Elements
  <2>2. ASSUME NEW y \in ToSet(q) PROVE y \in ToSet(a)
    <3>1. PICK i \in 1..Len(q) : q[i] = y
      BY <2>2, Elements
    <3> QED
      BY <1>1, <1>3, <3>1, Elements
  <2>3. x \in ToSet(a)
    BY <1>1, <1>3, Elements
  <2> QED
    BY <2>1, <2>2, <2>3
<1>5. ASSUME IsInjective(q), x \notin ToSet(q) PROVE IsInjective(a)
  <2> SUFFICES ASSUME NEW i \in 1..Len(a), NEW j \in 1..Len(a), a[i] = a[j] PROVE i = j
    BY <1>1, Injective
  <2>1. CASE i \in 1..Len(q) /\ j \in 1..Len(q)
    BY <1>1, <1>5, <2>1, Injective
  <2>2. CASE i = Len(q) + 1 /\ j = Len(q) + 1
    BY <2>2
  <2>3. CASE i = Len(q) + 1 /\ j \in 1..Len(q)
    BY <1>1, <1>5, <2>3, Elements
  <2>4. CASE i \in 1..Len(q) /\ j = Len(q) + 1
    BY <1>1, <1>5, <2>4, Elements
  <2> QED
    BY <1>2, <2>1, <2>2, <2>3, <2>4
<1> QED
  BY <1>1, <1>4, <1>5 DEF a

\* The elements of a concatenation, by index.
LEMMA Joined ==
  ASSUME NEW S, NEW a \in Seq(S), NEW b \in Seq(S)
  PROVE  /\ a \o b \in Seq(S) /\ Len(a \o b) = Len(a) + Len(b)
         /\ \A j \in 1..(Len(a) + Len(b)) : (a \o b)[j] = IF j <= Len(a) THEN a[j] ELSE b[j - Len(a)]
OBVIOUS

\* RemoveAt closes the gap: what follows index i moves one place up.
LEMMA Removal ==
  ASSUME NEW S, NEW q \in Seq(S), NEW i \in 1..Len(q)
  PROVE  /\ RemoveAt(q, i) \in Seq(S) /\ Len(RemoveAt(q, i)) = Len(q) - 1
         /\ \A j \in 1..(Len(q) - 1) : RemoveAt(q, i)[j] = IF j < i THEN q[j] ELSE q[j + 1]
<1> DEFINE a == SubSeq(q, 1, i - 1)
           b == SubSeq(q, i + 1, Len(q))
<1>1. a \in Seq(S) /\ Len(a) = i - 1 /\ \A j \in 1..(i - 1) : a[j] = q[j]
  OBVIOUS
<1>2. b \in Seq(S) /\ Len(b) = Len(q) - i /\ \A j \in 1..(Len(q) - i) : b[j] = q[i + j]
  OBVIOUS
<1> HIDE DEF a, b
<1>3. /\ a \o b \in Seq(S) /\ Len(a \o b) = Len(q) - 1
      /\ \A j \in 1..(Len(q) - 1) : (a \o b)[j] = IF j <= i - 1 THEN a[j] ELSE b[j - (i - 1)]
  <2>1. a \o b \in Seq(S) /\ Len(a \o b) = Len(a) + Len(b)
    BY <1>1, <1>2, Joined
  <2>2. Len(a) + Len(b) = Len(q) - 1
    BY <1>1, <1>2
  <2>3. \A j \in 1..(Len(a) + Len(b)) : (a \o b)[j] = IF j <= Len(a) THEN a[j] ELSE b[j - Len(a)]
    BY <1>1, <1>2, Joined
  <2> QED
    BY <1>1, <2>1, <2>2, <2>3
<1>4. \A j \in 1..(Len(q) - 1) : (a \o b)[j] = IF j < i THEN q[j] ELSE q[j + 1]
  <2> SUFFICES ASSUME NEW j \in 1..(Len(q) - 1) PROVE (a \o b)[j] = IF j < i THEN q[j] ELSE q[j + 1]
    OBVIOUS
  <2>1. CASE j < i
    BY <1>1, <1>3, <2>1
  <2>2. CASE ~(j < i)
    <3>1. j - (i - 1) \in 1..(Len(q) - i) /\ i + (j - (i - 1)) = j + 1
      BY <2>2
    <3> QED
      BY <1>2, <1>3, <2>2, <3>1
  <2> QED
    BY <2>1, <2>2
<1> QED
  BY <1>3, <1>4 DEF a, b, RemoveAt

\* Removing the first x leaves the rest of a queue as it was; from one that holds x
\* once, x is gone.
LEMMA RemovedFirst ==
  ASSUME NEW S, NEW q \in Seq(S), NEW x
  PROVE  /\ RemoveFirst(q, x) \in Seq(S) /\ Len(RemoveFirst(q, x)) <= Len(q)
         /\ ToSet(RemoveFirst(q, x)) \subseteq ToSet(q)
         /\ x \notin ToSet(q) => RemoveFirst(q, x) = q
         /\ IsInjective(q) => /\ IsInjective(RemoveFirst(q, x))
                              /\ ToSet(RemoveFirst(q, x)) = ToSet(q) \ {x}
<1> DEFINE I == {i \in 1..Len(q) : q[i] = x}
           r == RemoveFirst(q, x)
<1>1. CASE I = {}
  <2>1. r = q /\ x \notin ToSet(q)
    BY <1>1, Elements DEF RemoveFirst
  <2> QED
    BY <2>1
<1>2. CASE I # {}
  <2>0. I \in SUBSET Nat
    OBVIOUS
  <2> HIDE DEF I
  <2>1. PICK i \in I : \A j \in I : i <= j
    BY <1>2, <2>0, Least
  <2>2. Min(I) \in I
    BY <2>1 DEF Min
  <2> DEFINE m == Min(I)
  <2>3. m \in 1..Len(q) /\ q[m] = x /\ x \in ToSet(q)
    BY <2>2, Elements DEF I
  <2>4. r = RemoveAt(q, m)
    BY <1>2, <2>2 DEF RemoveFirst, SelectInSeq, I
  <2> HIDE DEF r, m
  <2>5. /\ r \in Seq(S) /\ Len(r) = Len(q) - 1
        /\ \A j \in 1..(Len(q) - 1) : r[j] = IF j < m THEN q[j] ELSE q[j + 1]
    BY <2>3, <2>4, Removal
  <2>6. Len(q) \in Nat /\ \A j \in 1..(Len(q) - 1) : j \in 1..Len(q) /\ j + 1 \in 1..Len(q)
    OBVIOUS
  <2>7. ASSUME NEW y \in ToSet(r) PROVE y \in ToSet(q)
    <3>1. PICK j \in 1..Len(r) : r[j] = y
      BY <2>5, <2>7, Elements
    <3> QED
      BY <2>5, <2>6, <3>1, Elements
  <2>8. ASSUME IsInjective(q) PROVE IsInjective(r) /\ ToSet(r) = ToSet(q) \ {x}
    <3>1. \A j, n \in 1..Len(q) : q[j] = q[n] => j = n
      BY <2>8, Injective
    <3>2. ASSUME NEW j \in 1..Len(r), NEW n \in 1..Len(r), r[j] = r[n] PROVE j = n
      <4>1. /\ (IF j < m THEN j ELSE j + 1) = (IF n < m THEN n ELSE n + 1)
        BY <2>5, <2>6, <3>1, <3>2
      <4> QED
        BY <2>3, <2>5, <4>1
    <3>3. ASSUME NEW y \in ToSet(r) PROVE y # x
      <4>1. PICK j \in 1..Len(r) : r[j] = y
        BY <2>5, <3>3, Elements
      <4>2. CASE j < m
        BY <2>3, <2>5, <2>6, <3>1, <4>1, <4>2
      <4>3. CASE ~(j < m)
        <5>1. j + 1 # m /\ j + 1 \in 1..Len(q) /\ r[j] = q[j + 1]
          BY <2>3, <2>5, <2>6, <4>1, <4>3
        <5> QED
          BY <2>3, <3>1, <4>1, <5>1
      <4> QED
        BY <4>2, <4>3
    <3>4. ASSUME NEW y \in ToSet(q), y # x PROVE y \in ToSet(r)
      <4>1. PICK j \in 1..Len(q) : q[j] = y
        BY <3>4, Elements
      <4>2. j # m
        BY <2>3, <3>4, <4>1
      <4>3. CASE j < m
        <5>1. j \in 1..Len(r) /\ r[j] = y
          BY <2>3, <2>5, <4>1, <4>3
        <5> QED
          BY <2>5, <5>1, Elements
      <4>4. CASE j > m
        <5>1. j - 1 \in 1..Len(r) /\ ~(j - 1 < m) /\ (j - 1) + 1 = j
          BY <2>3, <2>5, <4>1, <4>4
        <5>2. r[j - 1] = y
          BY <2>5, <4>1, <5>1
        <5> QED
          BY <2>5, <5>1, <5>2, Elements
      <4> QED
        BY <2>3, <4>1, <4>2, <4>3, <4>4
    <3> QED
      BY <2>5, <2>7, <3>2, <3>3, <3>4, Injective
  <2> QED
    BY <2>3, <2>5, <2>6, <2>7, <2>8 DEF r
<1> QED
  BY <1>1, <1>2
-----------------------------------------------------------------------------
(* The size of a set of items.                                             *)

Items == Spans \cup Logs
\* The slots that items take.
Slots(items) == UNION {{x} \X (1..Attr[x].size) : x \in items}

\* What the assumption on the constants says of every span and log.
LEMMA ItemsAreSound ==
  /\ IsFiniteSet(Items)
  /\ \A x \in Items : Attr[x].trace \in Traces /\ Attr[x].size \in Nat \ {0}
                      /\ Attr[x].key \in Keys \cup {NoKey} /\ Attr[x].start \in Nat
BY StoreAssumption, FS_Union DEF Items

\* An item of size n takes n slots.
LEMMA Column ==
  ASSUME NEW x, NEW n \in Nat
  PROVE  IsFiniteSet({x} \X (1..n)) /\ Cardinality({x} \X (1..n)) = n
<1>1. IsFiniteSet({x}) /\ Cardinality({x}) = 1
  BY FS_Singleton
<1>2. IsFiniteSet(1..n) /\ Cardinality(1..n) = n
  <2>1. 1 \in Int /\ n \in Int
    OBVIOUS
  <2>2. IsFiniteSet(1..n) /\ Cardinality(1..n) = IF 1 > n THEN 0 ELSE n - 1 + 1
    BY <2>1, FS_Interval
  <2> QED
    BY <2>2
<1>3. IsFiniteSet({x} \X (1..n)) /\ Cardinality({x} \X (1..n)) = Cardinality({x}) * Cardinality(1..n)
  BY <1>1, <1>2, FS_Product
<1>4. 1 * n = n
  OBVIOUS
<1> QED
  BY <1>1, <1>2, <1>3, <1>4

\* The size of a set of items is the number of slots they take.
LEMMA SlotsOf ==
  ASSUME NEW A \in SUBSET Items
  PROVE  /\ IsFiniteSet(Slots(A)) /\ Size(A) = Cardinality(Slots(A))
         /\ \A p : p \in Slots(A) <=> \E x \in A : \E n \in 1..Attr[x].size : p = <<x, n>>
<1> DEFINE f == [x \in A |-> {x} \X (1..Attr[x].size)]
           T == {{x} \X (1..Attr[x].size) : x \in A}
<1>1. f \in Surjection(A, T)
  <2>1. f \in [A -> T] /\ \A t \in T : \E x \in A : f[x] = t
    OBVIOUS
  <2> QED
    BY <2>1 DEF Surjection
<1>2. IsFiniteSet(A)
  BY ItemsAreSound, FS_Subset
<1>3. IsFiniteSet(T)
  <2> HIDE DEF f, T
  <2> QED
    BY <1>1, <1>2, FS_Surjection
<1>4. ASSUME NEW t \in T PROVE IsFiniteSet(t)
  <2>1. PICK x \in A : t = {x} \X (1..Attr[x].size)
    OBVIOUS
  <2>2. Attr[x].size \in Nat
    BY <2>1, ItemsAreSound
  <2> HIDE DEF T
  <2> QED
    BY <2>1, <2>2, Column
<1>5. IsFiniteSet(UNION T)
  <2> HIDE DEF T
  <2> QED
    BY <1>3, <1>4, FS_UNION
<1> QED
  BY <1>5 DEF Size, Slots

\* Sizes are naturals.
LEMMA SizeType ==
  ASSUME NEW A \in SUBSET Items
  PROVE  Size(A) \in Nat
BY SlotsOf, FS_CardinalityType

\* No items have no size.
LEMMA SizeNone == Size({}) = 0
<1>1. {} \in SUBSET Items /\ Slots({}) = {}
  BY DEF Slots
<1> QED
  BY <1>1, SlotsOf, FS_EmptySet

\* One item has its own size.
LEMMA SizeOne ==
  ASSUME NEW x \in Items
  PROVE  Size({x}) = Attr[x].size
<1>1. Attr[x].size \in Nat
  BY ItemsAreSound
<1>2. Cardinality({x} \X (1..Attr[x].size)) = Attr[x].size
  BY <1>1, Column
<1>3. Slots({x}) = {x} \X (1..Attr[x].size)
  BY DEF Slots
<1>4. Size({x}) = Cardinality(Slots({x}))
  BY SlotsOf
<1> QED
  BY <1>2, <1>3, <1>4

\* The sizes of disjoint sets add up.
LEMMA SizeUnion ==
  ASSUME NEW A \in SUBSET Items, NEW B \in SUBSET Items, A \cap B = {}
  PROVE  Size(A \cup B) = Size(A) + Size(B)
<1>1. A \cup B \in SUBSET Items
  OBVIOUS
<1>2. Slots(A \cup B) = Slots(A) \cup Slots(B)
  BY DEF Slots
<1>3. Slots(A) \cap Slots(B) = {}
  <2> SUFFICES ASSUME NEW p \in Slots(A), p \in Slots(B) PROVE FALSE
    OBVIOUS
  <2>1. PICK x \in A : \E n \in 1..Attr[x].size : p = <<x, n>>
    BY SlotsOf
  <2>2. PICK y \in B : \E m \in 1..Attr[y].size : p = <<y, m>>
    BY SlotsOf
  <2> QED
    BY <2>1, <2>2
<1>4. IsFiniteSet(Slots(A)) /\ IsFiniteSet(Slots(B))
  BY SlotsOf
<1>5. Cardinality(Slots(A)) \in Nat /\ Cardinality(Slots(B)) \in Nat
  BY <1>4, FS_CardinalityType
<1>6. Cardinality(Slots(A) \cup Slots(B)) = Cardinality(Slots(A)) + Cardinality(Slots(B)) - Cardinality({})
  BY <1>3, <1>4, FS_Union
<1>7. Cardinality({}) = 0
  BY FS_EmptySet
<1>8. Cardinality(Slots(A) \cup Slots(B)) = Cardinality(Slots(A)) + Cardinality(Slots(B))
  BY <1>5, <1>6, <1>7
<1> QED
  BY <1>1, <1>2, <1>8, SlotsOf

\* What is taken away leaves the rest.
LEMMA SizeWithout ==
  ASSUME NEW A \in SUBSET Items, NEW B \in SUBSET A
  PROVE  Size(A \ B) = Size(A) - Size(B)
<1>1. A \ B \in SUBSET Items /\ B \in SUBSET Items /\ (A \ B) \cap B = {} /\ (A \ B) \cup B = A
  OBVIOUS
<1>2. Size(A) = Size(A \ B) + Size(B)
  BY <1>1, SizeUnion
<1> QED
  BY <1>1, <1>2, SizeType

\* A new item adds its size.
LEMMA SizeWith ==
  ASSUME NEW A \in SUBSET Items, NEW x \in Items, x \notin A
  PROVE  Size(A \cup {x}) = Size(A) + Attr[x].size
<1>1. {x} \in SUBSET Items /\ A \cap {x} = {}
  OBVIOUS
<1> QED
  BY <1>1, SizeUnion, SizeOne

-----------------------------------------------------------------------------
(* Keys and ids.                                                           *)

\* A batch asks for a key that its items carry, or for none.
LEMMA KeyOfType ==
  ASSUME NEW xs \in SUBSET Items
  PROVE  KeyOf(xs) \in Keys \cup {NoKey}
<1> DEFINE keyed == {x \in xs : Attr[x].key # NoKey}
           best == {x \in keyed : \A y \in keyed : Strength[Attr[y].key] <= Strength[Attr[x].key]}
           Starts == {Attr[x].start : x \in best}
<1>1. CASE keyed = {}
  BY <1>1 DEF KeyOf
<1>2. CASE keyed # {}
  <2>1. IsFiniteSet(keyed)
    <3>1. keyed \in SUBSET Items
      OBVIOUS
    <3> HIDE DEF keyed
    <3> QED
      BY <3>1, ItemsAreSound, FS_Subset
  <2> DEFINE f == [x \in keyed |-> Strength[Attr[x].key]]
  <2>2. f \in [keyed -> Nat]
    BY ItemsAreSound, StoreAssumption
  <2>3. \E x \in keyed : \A y \in keyed : f[y] <= f[x]
    <3> HIDE DEF keyed, f
    <3> QED
      BY <1>2, <2>1, <2>2, Greatest
  <2>4. PICK b : b \in best
    BY <2>3
  <2>5. Starts \in SUBSET Nat /\ Starts # {}
    BY <2>4, ItemsAreSound
  <2>6. \E n \in Starts : \A m \in Starts : n <= m
    <3> HIDE DEF Starts
    <3> QED
      BY <2>5, Least
  <2>7. \E x \in best : \A y \in best : Attr[x].start <= Attr[y].start
    <3>1. PICK n \in Starts : \A m \in Starts : n <= m
      BY <2>6
    <3>2. PICK x \in best : Attr[x].start = n
      BY <3>1
    <3>3. \A y \in best : Attr[y].start \in Starts
      OBVIOUS
    <3> HIDE DEF Starts, best
    <3> QED
      BY <3>1, <3>2, <3>3
  <2> DEFINE c == CHOOSE x \in best : \A y \in best : Attr[x].start <= Attr[y].start
  <2>8. c \in best
    <3> HIDE DEF best
    <3> QED
      BY <2>7
  <2>9. KeyOf(xs) = Attr[c].key
    BY <1>2 DEF KeyOf
  <2>10. c \in Items
    <3> HIDE DEF c
    <3> QED
      BY <2>8
  <2> HIDE DEF c
  <2> QED
    BY <2>9, <2>10, ItemsAreSound
<1> QED
  BY <1>1, <1>2

\* _unique_id finds an id that no live session has.
LEMMA FreshIdIsFree ==
  ASSUME NEW s, IsFiniteSet(Live(s)), NEW name,
         name \in Traces \cup {Name[k] : k \in Keys}
                  \cup {b.name : b \in UNION {Bundles[d] : d \in Deployments}}
  PROVE  FreshId(s, name) \in Ids /\ FreshId(s, name) \notin Live(s)
<1> DEFINE N == Cardinality(Live(s)) + 1
           Free == {n \in 1..N : <<name, n>> \notin Live(s)}
<1>1. Cardinality(Live(s)) \in Nat
  BY FS_CardinalityType
<1>2. Free # {}
  <2> SUFFICES ASSUME Free = {} PROVE FALSE
    OBVIOUS
  <2> DEFINE f == [n \in 1..N |-> <<name, n>>]
  <2>1. f \in Injection(1..N, Live(s))
    BY DEF Injection, IsInjective
  <2>2. Cardinality(1..N) <= Cardinality(Live(s))
    <3> HIDE DEF f, N
    <3> QED
      BY <2>1, FS_Injection
  <2>3. Cardinality(1..N) = N
    <3>1. N \in Int /\ 1 \in Int /\ N >= 1
      BY <1>1
    <3> HIDE DEF N
    <3>2. Cardinality(1..N) = IF 1 > N THEN 0 ELSE N - 1 + 1
      BY <3>1, FS_Interval
    <3> QED
      BY <3>1, <3>2
  <2> QED
    BY <1>1, <2>2, <2>3
<1>3. Free \in SUBSET Nat
  BY <1>1
<1>4. \E n \in Free : \A m \in Free : n <= m
  <2> HIDE DEF Free
  <2> QED
    BY <1>2, <1>3, Least
<1>5. Min(Free) \in Free
  <2> HIDE DEF Free
  <2> QED
    BY <1>4 DEF Min
<1>6. FreshId(s, name) = <<name, Min(Free)>>
  BY DEF FreshId
<1> DEFINE m == Min(Free)
<1> HIDE DEF m
<1>7. m \in Nat \ {0} /\ <<name, m>> \notin Live(s)
  BY <1>1, <1>5 DEF m
<1>8. <<name, m>> \in Ids
  BY <1>7 DEF Ids
<1> QED
  BY <1>6, <1>7, <1>8 DEF m
=============================================================================
