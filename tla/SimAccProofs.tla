---------------------------- MODULE SimAccProofs ----------------------------
(* Proofs about SimAcc for any sizes, moduli, texts and writers: what the  *)
(* folds of its reference compute, the length of the result, and that the  *)
(* result of an undisturbed write is the sum the reference defines.        *)
(* Induction is by a least counterexample.                                 *)
EXTENDS SimAcc, FiniteSetTheorems, TLAPS

(* Sums over finite sets.                                                  *)

\* Every set of natural numbers has a least element: what induction rests on here.
LEMMA Least ==
  ASSUME NEW N \in SUBSET Nat, N # {}
  PROVE  \E n \in N : \A m \in N : n <= m
<1> DEFINE Below == {ss \in Nat \X Nat : ss[1] < ss[2]}
<1>1. IsWellFoundedOn(Below, Nat)
  BY NatLessThanWellFounded DEF OpToRel
<1> HIDE DEF Below
<1>2. PICK n \in N : \A m \in N : ~(<<m, n>> \in Below)
  BY <1>1, WFMin, Zenon
<1>3. \A m \in N : ~(m < n)
  BY <1>2, Zenon DEF Below
<1> QED BY <1>3

\* The fold of MapThenSumSet, with the function to be summed as a parameter.
Pick(s) == CHOOSE x \in s : TRUE
SumStep(f, g, s) == IF s = {} THEN 0 ELSE f[Pick(s)] + g[s \ {Pick(s)}]
IsSumFun(f, A, g) == g = [s \in SUBSET A |-> SumStep(f, g, s)]
SumFun(f, A) == CHOOSE g : IsSumFun(f, A, g)
Sum(f, A) == SumFun(f, A)[A]

\* The element a fold takes out first.
LEMMA PickIn ==
  ASSUME NEW s, s # {}, IsFiniteSet(s)
  PROVE  /\ Pick(s) \in s /\ IsFiniteSet(s \ {Pick(s)}) /\ Cardinality(s) \in Nat \ {0}
         /\ Cardinality(s \ {Pick(s)}) = Cardinality(s) - 1
<1>1. Pick(s) \in s
  BY Zenon DEF Pick
<1>2. Cardinality(s) \in Nat /\ Cardinality(s) # 0
  BY FS_CardinalityType, FS_EmptySet
<1> QED BY <1>1, <1>2, FS_RemoveElement

\* The function a fold is defined by exists,
LEMMA SumExists ==
  ASSUME NEW A, IsFiniteSet(A), NEW f
  PROVE  \E g : IsSumFun(f, A, g)
<1> DEFINE Level(n) == {s \in SUBSET A : Cardinality(s) <= n}
           Good(n, g) == g = [s \in Level(n) |-> SumStep(f, g, s)]
           Bad == {n \in Nat : ~\E g : Good(n, g)}
<1>0. \A s \in SUBSET A : IsFiniteSet(s) /\ Cardinality(s) \in Nat
  BY FS_Subset, FS_CardinalityType
<1>1. ASSUME NEW n \in Bad, \A m \in Bad : n <= m PROVE FALSE
  <2>1. CASE n = 0
    <3> DEFINE g == [s \in Level(0) |-> 0]
    <3>1. Level(0) = {{}}
      BY <1>0, FS_EmptySet
    <3>2. g[{}] = 0 /\ SumStep(f, g, {}) = 0
      BY <3>1 DEF SumStep
    <3>3. Good(0, g)
      BY <3>1, <3>2, Zenon
    <3> QED BY <2>1, <3>3
  <2>2. CASE n # 0
    <3>1. n - 1 \in Nat /\ n - 1 \notin Bad
      <4>1. n \in Nat
        OBVIOUS
      <4>2. n - 1 \in Nat /\ ~(n <= n - 1)
        BY <2>2, <4>1
      <4> HIDE DEF Bad
      <4> QED BY <1>1, <4>2
    <3>2. PICK g : Good(n - 1, g)
      BY <3>1, Zenon
    <3> DEFINE h == [s \in Level(n) |-> SumStep(f, g, s)]
    <3>3. ASSUME NEW s \in Level(n) PROVE SumStep(f, h, s) = SumStep(f, g, s)
      <4>1. CASE s = {}
        BY <4>1 DEF SumStep
      <4>2. CASE s # {}
        <5> DEFINE u == s \ {Pick(s)}
        <5>1. u \in SUBSET A /\ Cardinality(u) = Cardinality(s) - 1 /\ Cardinality(s) \in Nat
          BY <1>0, <4>2, PickIn
        <5>2. u \in Level(n - 1) /\ u \in Level(n)
          BY <5>1
        <5>3. h[u] = SumStep(f, g, u) /\ g[u] = SumStep(f, g, u)
          BY <3>2, <5>2
        <5> QED BY <4>2, <5>3 DEF SumStep
      <4> QED BY <4>1, <4>2
    <3>4. Good(n, h)
      <4> HIDE DEF Level
      <4> QED BY <3>3, Zenon
    <3> QED BY <3>4
  <2> QED BY <2>1, <2>2
<1>2. Bad = {}
  BY <1>1, Least
<1>3. PICK g : Good(Cardinality(A), g)
  BY <1>0, <1>2
<1>4. Level(Cardinality(A)) = SUBSET A
  BY <1>0, FS_Subset
<1>5. IsSumFun(f, A, g)
  BY <1>3, <1>4 DEF IsSumFun
<1> QED BY <1>5

\* and so obeys its equation.
LEMMA SumRec ==
  ASSUME NEW A, IsFiniteSet(A), NEW f, NEW u \in SUBSET A
  PROVE  SumFun(f, A)[u] = SumStep(f, SumFun(f, A), u)
<1>1. IsSumFun(f, A, SumFun(f, A))
  BY SumExists, Zenon DEF SumFun
<1> QED BY <1>1, Zenon DEF IsSumFun

\* A sum depends on nothing but the summands.
LEMMA SumSame ==
  ASSUME NEW A, IsFiniteSet(A), NEW B, IsFiniteSet(B), NEW f, NEW h,
         NEW C \in SUBSET (A \cap B), \A x \in C : f[x] = h[x]
  PROVE  SumFun(f, A)[C] = SumFun(h, B)[C]
<1> DEFINE Differ(s) == SumFun(f, A)[s] # SumFun(h, B)[s]
           Bad == {n \in Nat : \E s \in SUBSET C : Cardinality(s) = n /\ Differ(s)}
<1>0. \A s \in SUBSET C : IsFiniteSet(s) /\ Cardinality(s) \in Nat
  BY FS_Subset, FS_CardinalityType
<1>1. ASSUME NEW n \in Bad, \A m \in Bad : n <= m PROVE FALSE
  <2>1. PICK s \in SUBSET C : Cardinality(s) = n /\ Differ(s)
    OBVIOUS
  <2>2. s \in SUBSET A /\ s \in SUBSET B
    OBVIOUS
  <2>3. /\ SumFun(f, A)[s] = SumStep(f, SumFun(f, A), s)
        /\ SumFun(h, B)[s] = SumStep(h, SumFun(h, B), s)
    BY <2>2, SumRec
  <2>4. s # {}
    BY <2>1, <2>3 DEF SumStep
  <2> DEFINE u == s \ {Pick(s)}
  <2>5. /\ Pick(s) \in C /\ u \in SUBSET C /\ Cardinality(u) = n - 1 /\ n - 1 \in Nat
    BY <1>0, <2>1, <2>4, PickIn
  <2>6. n - 1 \notin Bad
    BY <1>1, <2>5
  <2>7. ~Differ(u)
    BY <2>5, <2>6
  <2> QED BY <2>1, <2>3, <2>4, <2>5, <2>7 DEF SumStep
<1>2. Bad = {}
  BY <1>1, Least
<1>3. ~Differ(C)
  BY <1>0, <1>2
<1> QED BY <1>3

\* Only the values on the set matter.
LEMMA SumAgree ==
  ASSUME NEW A, IsFiniteSet(A), NEW f, NEW h, \A x \in A : f[x] = h[x]
  PROVE  Sum(f, A) = Sum(h, A)
<1>1. A \in SUBSET (A \cap A)
  OBVIOUS
<1>2. SumFun(f, A)[A] = SumFun(h, A)[A]
  BY <1>1, SumSame
<1> QED BY <1>2 DEF Sum

\* The sum over no elements,
LEMMA SumEmpty == \A f : Sum(f, {}) = 0
<1> SUFFICES ASSUME NEW f PROVE Sum(f, {}) = 0
  OBVIOUS
<1>1. IsFiniteSet({}) /\ {} \in SUBSET {}
  BY FS_EmptySet
<1>2. SumFun(f, {})[{}] = SumStep(f, SumFun(f, {}), {})
  BY <1>1, SumRec
<1> QED BY <1>2 DEF Sum, SumStep

\* and over one more.
LEMMA SumPick ==
  ASSUME NEW A, IsFiniteSet(A), A # {}, NEW f
  PROVE  Sum(f, A) = f[Pick(A)] + Sum(f, A \ {Pick(A)})
<1> DEFINE B == A \ {Pick(A)}
<1>1. IsFiniteSet(B) /\ B \in SUBSET (A \cap B) /\ A \in SUBSET A
  BY PickIn
<1>2. SumFun(f, A)[A] = f[Pick(A)] + SumFun(f, A)[B]
  BY <1>1, SumRec DEF SumStep
<1>3. SumFun(f, A)[B] = SumFun(f, B)[B]
  BY <1>1, SumSame
<1> QED BY <1>2, <1>3 DEF Sum

\* Sums of natural numbers are natural numbers.
LEMMA SumNat ==
  ASSUME NEW A, IsFiniteSet(A), NEW f, \A x \in A : f[x] \in Nat
  PROVE  Sum(f, A) \in Nat
<1> DEFINE Bad == {n \in Nat : \E s \in SUBSET A : Cardinality(s) = n /\ Sum(f, s) \notin Nat}
<1>0. \A s \in SUBSET A : IsFiniteSet(s) /\ Cardinality(s) \in Nat
  BY FS_Subset, FS_CardinalityType
<1>1. ASSUME NEW n \in Bad, \A m \in Bad : n <= m PROVE FALSE
  <2>1. PICK s \in SUBSET A : Cardinality(s) = n /\ Sum(f, s) \notin Nat
    OBVIOUS
  <2>2. s # {}
    BY <2>1, SumEmpty
  <2> DEFINE u == s \ {Pick(s)}
  <2>3. /\ Pick(s) \in A /\ u \in SUBSET A /\ Cardinality(u) = n - 1 /\ n - 1 \in Nat
    BY <1>0, <2>1, <2>2, PickIn
  <2>4. n - 1 \notin Bad
    BY <1>1, <2>3
  <2>5. Sum(f, u) \in Nat
    BY <2>3, <2>4
  <2>6. Sum(f, s) = f[Pick(s)] + Sum(f, u)
    BY <1>0, <2>2, SumPick
  <2> QED BY <2>1, <2>3, <2>5, <2>6
<1>2. Bad = {}
  BY <1>1, Least, Zenon
<1> QED BY <1>0, <1>2

\* One more summand.
LEMMA SumAdd ==
  ASSUME NEW A, IsFiniteSet(A), NEW z, z \notin A, NEW f,
         \A x \in A \cup {z} : f[x] \in Nat
  PROVE  Sum(f, A \cup {z}) = Sum(f, A) + f[z]
<1> DEFINE E == A \cup {z}
           Wrong(s, x) == Sum(f, s \cup {x}) # Sum(f, s) + f[x]
           Bad == {n \in Nat : \E s \in SUBSET E, x \in E :
                                 x \notin s /\ Cardinality(s) = n /\ Wrong(s, x)}
<1>0. \A s \in SUBSET E : IsFiniteSet(s) /\ Cardinality(s) \in Nat /\ Sum(f, s) \in Nat
  <2>1. IsFiniteSet(E)
    BY FS_AddElement
  <2>2. ASSUME NEW s \in SUBSET E
        PROVE  IsFiniteSet(s) /\ Cardinality(s) \in Nat /\ \A x \in s : f[x] \in Nat
    BY <2>1, FS_Subset, FS_CardinalityType
  <2> QED BY <2>2, SumNat
<1>1. ASSUME NEW n \in Bad, \A m \in Bad : n <= m PROVE FALSE
  <2>1. PICK s \in SUBSET E, x \in E : x \notin s /\ Cardinality(s) = n /\ Wrong(s, x)
    OBVIOUS
  <2> DEFINE w == s \cup {x}
             y == Pick(w)
  <2>2. w \in SUBSET E /\ w # {} /\ y \in w
    BY <1>0, <2>1, PickIn, Zenon
  <2>3. Sum(f, w) = f[y] + Sum(f, w \ {y})
    BY <1>0, <2>2, SumPick
  <2> HIDE DEF y
  <2>4. CASE y = x
    <3>1. w \ {y} = s /\ f[y] \in Nat /\ Sum(f, s) \in Nat
      BY <1>0, <2>1, <2>4
    <3>2. Sum(f, w) = f[x] + Sum(f, s)
      BY <2>3, <2>4, <3>1
    <3>3. Sum(f, w) # Sum(f, s) + f[x]
      BY <2>1
    <3> HIDE DEF w
    <3> QED BY <2>4, <3>1, <3>2, <3>3
  <2>5. CASE y # x
    <3> DEFINE r == s \ {y}
    <3>1. /\ y \in s /\ r \in SUBSET E /\ y \notin r /\ x \notin r /\ x \in E /\ y \in E
          /\ w \ {y} = r \cup {x} /\ r \cup {y} = s
      BY <2>1, <2>2, <2>5
    <3>2. Cardinality(r) = n - 1 /\ n - 1 \in Nat
      <4>1. IsFiniteSet(s) /\ Cardinality(s) \in Nat /\ s # {}
        BY <1>0, <3>1
      <4>2. Cardinality(s) # 0
        BY <4>1, FS_EmptySet
      <4>3. Cardinality(r) = Cardinality(s) - 1
        BY <3>1, <4>1, FS_RemoveElement, Zenon
      <4> QED BY <2>1, <4>1, <4>2, <4>3
    <3>3. n - 1 \notin Bad
      <4>1. ~(n <= n - 1)
        BY <3>2
      <4> HIDE DEF Bad
      <4> QED BY <1>1, <4>1
    <3>4. ~Wrong(r, x) /\ ~Wrong(r, y)
      BY <3>1, <3>2, <3>3
    <3>5. f[x] \in Nat /\ f[y] \in Nat /\ Sum(f, r) \in Nat
      BY <1>0, <3>1
    <3>6. Sum(f, w) = f[y] + (Sum(f, r) + f[x])
      BY <2>3, <3>1, <3>4
    <3>7. Sum(f, s) = Sum(f, r) + f[y]
      BY <3>1, <3>4
    <3> QED BY <2>1, <3>5, <3>6, <3>7
  <2> QED BY <2>4, <2>5
<1>2. Bad = {}
  BY <1>1, Least, Zenon
<1>3. A \in SUBSET E /\ z \in E
  OBVIOUS
<1>4. ~Wrong(A, z)
  BY <1>0, <1>2, <1>3
<1> QED BY <1>4

\* The sum over two disjoint sets.
LEMMA SumUnion ==
  ASSUME NEW A, IsFiniteSet(A), NEW B, IsFiniteSet(B), A \cap B = {}, NEW f,
         \A x \in A \cup B : f[x] \in Nat
  PROVE  Sum(f, A \cup B) = Sum(f, A) + Sum(f, B)
<1> DEFINE Wrong(s) == Sum(f, A \cup s) # Sum(f, A) + Sum(f, s)
           Bad == {n \in Nat : \E s \in SUBSET B : Cardinality(s) = n /\ Wrong(s)}
<1>0. \A s \in SUBSET B : IsFiniteSet(s) /\ Cardinality(s) \in Nat /\ IsFiniteSet(A \cup s)
                          /\ Sum(f, s) \in Nat
  <2>1. ASSUME NEW s \in SUBSET B
        PROVE  IsFiniteSet(s) /\ Cardinality(s) \in Nat /\ IsFiniteSet(A \cup s)
    BY FS_Subset, FS_CardinalityType, FS_Union, Zenon
  <2>2. \A s \in SUBSET B : \A x \in s : f[x] \in Nat
    OBVIOUS
  <2> QED BY <2>1, <2>2, SumNat
<1>1. ASSUME NEW n \in Bad, \A m \in Bad : n <= m PROVE FALSE
  <2>1. PICK s \in SUBSET B : Cardinality(s) = n /\ Wrong(s)
    OBVIOUS
  <2>2. Sum(f, A) \in Nat
    BY SumNat
  <2>3. s # {}
    <3>1. A \cup {} = A /\ Sum(f, {}) = 0
      BY SumEmpty
    <3>2. ~Wrong({})
      BY <2>2, <3>1
    <3> QED BY <2>1, <3>2
  <2> DEFINE y == Pick(s)
             u == s \ {y}
  <2>4. /\ y \in s /\ u \in SUBSET B /\ Cardinality(u) = n - 1 /\ n - 1 \in Nat
    BY <1>0, <2>1, <2>3, PickIn, Zenon
  <2> HIDE DEF y
  <2>5. n - 1 \notin Bad
    <3>1. ~(n <= n - 1)
      BY <2>4
    <3> HIDE DEF Bad
    <3> QED BY <1>1, <3>1
  <2>6. ~Wrong(u)
    BY <2>4, <2>5
  <2>7. y \notin u /\ y \notin A \cup u /\ s = u \cup {y} /\ A \cup s = (A \cup u) \cup {y}
    BY <2>4
  <2>8. Sum(f, s) = Sum(f, u) + f[y]
    BY <1>0, <2>4, <2>7, SumAdd, Zenon
  <2>9. Sum(f, (A \cup u) \cup {y}) = Sum(f, A \cup u) + f[y]
    <3>1. \A x \in (A \cup u) \cup {y} : f[x] \in Nat
      BY <2>4
    <3>2. IsFiniteSet(A \cup u)
      BY <1>0, <2>4
    <3> QED BY <2>7, <3>1, <3>2, SumAdd, Zenon
  <2>10. Sum(f, u) \in Nat /\ f[y] \in Nat
    BY <1>0, <2>4, Zenon
  <2>11. Sum(f, A \cup s) = (Sum(f, A) + Sum(f, u)) + f[y]
    BY <2>6, <2>7, <2>9
  <2>12. Sum(f, A \cup s) = Sum(f, A) + Sum(f, s)
    <3> HIDE DEF u
    <3> QED BY <2>2, <2>8, <2>10, <2>11
  <2> QED BY <2>1, <2>12
<1>2. Bad = {}
  BY <1>1, Least, Zenon
<1>3. B \in SUBSET B
  OBVIOUS
<1>4. ~Wrong(B)
  BY <1>0, <1>2, <1>3
<1> QED BY <1>4

\* The sum of ten times as much.
LEMMA SumTimes ==
  ASSUME NEW A, IsFiniteSet(A), NEW f, \A x \in A : f[x] \in Nat,
         NEW h, \A x \in A : h[x] = 10 * f[x]
  PROVE  Sum(h, A) = 10 * Sum(f, A)
<1> DEFINE Wrong(s) == Sum(h, s) # 10 * Sum(f, s)
           Bad == {n \in Nat : \E s \in SUBSET A : Cardinality(s) = n /\ Wrong(s)}
<1>0. \A s \in SUBSET A : IsFiniteSet(s) /\ Cardinality(s) \in Nat /\ Sum(f, s) \in Nat
  <2>1. ASSUME NEW s \in SUBSET A PROVE IsFiniteSet(s) /\ Cardinality(s) \in Nat
    BY FS_Subset, FS_CardinalityType
  <2>2. \A s \in SUBSET A : \A x \in s : f[x] \in Nat
    OBVIOUS
  <2> QED BY <2>1, <2>2, SumNat
<1>1. ASSUME NEW n \in Bad, \A m \in Bad : n <= m PROVE FALSE
  <2>1. PICK s \in SUBSET A : Cardinality(s) = n /\ Wrong(s)
    OBVIOUS
  <2>2. s # {}
    BY <2>1, SumEmpty
  <2> DEFINE y == Pick(s)
             u == s \ {y}
  <2>3. /\ y \in A /\ u \in SUBSET A /\ Cardinality(u) = n - 1 /\ n - 1 \in Nat
    BY <1>0, <2>1, <2>2, PickIn
  <2>4. Sum(f, s) = f[y] + Sum(f, u) /\ Sum(h, s) = h[y] + Sum(h, u)
    BY <1>0, <2>2, SumPick, Zenon
  <2> HIDE DEF y
  <2>5. n - 1 \notin Bad
    <3>1. ~(n <= n - 1)
      BY <2>3
    <3> HIDE DEF Bad
    <3> QED BY <1>1, <3>1
  <2>6. ~Wrong(u)
    BY <2>3, <2>5
  <2>7. Sum(f, u) \in Nat /\ f[y] \in Nat /\ h[y] = 10 * f[y]
    BY <1>0, <2>3
  <2> QED BY <2>1, <2>4, <2>6, <2>7
<1>2. Bad = {}
  BY <1>1, Least
<1>3. A \in SUBSET A
  OBVIOUS
<1>4. ~Wrong(A)
  BY <1>0, <1>2, <1>3
<1> QED BY <1>4

-----------------------------------------------------------------------------
(* Remainders.                                                             *)

\* A remainder is at most the number, and below the modulus.
LEMMA ModLe ==
  ASSUME NEW a \in Nat, NEW m \in Nat \ {0}
  PROVE  a % m <= a /\ a % m \in 0..(m - 1)
OBVIOUS

\* Quotient and remainder are unique.
LEMMA ModUnique ==
  ASSUME NEW m \in Nat \ {0}, NEW q \in Nat, NEW p \in Nat,
         NEW r \in 0..(m - 1), NEW t \in 0..(m - 1), q * m + r = p * m + t
  PROVE  r = t
<1>1. CASE q < p
  <2>1. q + 1 <= p
    BY <1>1
  <2>2. (q + 1) * m <= p * m
    BY <2>1
  <2> QED BY <2>2
<1>2. CASE p < q
  <2>1. p + 1 <= q
    BY <1>2
  <2>2. (p + 1) * m <= q * m
    BY <2>1
  <2> QED BY <2>2
<1> QED BY <1>1, <1>2

\* Every number has a quotient.
LEMMA ModSplit ==
  ASSUME NEW a \in Nat, NEW m \in Nat \ {0}
  PROVE  \E q \in Nat : a = q * m + (a % m)
<1>1. a \div m \in Nat /\ a = (a \div m) * m + (a % m)
  OBVIOUS
<1> QED BY <1>1, Zenon

\* A sum can be reduced as it goes.
LEMMA ModAdd ==
  ASSUME NEW a \in Nat, NEW b \in Nat, NEW m \in Nat \ {0}
  PROVE  ((a % m) + b) % m = (a + b) % m
<1>1. PICK q \in Nat : a = q * m + (a % m)
  BY ModSplit
<1>2. (a % m) + b \in Nat /\ a + b \in Nat
  BY ModLe
<1>3. PICK p \in Nat : (a % m) + b = p * m + (((a % m) + b) % m)
  BY <1>2, ModSplit, Zenon
<1>4. PICK t \in Nat : a + b = t * m + ((a + b) % m)
  BY <1>2, ModSplit
<1>5. ((a % m) + b) % m \in 0..(m - 1) /\ (a + b) % m \in 0..(m - 1)
  BY <1>2, ModLe
<1> DEFINE j == a % m
           k == ((a % m) + b) % m
           l == (a + b) % m
<1>6. a = q * m + j /\ j + b = p * m + k /\ a + b = t * m + l /\ k \in 0..(m - 1) /\ l \in 0..(m - 1)
      /\ j \in Nat
  BY <1>1, <1>3, <1>4, <1>5, ModLe
<1> HIDE DEF j, k, l
<1>7. (q + p) * m + k = t * m + l /\ q + p \in Nat
  BY <1>6
<1>8. k = l
  BY <1>6, <1>7, ModUnique, Zenon
<1> QED BY <1>8 DEF k, l

\* A number can be reduced as it is read.
TenFold(a, b, m) == ((a % m) * 10 + b) % m = (10 * a + b) % m

\* Reducing before or after the next digit is the same.
LEMMA ModTen ==
  ASSUME NEW a \in Nat, NEW b \in Nat, NEW m \in Nat \ {0}
  PROVE  TenFold(a, b, m)
<1>1. PICK q \in Nat : a = q * m + (a % m)
  BY ModSplit
<1> DEFINE j == a % m
<1>2. j \in Nat
  BY ModLe
<1>3. j * 10 + b \in Nat /\ 10 * a + b \in Nat
  BY <1>2
<1> DEFINE k == (j * 10 + b) % m
           l == (10 * a + b) % m
<1>4. PICK p \in Nat : j * 10 + b = p * m + k
  BY <1>3, ModSplit, Zenon
<1>5. PICK t \in Nat : 10 * a + b = t * m + l
  BY <1>3, ModSplit
<1>6. k \in 0..(m - 1) /\ l \in 0..(m - 1)
  BY <1>3, ModLe, Zenon
<1>7. a = q * m + j
  BY <1>1
<1> HIDE DEF j, k, l
<1>8. 10 * a = (10 * q) * m + 10 * j
  BY <1>2, <1>7
<1>9. (10 * q + p) * m + k = t * m + l /\ 10 * q + p \in Nat
  BY <1>2, <1>4, <1>5, <1>6, <1>8
<1>10. k = l
  BY <1>6, <1>9, ModUnique
<1> QED BY <1>10 DEF j, k, l, TenFold

\* Two sums can be.
LEMMA ModBoth ==
  ASSUME NEW a \in Nat, NEW b \in Nat, NEW m \in Nat \ {0}
  PROVE  ((a % m) + (b % m)) % m = (a + b) % m
<1>1. a % m \in Nat /\ b % m \in Nat
  BY ModLe
<1>2. ((a % m) + (b % m)) % m = (a + (b % m)) % m
  BY <1>1, ModAdd, Zenon
<1>3. a + (b % m) = (b % m) + a /\ a + b = b + a
  BY <1>1
<1>4. ((b % m) + a) % m = (b + a) % m
  BY ModAdd, Zenon
<1> QED BY <1>2, <1>3, <1>4, Zenon

-----------------------------------------------------------------------------
(* Powers of ten.                                                          *)

\* The powers of ten.
PowStep(g, n) == IF n = 0 THEN 1 ELSE 10 * g[n - 1]
IsPow(g) == g = [n \in Nat |-> PowStep(g, n)]
IsPowTo(m, g) == g = [n \in 0..m |-> PowStep(g, n)]

\* Powers of ten up to m exist,
LEMMA PowTo == ASSUME NEW m \in Nat PROVE \E g : IsPowTo(m, g)
<1> DEFINE Bad == {n \in Nat : ~\E g : IsPowTo(n, g)}
<1>1. ASSUME NEW n \in Bad, \A k \in Bad : n <= k PROVE FALSE
  <2>1. CASE n = 0
    <3> DEFINE g == [k \in 0..0 |-> 1]
    <3>1. g = [k \in 0..0 |-> PowStep(g, k)]
      BY DEF PowStep
    <3> QED BY <2>1, <3>1 DEF IsPowTo
  <2>2. CASE n # 0
    <3>1. n \in Nat /\ n - 1 \in Nat /\ ~(n <= n - 1)
      BY <2>2
    <3>2. n - 1 \notin Bad
      <4> HIDE DEF Bad
      <4> QED BY <1>1, <3>1
    <3>3. PICK g : IsPowTo(n - 1, g)
      BY <3>1, <3>2
    <3> DEFINE h == [k \in 0..n |-> PowStep(g, k)]
    <3>4. ASSUME NEW k \in 0..n PROVE PowStep(h, k) = PowStep(g, k)
      <4>1. CASE k = 0
        BY <4>1 DEF PowStep
      <4>2. CASE k # 0
        <5>1. k - 1 \in 0..(n - 1) /\ k - 1 \in 0..n
          BY <3>1, <4>2
        <5>2. h[k - 1] = PowStep(g, k - 1) /\ g[k - 1] = PowStep(g, k - 1)
          BY <3>3, <5>1 DEF IsPowTo
        <5> QED BY <4>2, <5>2 DEF PowStep
      <4> QED BY <4>1, <4>2
    <3>5. IsPowTo(n, h)
      BY <3>4, Zenon DEF IsPowTo
    <3> QED BY <3>5
  <2> QED BY <2>1, <2>2
<1>2. Bad = {}
  BY <1>1, Least
<1> QED BY <1>2

\* do not depend on m,
LEMMA PowSame ==
  ASSUME NEW m \in Nat, NEW g, IsPowTo(m, g), NEW h, IsPowTo(m + 1, h)
  PROVE  g[m] = h[m]
<1> DEFINE Bad == {n \in Nat : n <= m /\ g[n] # h[n]}
<1>0. \A n \in 0..m : g[n] = PowStep(g, n) /\ h[n] = PowStep(h, n)
  BY DEF IsPowTo
<1>1. ASSUME NEW n \in Bad, \A k \in Bad : n <= k PROVE FALSE
  <2>1. g[n] = PowStep(g, n) /\ h[n] = PowStep(h, n)
    BY <1>0
  <2>2. n # 0
    BY <2>1 DEF PowStep
  <2>3. n - 1 \in Nat /\ n - 1 <= m /\ ~(n <= n - 1)
    BY <2>2
  <2>4. n - 1 \notin Bad
    <3> HIDE DEF Bad
    <3> QED BY <1>1, <2>3
  <2> QED BY <2>1, <2>2, <2>3, <2>4 DEF PowStep
<1>2. Bad = {}
  BY <1>1, Least
<1> QED BY <1>2

\* and so all of them exist:
LEMMA PowExists == \E g : IsPow(g)
<1> DEFINE P(m) == CHOOSE g : IsPowTo(m, g)
           h == [m \in Nat |-> P(m)[m]]
<1>1. ASSUME NEW m \in Nat PROVE IsPowTo(m, P(m))
  BY PowTo, Zenon
<1>2. ASSUME NEW m \in Nat PROVE h[m] = PowStep(h, m)
  <2> HIDE DEF P
  <2>1. P(m)[m] = PowStep(P(m), m)
    BY <1>1 DEF IsPowTo
  <2>2. CASE m = 0
    BY <2>1, <2>2 DEF PowStep
  <2>3. CASE m # 0
    <3>1. m - 1 \in Nat /\ (m - 1) + 1 = m
      BY <2>3
    <3>2. IsPowTo(m - 1, P(m - 1)) /\ IsPowTo((m - 1) + 1, P(m))
      BY <1>1, <3>1
    <3>3. P(m - 1)[m - 1] = P(m)[m - 1]
      BY <3>1, <3>2, PowSame
    <3>4. h[m] = P(m)[m] /\ h[m - 1] = P(m - 1)[m - 1]
      BY <3>1
    <3> QED BY <2>1, <2>3, <3>3, <3>4 DEF PowStep
  <2> QED BY <2>2, <2>3
<1>3. h = [m \in Nat |-> h[m]]
  OBVIOUS
<1> HIDE DEF h
<1>4. h = [m \in Nat |-> PowStep(h, m)]
  BY <1>2, <1>3
<1> QED BY <1>4 DEF IsPow

\* Pow10 of SimAcc is what its equation says.
LEMMA Pow ==
  /\ Pow10[0] = 1
  /\ \A n \in Nat : Pow10[n + 1] = 10 * Pow10[n] /\ Pow10[n] \in Nat \ {0}
<1>1. IsPow(Pow10)
  <2>1. Pow10 = CHOOSE g : IsPow(g)
    BY Zenon DEF Pow10, IsPow, PowStep
  <2> QED BY <2>1, PowExists, Zenon
<1>2. \A n \in Nat : Pow10[n] = PowStep(Pow10, n)
  BY <1>1, Zenon DEF IsPow
<1>3. Pow10[0] = 1
  BY <1>2 DEF PowStep
<1>4. ASSUME NEW n \in Nat PROVE Pow10[n + 1] = 10 * Pow10[n]
  <2>1. n + 1 \in Nat /\ n + 1 # 0 /\ (n + 1) - 1 = n
    OBVIOUS
  <2> QED BY <1>2, <2>1 DEF PowStep
<1> DEFINE Bad == {n \in Nat : Pow10[n] \notin Nat \ {0}}
<1>5. ASSUME NEW n \in Bad, \A k \in Bad : n <= k PROVE FALSE
  <2>1. n # 0
    BY <1>3
  <2>2. n - 1 \in Nat /\ ~(n <= n - 1) /\ (n - 1) + 1 = n
    BY <2>1
  <2>3. n - 1 \notin Bad
    <3> HIDE DEF Bad
    <3> QED BY <1>5, <2>2
  <2>4. Pow10[n - 1] \in Nat \ {0} /\ Pow10[n] = 10 * Pow10[n - 1]
    BY <1>4, <2>2, <2>3
  <2> QED BY <2>4
<1>6. Bad = {}
  BY <1>5, Least, Zenon
<1> QED BY <1>3, <1>4, <1>6

\* More digits, a larger power.
LEMMA PowGrows ==
  ASSUME NEW k \in Nat, NEW m \in Nat, k <= m
  PROVE  Pow10[k] <= Pow10[m]
<1> DEFINE Bad == {n \in Nat : k <= n /\ ~(Pow10[k] <= Pow10[n])}
<1>1. ASSUME NEW n \in Bad, \A j \in Bad : n <= j PROVE FALSE
  <2>1. n # k
    BY Pow
  <2>2. n - 1 \in Nat /\ k <= n - 1 /\ ~(n <= n - 1) /\ (n - 1) + 1 = n
    BY <2>1
  <2>3. n - 1 \notin Bad
    <3> HIDE DEF Bad
    <3> QED BY <1>1, <2>2
  <2>4. /\ Pow10[k] <= Pow10[n - 1] /\ Pow10[n] = 10 * Pow10[n - 1]
        /\ Pow10[n - 1] \in Nat /\ Pow10[k] \in Nat
    BY <2>2, <2>3, Pow
  <2> QED BY <2>4
<1>2. Bad = {}
  BY <1>1, Least
<1> QED BY <1>2

-----------------------------------------------------------------------------
(* The types, and the length of the result.                                *)

\* Copies stay in the buffer, and n digits read make numbers below 10^n.
AccInv ==
  /\ TypeOK
  /\ text \in [Writer -> Seq(Char)] /\ single \in [Writer -> BOOLEAN]
  /\ DOMAIN behind = Writer
  /\ \A w \in Writer : wpc[w] = "copy" => done[w] <= CopyLen(text[w])
  /\ \A w \in Writer : wpc[w] = "loop" =>
       digits[w] <= done[w] /\ sum[w] + num[w] < Pow10[digits[w]]

\* The sizes of input_buf and result, and the modulus of unsigned long.
LEMMA AccSizes ==
  /\ MAX_INPUT_SIZE \in Nat \ {0} /\ RESULT_SIZE \in Nat \ {0} /\ ULong \in Nat \ {0}
  /\ MaxWrites \in Nat
BY SimAccAssumption

\* Texts consist of characters.
LEMMA TextType == \A t \in Text : t \in Seq(Char)
BY SimAccAssumption

\* copy_from_user copies what fits.
LEMMA Copied ==
  ASSUME NEW t \in Seq(Char)
  PROVE  /\ Len(t) \in Nat /\ CopyLen(t) \in 0..MAX_INPUT_SIZE /\ CopyLen(t) <= Len(t)
         /\ Len(t) < MAX_INPUT_SIZE => CopyLen(t) = Len(t)
<1> USE AccSizes
<1>1. Len(t) \in Nat
  OBVIOUS
<1> DEFINE A == {Len(t), MAX_INPUT_SIZE}
<1>2. \E x \in A : \A y \in A : x <= y
  <2>1. CASE Len(t) <= MAX_INPUT_SIZE
    BY <1>1, <2>1
  <2>2. CASE ~(Len(t) <= MAX_INPUT_SIZE)
    BY <1>1, <2>2
  <2> QED BY <2>1, <2>2
<1>3. CopyLen(t) = CHOOSE x \in A : \A y \in A : x <= y
  BY DEF CopyLen, Min
<1>4. CopyLen(t) \in A /\ \A y \in A : CopyLen(t) <= y
  BY <1>2, <1>3
<1> QED BY <1>1, <1>4

\* init_simacc.
LEMMA AccInit == Init => AccInv
<1> SUFFICES ASSUME Init PROVE AccInv
  OBVIOUS
<1> USE AccSizes
<1>1. <<>> \in Seq(Char)
  OBVIOUS
<1>2. TypeOK
  BY DEF Init, TypeOK, Char, Semi, Nul
<1> QED BY <1>1, <1>2 DEF Init, AccInv

\* A write begins.
LEMMA AccBegins ==
  ASSUME AccInv, NEW w \in Writer, NEW t \in Text, simacc_write(w, t)
  PROVE  AccInv'
<1> USE AccSizes
<1>1. t \in Seq(Char)
  BY TextType
<1>2. CopyLen(t) \in 0..MAX_INPUT_SIZE
  BY <1>1, Copied
<1>3. TypeOK'
  <2>1. /\ wpc' = [wpc EXCEPT ![w] = "copy"] /\ done' = [done EXCEPT ![w] = 0]
        /\ begun < MaxWrites /\ begun' = begun + 1
        /\ UNCHANGED <<input_buf, result, num, sum, digits, printed>>
    BY DEF simacc_write, locals
  <2>2. TypeOK
    BY DEF AccInv
  <2>3. wpc' \in [Writer -> {"idle", "copy", "loop"}] /\ done' \in [Writer -> 0..MAX_INPUT_SIZE]
    BY <2>1, <2>2 DEF TypeOK
  <2>4. begun' \in 0..MaxWrites
    BY <2>1, <2>2 DEF TypeOK
  <2> QED BY <2>1, <2>2, <2>3, <2>4, Zenon DEF TypeOK
<1>4. text' \in [Writer -> Seq(Char)] /\ single' \in [Writer -> BOOLEAN] /\ DOMAIN behind' = Writer
  BY <1>1 DEF AccInv, simacc_write
<1>5. ASSUME NEW v \in Writer, wpc'[v] = "copy" PROVE done'[v] <= CopyLen(text'[v])
  <2>1. CASE v = w
    BY <1>2, <2>1 DEF AccInv, simacc_write, TypeOK
  <2>2. CASE v # w
    BY <1>5, <2>2 DEF AccInv, simacc_write, TypeOK
  <2> QED BY <2>1, <2>2
<1>6. \A v \in Writer : wpc'[v] = "loop" =>
        digits'[v] <= done'[v] /\ sum'[v] + num'[v] < Pow10[digits'[v]]
  BY DEF AccInv, simacc_write, TypeOK, locals
<1> QED BY <1>3, <1>4, <1>5, <1>6 DEF AccInv, CopyLen

\* A byte is copied.
LEMMA AccCopies ==
  ASSUME AccInv, NEW w \in Writer, simacc_write_copy(w)
  PROVE  AccInv'
<1> USE AccSizes
<1>1. text[w] \in Seq(Char) /\ done[w] \in 0..MAX_INPUT_SIZE
  BY DEF AccInv, TypeOK
<1>2. /\ Len(text[w]) \in Nat /\ CopyLen(text[w]) \in 0..MAX_INPUT_SIZE
      /\ CopyLen(text[w]) <= Len(text[w])
  BY <1>1, Copied
<1>3. done[w] < CopyLen(text[w])
  BY DEF simacc_write_copy
<1>4. done[w] + 1 \in 1..Len(text[w]) /\ done[w] + 1 \in 0..MAX_INPUT_SIZE
  BY <1>1, <1>2, <1>3
<1>5. text[w][done[w] + 1] \in Char
  BY <1>1, <1>4
<1>6. TypeOK'
  BY <1>4, <1>5 DEF AccInv, simacc_write_copy, TypeOK, locals
<1>7. ASSUME NEW v \in Writer, wpc'[v] = "copy" PROVE done'[v] <= CopyLen(text'[v])
  <2>1. CASE v = w
    BY <1>1, <1>2, <1>3, <2>1 DEF AccInv, simacc_write_copy, TypeOK
  <2>2. CASE v # w
    BY <1>7, <2>2 DEF AccInv, simacc_write_copy, TypeOK
  <2> QED BY <2>1, <2>2
<1>8. \A v \in Writer : wpc'[v] = "loop" =>
        digits'[v] <= done'[v] /\ sum'[v] + num'[v] < Pow10[digits'[v]]
  BY DEF AccInv, simacc_write_copy, TypeOK, locals
<1> QED BY <1>6, <1>7, <1>8 DEF AccInv, CopyLen, simacc_write_copy

\* The copy faults.
LEMMA AccFaults ==
  ASSUME AccInv, NEW w \in Writer, simacc_write_fault(w)
  PROVE  AccInv'
<1> USE AccSizes
<1>1. TypeOK'
  <2>1. Nul \in Char
    BY DEF Char, Nul
  <2>2. input_buf' \in [0..(MAX_INPUT_SIZE - 1) -> Char]
    BY <2>1 DEF AccInv, simacc_write_fault, TypeOK
  <2> QED BY <2>2 DEF AccInv, simacc_write_fault, TypeOK, locals
<1>2. \A v \in Writer : wpc'[v] # "idle" => wpc'[v] = wpc[v]
  BY DEF AccInv, simacc_write_fault, TypeOK
<1> QED BY <1>1, <1>2 DEF AccInv, CopyLen, simacc_write_fault, locals

\* The end mark is set and the locals are cleared.
LEMMA AccMarks ==
  ASSUME AccInv, NEW w \in Writer, simacc_write_mark(w)
  PROVE  AccInv'
<1> USE AccSizes
<1>1. TypeOK'
  <2>1. Semi \in Char
    BY DEF Char, Semi
  <2>2. input_buf' \in [0..(MAX_INPUT_SIZE - 1) -> Char]
    BY <2>1 DEF AccInv, simacc_write_mark, TypeOK
  <2>3. /\ done' = [done EXCEPT ![w] = 0] /\ digits' = [digits EXCEPT ![w] = 0]
        /\ num' = [num EXCEPT ![w] = 0] /\ sum' = [sum EXCEPT ![w] = 0]
        /\ wpc' = [wpc EXCEPT ![w] = "loop"] /\ UNCHANGED <<result, printed, begun>>
    BY DEF simacc_write_mark
  <2>4. TypeOK /\ 0 \in 0..MAX_INPUT_SIZE /\ 0 \in 0..(ULong - 1)
    BY DEF AccInv
  <2>5. done' \in [Writer -> 0..MAX_INPUT_SIZE] /\ digits' \in [Writer -> 0..MAX_INPUT_SIZE]
    BY <2>3, <2>4, Zenon DEF TypeOK
  <2>6. num' \in [Writer -> 0..(ULong - 1)] /\ sum' \in [Writer -> 0..(ULong - 1)]
    BY <2>3, <2>4, Zenon DEF TypeOK
  <2>7. wpc' \in [Writer -> {"idle", "copy", "loop"}]
    BY <2>3, <2>4 DEF TypeOK
  <2> QED BY <2>2, <2>3, <2>4, <2>5, <2>6, <2>7, Zenon DEF TypeOK
<1>2. ASSUME NEW v \in Writer, wpc'[v] = "copy" PROVE done'[v] <= CopyLen(text'[v])
  BY <1>2 DEF AccInv, simacc_write_mark, TypeOK
<1>3. ASSUME NEW v \in Writer, wpc'[v] = "loop"
      PROVE  digits'[v] <= done'[v] /\ sum'[v] + num'[v] < Pow10[digits'[v]]
  <2>1. CASE v = w
    <3>1. digits'[w] = 0 /\ done'[w] = 0 /\ sum'[w] = 0 /\ num'[w] = 0
      BY DEF AccInv, simacc_write_mark, TypeOK
    <3> QED BY <2>1, <3>1, Pow
  <2>2. CASE v # w
    BY <1>3, <2>2 DEF AccInv, simacc_write_mark, TypeOK
  <2> QED BY <2>1, <2>2
<1> QED BY <1>1, <1>2, <1>3 DEF AccInv, CopyLen, simacc_write_mark

\* One turn of the loop: a digit more, or a number more in the sum.
LEMMA AccLoops ==
  ASSUME AccInv, NEW w \in Writer, simacc_write_loop(w)
  PROVE  AccInv'
<1> USE AccSizes
<1> DEFINE c == input_buf[done[w]]
           P == Pow10[digits[w]]
<1>1. /\ done[w] \in 0..MAX_INPUT_SIZE /\ done[w] < MAX_INPUT_SIZE /\ wpc[w] = "loop"
      /\ digits[w] \in Nat /\ digits[w] <= done[w]
      /\ num[w] \in Nat /\ sum[w] \in Nat /\ sum[w] + num[w] < P
      /\ done' = [done EXCEPT ![w] = done[w] + 1]
      /\ UNCHANGED <<input_buf, result, wpc, text, single, behind, printed, begun>>
  BY DEF AccInv, simacc_write_loop, TypeOK
<1>2. c \in Char
  BY <1>1 DEF AccInv, TypeOK
<1>3. P \in Nat /\ Pow10[digits[w] + 1] = 10 * P
  BY <1>1, Pow
<1> DEFINE Good == /\ num' \in [Writer -> 0..(ULong - 1)] /\ sum' \in [Writer -> 0..(ULong - 1)]
                   /\ digits' \in [Writer -> 0..MAX_INPUT_SIZE]
                   /\ \A v \in Writer \ {w} : num'[v] = num[v] /\ sum'[v] = sum[v]
                                             /\ digits'[v] = digits[v]
                   /\ digits'[w] <= done[w] + 1
                   /\ sum'[w] + num'[w] < Pow10[digits'[w]]
<1>4. ASSUME c \in Digit PROVE Good
  <2>1. /\ num' = [num EXCEPT ![w] = (num[w] * 10 + c) % ULong]
        /\ digits' = [digits EXCEPT ![w] = digits[w] + 1] /\ sum' = sum
    BY <1>4 DEF simacc_write_loop
  <2>2. c \in Nat /\ c <= 9
    BY <1>4 DEF Digit
  <2> DEFINE x == (num[w] * 10 + c) % ULong
  <2>3. x \in 0..(ULong - 1) /\ x <= num[w] * 10 + c
    <3>1. num[w] * 10 + c \in Nat
      BY <1>1, <2>2
    <3> QED BY <3>1, ModLe, Zenon
  <2>4. digits[w] + 1 \in 0..MAX_INPUT_SIZE /\ digits[w] + 1 <= done[w] + 1
    BY <1>1
  <2>5. num'[w] = x /\ digits'[w] = digits[w] + 1 /\ sum'[w] = sum[w]
    BY <2>1 DEF AccInv, TypeOK
  <2> HIDE DEF x, c, P
  <2>6. sum[w] + x < 10 * P
    BY <1>1, <1>3, <2>2, <2>3
  <2>7. num' = [num EXCEPT ![w] = x]
    BY <2>1 DEF x, c
  <2> QED BY <1>3, <2>1, <2>3, <2>4, <2>5, <2>6, <2>7 DEF AccInv, TypeOK
<1>5. ASSUME c \notin Digit PROVE Good
  <2>1. /\ sum' = [sum EXCEPT ![w] = (sum[w] + num[w]) % ULong]
        /\ num' = [num EXCEPT ![w] = 0] /\ digits' = digits
    BY <1>5 DEF simacc_write_loop
  <2> DEFINE x == (sum[w] + num[w]) % ULong
  <2>2. x \in 0..(ULong - 1) /\ x <= sum[w] + num[w]
    <3>1. sum[w] + num[w] \in Nat
      BY <1>1
    <3> QED BY <3>1, ModLe, Zenon
  <2>3. num'[w] = 0 /\ digits'[w] = digits[w] /\ sum'[w] = x
    BY <2>1 DEF AccInv, TypeOK
  <2>4. sum' = [sum EXCEPT ![w] = x]
    BY <2>1
  <2> HIDE DEF x, c, P
  <2>5. x + 0 < P
    BY <1>1, <1>3, <2>2
  <2>6. sum'[w] + num'[w] < Pow10[digits'[w]] /\ digits'[w] <= done[w] + 1
    BY <1>1, <2>3, <2>5 DEF P
  <2>7. 0 \in 0..(ULong - 1)
    OBVIOUS
  <2> QED BY <2>1, <2>2, <2>4, <2>6, <2>7 DEF AccInv, TypeOK
<1>6. Good
  BY <1>4, <1>5
<1> HIDE DEF Good, c, P
<1>7. TypeOK'
  <2>0. done[w] \in 0..MAX_INPUT_SIZE /\ done[w] < MAX_INPUT_SIZE
    BY <1>1, Zenon
  <2>1. done[w] + 1 \in 0..MAX_INPUT_SIZE
    BY <2>0
  <2>2. done' \in [Writer -> 0..MAX_INPUT_SIZE]
    BY <1>1, <2>1 DEF AccInv, TypeOK
  <2>3. /\ num' \in [Writer -> 0..(ULong - 1)] /\ sum' \in [Writer -> 0..(ULong - 1)]
        /\ digits' \in [Writer -> 0..MAX_INPUT_SIZE]
    BY <1>6 DEF Good
  <2> QED BY <1>1, <2>2, <2>3 DEF AccInv, TypeOK
<1>8. done'[w] = done[w] + 1 /\ \A v \in Writer \ {w} : done'[v] = done[v]
  BY <1>1 DEF AccInv, TypeOK
<1>9. \A v \in Writer : wpc'[v] = "copy" => done'[v] <= CopyLen(text'[v])
  BY <1>1, <1>8 DEF AccInv
<1>10. \A v \in Writer : wpc'[v] = "loop" =>
         digits'[v] <= done'[v] /\ sum'[v] + num'[v] < Pow10[digits'[v]]
  BY <1>1, <1>6, <1>8, Zenon DEF AccInv, Good
<1> QED BY <1>1, <1>7, <1>9, <1>10 DEF AccInv, CopyLen

\* The result is printed.
LEMMA AccPrints ==
  ASSUME AccInv, NEW w \in Writer, simacc_write_print(w)
  PROVE  AccInv'
<1> USE AccSizes
<1>1. TypeOK'
  BY DEF AccInv, simacc_write_print, TypeOK, locals, Mixed
<1>2. \A v \in Writer : wpc'[v] # "idle" => wpc'[v] = wpc[v]
  BY DEF AccInv, simacc_write_print, TypeOK
<1> QED BY <1>1, <1>2 DEF AccInv, CopyLen, simacc_write_print, locals

\* Every step keeps the invariant.
LEMMA AccStep == AccInv /\ [Next]_vars => AccInv'
<1> SUFFICES ASSUME AccInv, [Next]_vars PROVE AccInv'
  OBVIOUS
<1>1. CASE Next
  BY <1>1, AccBegins, AccCopies, AccFaults, AccMarks, AccLoops, AccPrints DEF Next
<1>2. CASE UNCHANGED vars
  BY <1>2 DEF vars, AccInv, TypeOK, CopyLen
<1> QED BY <1>1, <1>2

\* With fewer than RESULT_SIZE digits read, the sum is short enough.
LEMMA AccFits == AccInv => ResultFits
<1> SUFFICES ASSUME AccInv, NEW w \in Writer, wpc[w] = "loop", digits[w] < RESULT_SIZE
             PROVE  sum[w] < Pow10[RESULT_SIZE - 1]
  BY DEF ResultFits, ResultFits
<1> USE AccSizes
<1>1. digits[w] \in Nat /\ RESULT_SIZE - 1 \in Nat /\ digits[w] <= RESULT_SIZE - 1
  BY DEF AccInv, TypeOK
<1>2. Pow10[digits[w]] <= Pow10[RESULT_SIZE - 1]
  BY <1>1, PowGrows
<1>3. Pow10[digits[w]] \in Nat /\ Pow10[RESULT_SIZE - 1] \in Nat
  BY <1>1, Pow
<1>4. sum[w] + num[w] < Pow10[digits[w]] /\ sum[w] \in Nat /\ num[w] \in Nat
  BY DEF AccInv, TypeOK
<1> QED BY <1>2, <1>3, <1>4

-----------------------------------------------------------------------------
(* What the characters read amount to.                                     *)

\* What the first n characters of t amount to: the digits that directly follow the one
\* at k, its weight, the digits of the numbers that are over and of the one that is not.
FollowTo(t, n, k) == {j \in (k + 1)..n : \A m \in (k + 1)..j : t[m] \in Digit}
WeightTo(t, n) == [k \in 1..n |-> t[k] * Pow10[Cardinality(FollowTo(t, n, k))]]
Closed(t, n) == {k \in 1..n : t[k] \in Digit /\ \E j \in k..n : t[j] \notin Digit}
Open(t, n) == {k \in 1..n : t[k] \in Digit /\ \A j \in k..n : t[j] \in Digit}
Tot(t, n) == Sum(WeightTo(t, n), Closed(t, n))
Num(t, n) == Sum(WeightTo(t, n), Open(t, n))

\* The sets of positions above are finite.
LEMMA Finite ==
  ASSUME NEW n \in Nat, NEW t
  PROVE  /\ IsFiniteSet(Closed(t, n)) /\ IsFiniteSet(Open(t, n))
         /\ \A k \in Nat : IsFiniteSet(FollowTo(t, n, k)) /\ Cardinality(FollowTo(t, n, k)) \in Nat
<1>1. IsFiniteSet(1..n)
  BY FS_Interval
<1>2. Closed(t, n) \subseteq 1..n /\ Open(t, n) \subseteq 1..n
  BY DEF Closed, Open
<1>3. ASSUME NEW k \in Nat PROVE FollowTo(t, n, k) \subseteq 1..n
  BY DEF FollowTo
<1>4. \A A \in SUBSET (1..n) : IsFiniteSet(A) /\ Cardinality(A) \in Nat
  BY <1>1, FS_Subset, FS_CardinalityType, Zenon
<1> QED BY <1>2, <1>3, <1>4

\* Weights are natural numbers,
LEMMA Weights ==
  ASSUME NEW n \in Nat, NEW t, NEW k \in 1..n, t[k] \in Digit
  PROVE  WeightTo(t, n)[k] \in Nat
<1>1. t[k] \in Nat /\ k \in Nat
  BY DEF Digit
<1>2. Pow10[Cardinality(FollowTo(t, n, k))] \in Nat
  BY <1>1, Finite, Pow
<1>3. WeightTo(t, n)[k] = t[k] * Pow10[Cardinality(FollowTo(t, n, k))]
  BY DEF WeightTo
<1> QED BY <1>1, <1>2, <1>3

\* and so are their sums.
LEMMA TotNat ==
  ASSUME NEW n \in Nat, NEW t
  PROVE  Tot(t, n) \in Nat /\ Num(t, n) \in Nat
<1>1. \A k \in Closed(t, n) \cup Open(t, n) : WeightTo(t, n)[k] \in Nat
  BY Weights DEF Closed, Open
<1> QED BY <1>1, Finite, SumNat DEF Tot, Num

\* Nothing read yet.
LEMMA TotNone == ASSUME NEW t PROVE Tot(t, 0) = 0 /\ Num(t, 0) = 0
<1>1. Closed(t, 0) = {} /\ Open(t, 0) = {}
  BY DEF Closed, Open
<1> QED BY <1>1, SumEmpty DEF Tot, Num

\* Only what has been read counts.
LEMMA TotSame ==
  ASSUME NEW n \in Nat, NEW t, NEW u, \A k \in 1..n : t[k] = u[k]
  PROVE  Tot(t, n) = Tot(u, n) /\ Num(t, n) = Num(u, n)
<1>1. Closed(t, n) = Closed(u, n) /\ Open(t, n) = Open(u, n)
  BY DEF Closed, Open
<1>2. ASSUME NEW k \in 1..n PROVE FollowTo(t, n, k) = FollowTo(u, n, k)
  BY DEF FollowTo
<1>3. \A k \in 1..n : WeightTo(t, n)[k] = WeightTo(u, n)[k]
  BY <1>2 DEF WeightTo
<1>4. WeightTo(t, n) = WeightTo(u, n)
  BY <1>3 DEF WeightTo
<1> QED BY <1>1, <1>4 DEF Tot, Num

\* The weight of a digit whose number is over stays.
LEMMA FollowStays ==
  ASSUME NEW n \in Nat, NEW t, NEW k \in 1..n, \E j \in k..(n + 1) : t[j] \notin Digit,
         t[k] \in Digit
  PROVE  WeightTo(t, n + 1)[k] = WeightTo(t, n)[k]
<1>1. PICK j \in k..(n + 1) : t[j] \notin Digit
  OBVIOUS
<1>2. j \in (k + 1)..(n + 1)
  BY <1>1
<1>3. n + 1 \notin FollowTo(t, n + 1, k)
  BY <1>1, <1>2 DEF FollowTo
<1>4. FollowTo(t, n + 1, k) = FollowTo(t, n, k)
  BY <1>3 DEF FollowTo
<1>5. k \in 1..(n + 1)
  OBVIOUS
<1> QED BY <1>4, <1>5 DEF WeightTo

\* A digit is read.
LEMMA TotDigit ==
  ASSUME NEW n \in Nat, NEW t, t[n + 1] \in Digit
  PROVE  Tot(t, n + 1) = Tot(t, n) /\ Num(t, n + 1) = 10 * Num(t, n) + t[n + 1]
<1> DEFINE f == WeightTo(t, n)
           h == WeightTo(t, n + 1)
<1>1. Closed(t, n + 1) = Closed(t, n)
  BY DEF Closed
<1>2. Open(t, n + 1) = Open(t, n) \cup {n + 1}
  <2>1. ASSUME NEW k \in Open(t, n) PROVE k \in Open(t, n + 1)
    <3>1. \A j \in k..(n + 1) : j \in k..n \/ j = n + 1
      BY DEF Open
    <3> QED BY <3>1 DEF Open
  <2>2. n + 1 \in Open(t, n + 1)
    BY DEF Open
  <2>3. ASSUME NEW k \in Open(t, n + 1) PROVE k \in Open(t, n) \cup {n + 1}
    BY DEF Open
  <2> QED BY <2>1, <2>2, <2>3
<1>3. Tot(t, n + 1) = Tot(t, n)
  <2>1. \A k \in Closed(t, n) : h[k] = f[k]
    <3>1. ASSUME NEW k \in Closed(t, n)
          PROVE  k \in 1..n /\ (\E j \in k..(n + 1) : t[j] \notin Digit) /\ t[k] \in Digit
      BY DEF Closed
    <3> QED BY <3>1, FollowStays
  <2>2. IsFiniteSet(Closed(t, n))
    BY Finite
  <2> HIDE DEF f, h
  <2>3. Sum(h, Closed(t, n)) = Sum(f, Closed(t, n))
    BY <2>1, <2>2, SumAgree, Zenon
  <2> QED BY <1>1, <2>3 DEF Tot, f, h
<1>4. ASSUME NEW k \in Open(t, n) PROVE h[k] = 10 * f[k] /\ f[k] \in Nat /\ h[k] \in Nat
  <2>1. k \in 1..n /\ k \in 1..(n + 1) /\ t[k] \in Digit /\ k \in Nat
    BY DEF Open
  <2>2. FollowTo(t, n + 1, k) = FollowTo(t, n, k) \cup {n + 1}
    <3>1. \A j \in (k + 1)..(n + 1) : t[j] \in Digit
      <4>1. \A j \in (k + 1)..(n + 1) : j \in k..n \/ j = n + 1
        BY <2>1
      <4> QED BY <4>1 DEF Open
    <3>2. FollowTo(t, n + 1, k) = (k + 1)..(n + 1)
      BY <2>1, <3>1 DEF FollowTo
    <3>3. FollowTo(t, n, k) = (k + 1)..n
      BY <2>1, <3>1 DEF FollowTo
    <3> QED BY <2>1, <3>2, <3>3
  <2>3. n + 1 \notin FollowTo(t, n, k)
    BY DEF FollowTo
  <2>4. Cardinality(FollowTo(t, n + 1, k)) = Cardinality(FollowTo(t, n, k)) + 1
    BY <2>1, <2>2, <2>3, Finite, FS_AddElement
  <2>5. t[k] \in Nat /\ Cardinality(FollowTo(t, n, k)) \in Nat
    BY <2>1, Finite DEF Digit
  <2> DEFINE p == Pow10[Cardinality(FollowTo(t, n, k))]
  <2>6. Pow10[Cardinality(FollowTo(t, n + 1, k))] = 10 * p /\ p \in Nat
    BY <2>4, <2>5, Pow
  <2>7. f[k] = t[k] * p /\ h[k] = t[k] * (10 * p)
    BY <2>1, <2>6 DEF WeightTo
  <2> HIDE DEF f, h, p
  <2> QED BY <2>5, <2>6, <2>7
<1>5. h[n + 1] = t[n + 1] /\ t[n + 1] \in Nat
  <2>1. FollowTo(t, n + 1, n + 1) = {}
    BY DEF FollowTo
  <2>2. t[n + 1] \in Nat /\ n + 1 \in 1..(n + 1)
    BY DEF Digit
  <2>3. h[n + 1] = t[n + 1] * Pow10[0]
    BY <2>1, <2>2, FS_EmptySet DEF WeightTo
  <2> QED BY <2>2, <2>3, Pow
<1>6. IsFiniteSet(Open(t, n)) /\ n + 1 \notin Open(t, n)
  BY Finite DEF Open
<1> HIDE DEF f, h
<1>7. Sum(h, Open(t, n)) = 10 * Sum(f, Open(t, n))
  BY <1>4, <1>6, SumTimes
<1>8. Sum(h, Open(t, n) \cup {n + 1}) = Sum(h, Open(t, n)) + h[n + 1]
  <2>1. \A k \in Open(t, n) \cup {n + 1} : h[k] \in Nat
    BY <1>4, <1>5
  <2> QED BY <1>6, <2>1, SumAdd, Zenon
<1> QED BY <1>2, <1>3, <1>5, <1>7, <1>8 DEF Num, f, h

\* Anything else is read: the number is over.
LEMMA TotOther ==
  ASSUME NEW n \in Nat, NEW t, t[n + 1] \notin Digit
  PROVE  Tot(t, n + 1) = Tot(t, n) + Num(t, n) /\ Num(t, n + 1) = 0
<1> DEFINE f == WeightTo(t, n)
           h == WeightTo(t, n + 1)
<1>1. Closed(t, n + 1) = Closed(t, n) \cup Open(t, n)
  <2>1. n + 1 \in Nat /\ \A k \in 1..n : n + 1 \in k..(n + 1)
    OBVIOUS
  <2>2. ASSUME NEW k \in Closed(t, n + 1) PROVE k \in Closed(t, n) \cup Open(t, n)
    BY DEF Closed, Open
  <2>3. ASSUME NEW k \in Closed(t, n) \cup Open(t, n) PROVE k \in Closed(t, n + 1)
    BY <2>1 DEF Closed, Open
  <2> QED BY <2>2, <2>3
<1>2. Open(t, n + 1) = {} /\ Closed(t, n) \cap Open(t, n) = {}
  BY DEF Open, Closed
<1>3. ASSUME NEW k \in Closed(t, n) \cup Open(t, n) PROVE h[k] = f[k] /\ f[k] \in Nat
  <2>1. k \in 1..n /\ t[k] \in Digit /\ \E j \in k..(n + 1) : t[j] \notin Digit
    <3>1. k \in 1..n /\ t[k] \in Digit
      BY DEF Closed, Open
    <3>2. n + 1 \in k..(n + 1)
      BY <3>1
    <3> QED BY <3>1, <3>2
  <2> QED BY <2>1, FollowStays, Weights
<1>4. IsFiniteSet(Closed(t, n)) /\ IsFiniteSet(Open(t, n))
  BY Finite
<1> HIDE DEF f, h
<1>5. Sum(f, Closed(t, n) \cup Open(t, n)) = Sum(f, Closed(t, n)) + Sum(f, Open(t, n))
  BY <1>2, <1>3, <1>4, SumUnion
<1>6. Sum(h, Closed(t, n) \cup Open(t, n)) = Sum(f, Closed(t, n) \cup Open(t, n))
  <2>1. IsFiniteSet(Closed(t, n) \cup Open(t, n))
    BY <1>4, FS_Union, Zenon
  <2> QED BY <1>3, <2>1, SumAgree, Zenon
<1>7. Num(t, n + 1) = 0
  BY <1>2, SumEmpty DEF Num
<1> QED BY <1>1, <1>5, <1>6, <1>7 DEF Tot, Num, f, h

\* SimAcc's Total is what the whole text amounts to.
LEMMA TotalIs ==
  ASSUME NEW t, t \in Seq(Char)
  PROVE  Total(t) = Tot(t, Len(t))
<1>1. DOMAIN t = 1..Len(t)
  OBVIOUS
<1> DEFINE A == {k \in DOMAIN t : t[k] \in Digit /\ \E j \in k..Len(t) : t[j] \notin Digit}
<1>2. A = Closed(t, Len(t))
  BY <1>1 DEF Closed
<1>3. Weight(t) = WeightTo(t, Len(t))
  BY <1>1, Zenon DEF Weight, WeightTo, Following, FollowTo
<1>4. Total(t) = SumFunctionOnSet(Weight(t), A)
  BY Zenon DEF Total
<1>5. \A f, B : SumFunctionOnSet(f, B) = Sum(f, B)
  BY Zenon DEF SumFunctionOnSet, FoldFunctionOnSet, MapThenFoldSet, Sum, SumFun, IsSumFun, SumStep, Pick
<1> HIDE DEF A
<1> QED BY <1>2, <1>3, <1>4, <1>5, Zenon DEF Tot

-----------------------------------------------------------------------------
(* What the result is the sum of.                                          *)

\* w is in a write that no other has overlapped and whose text fits.
Alone(w) == single[w] /\ wpc[w] # "idle" /\ Len(text[w]) < MAX_INPUT_SIZE

\* What it has copied, its end mark and what lay behind are still in the buffer.
Kept(w) ==
  /\ behind[w] \in Seq(Char) /\ Len(behind[w]) = MAX_INPUT_SIZE - (Len(text[w]) + 1)
  /\ \A k \in 1..Len(behind[w]) : input_buf[Len(text[w]) + k] = behind[w][k]
  /\ \A k \in 1..Len(text[w]) :
       wpc[w] = "loop" \/ k <= done[w] => input_buf[k - 1] = text[w][k]
  /\ wpc[w] = "loop" => input_buf[Len(text[w])] = Semi

Marked(w) == Append(text[w], Semi)

\* The loop has added up the text up to done[w], or all of it and some of what lay behind.
InText(w) ==
  /\ done[w] <= Len(text[w]) + 1
  /\ sum[w] = Tot(Marked(w), done[w]) % ULong /\ num[w] = Num(Marked(w), done[w]) % ULong

InRest(w) ==
  LET n == done[w] - (Len(text[w]) + 1) IN
  /\ n >= 0
  /\ sum[w] = (Tot(Marked(w), Len(text[w]) + 1) + Tot(behind[w], n)) % ULong
  /\ num[w] = Num(behind[w], n) % ULong

SumsOf(w) ==
  /\ Alone(w) => /\ \A v \in Writer \ {w} : wpc[v] = "idle"
                 /\ Kept(w) /\ (wpc[w] = "loop" => InText(w) \/ InRest(w))
  /\ ShowsAlone(w) =>
       result = (Total(Append(text[w], Semi)) + Total(behind[w])) % ULong

SumInv == \A w \in Writer : SumsOf(w)

\* No write has begun.
LEMMA SumInit == Init => SumInv
BY DEF Init, SumInv, SumsOf, Alone, ShowsAlone

\* A step of v leaves what w's last write shows, unless v is w.
LEMMA ShowStays ==
  ASSUME AccInv, SumInv, NEW v \in Writer, NEW w \in Writer, v # w, ShowsAlone(w)',
         \/ \E t \in Text : simacc_write(v, t)
         \/ simacc_write_copy(v) \/ simacc_write_fault(v) \/ simacc_write_mark(v)
         \/ simacc_write_loop(v) \/ simacc_write_print(v)
  PROVE  /\ ShowsAlone(w) /\ UNCHANGED <<text[w], behind[w]>> /\ result' = result
<1>1. CASE \E t \in Text : simacc_write(v, t)
  BY <1>1 DEF AccInv, TypeOK, simacc_write, ShowsAlone, locals
<1>2. CASE simacc_write_copy(v)
  BY <1>2 DEF AccInv, TypeOK, simacc_write_copy, ShowsAlone, locals
<1>3. CASE simacc_write_fault(v)
  BY <1>3 DEF AccInv, TypeOK, simacc_write_fault, ShowsAlone, locals
<1>4. CASE simacc_write_mark(v)
  BY <1>4 DEF AccInv, TypeOK, simacc_write_mark, ShowsAlone, locals
<1>5. CASE simacc_write_loop(v)
  BY <1>5 DEF AccInv, TypeOK, simacc_write_loop, ShowsAlone, locals
<1>6. CASE simacc_write_print(v)
  BY <1>6 DEF AccInv, TypeOK, simacc_write_print, ShowsAlone, locals
<1> QED BY <1>1, <1>2, <1>3, <1>4, <1>5, <1>6

\* While w is alone, a step of another process ends that.
LEMMA AloneEnds ==
  ASSUME AccInv, SumInv, NEW v \in Writer, NEW w \in Writer, v # w, Alone(w)',
         \/ \E t \in Text : simacc_write(v, t)
         \/ simacc_write_copy(v) \/ simacc_write_fault(v) \/ simacc_write_mark(v)
         \/ simacc_write_loop(v) \/ simacc_write_print(v)
  PROVE  FALSE
<1>1. CASE \E t \in Text : simacc_write(v, t)
  BY <1>1, Zenon DEF AccInv, TypeOK, simacc_write, Alone
<1>2. CASE ~\E t \in Text : simacc_write(v, t)
  <2>1. wpc[v] # "idle"
    BY <1>2 DEF simacc_write_copy, simacc_write_fault, simacc_write_mark,
       simacc_write_loop, simacc_write_print
  <2>2. wpc'[w] = wpc[w] /\ UNCHANGED <<text, single>>
    BY <1>2 DEF AccInv, TypeOK, simacc_write_copy, simacc_write_fault, simacc_write_mark,
       simacc_write_loop, simacc_write_print
  <2> QED BY <2>1, <2>2 DEF Alone, SumInv, SumsOf
<1> QED BY <1>1, <1>2

\* The write of w begins: what lies behind its text is noted.
LEMMA SumBegins ==
  ASSUME AccInv, NEW w \in Writer, NEW t \in Text, simacc_write(w, t)
  PROVE  SumsOf(w)'
<1> USE AccSizes
<1>1. /\ wpc' = [wpc EXCEPT ![w] = "copy"] /\ text' = [text EXCEPT ![w] = t]
      /\ done' = [done EXCEPT ![w] = 0] /\ input_buf' = input_buf
      /\ behind' = [behind EXCEPT ![w] = From(CopyLen(t) + 1)]
      /\ single'[w] <=> \A u \in Writer \ {w} : wpc[u] = "idle"
  BY DEF simacc_write
<1>2. /\ wpc'[w] = "copy" /\ text'[w] = t /\ done'[w] = 0
      /\ behind'[w] = From(CopyLen(t) + 1)
      /\ \A v \in Writer \ {w} : wpc'[v] = wpc[v]
  BY <1>1 DEF AccInv, TypeOK
<1>3. ~ShowsAlone(w)'
  BY <1>2 DEF ShowsAlone
<1>4. ASSUME Alone(w)' PROVE Kept(w)' /\ \A v \in Writer \ {w} : wpc'[v] = "idle"
  <2>1. \A v \in Writer \ {w} : wpc'[v] = "idle"
    BY <1>1, <1>2, <1>4 DEF Alone
  <2>2. t \in Seq(Char) /\ Len(t) \in Nat /\ Len(t) < MAX_INPUT_SIZE /\ CopyLen(t) = Len(t)
    BY <1>2, <1>4, Copied, TextType DEF Alone
  <2> DEFINE n == MAX_INPUT_SIZE - (Len(t) + 1)
  <2>3. n \in Nat
    BY <2>2
  <2>4. Max({0, n}) = n
    <3>1. n \in {0, n} /\ \A y \in {0, n} : n >= y
      BY <2>3
    <3>2. Max({0, n}) \in {0, n} /\ \A y \in {0, n} : Max({0, n}) >= y
      BY <3>1 DEF Max
    <3> QED BY <2>3, <3>2
  <2>5. behind'[w] = [k \in 1..n |-> input_buf[(Len(t) + 1) + k - 1]]
    BY <1>2, <2>2, <2>4 DEF From
  <2>6. \A k \in 1..n : /\ (Len(t) + 1) + k - 1 = Len(t) + k
                        /\ Len(t) + k \in 0..(MAX_INPUT_SIZE - 1)
    BY <2>2
  <2>7. \A k \in 1..n : behind'[w][k] = input_buf[Len(t) + k] /\ behind'[w][k] \in Char
    BY <2>5, <2>6 DEF AccInv, TypeOK
  <2>8. behind'[w] \in [1..n -> Char]
    BY <2>5, <2>7, Zenon
  <2> HIDE DEF n
  <2>9. behind'[w] \in Seq(Char) /\ Len(behind'[w]) = n
    BY <2>3, <2>8
  <2>10. \A k \in 1..Len(t) : ~(k <= 0)
    BY <2>2
  <2>11. Len(behind'[w]) = MAX_INPUT_SIZE - (Len(text'[w]) + 1)
    BY <1>2, <2>9, Zenon DEF n
  <2>12. \A k \in 1..Len(behind'[w]) : input_buf'[Len(text'[w]) + k] = behind'[w][k]
    BY <1>1, <1>2, <2>7, <2>9, Zenon
  <2>13. /\ \A k \in 1..Len(text'[w]) :
              wpc'[w] = "loop" \/ k <= done'[w] => input_buf'[k - 1] = text'[w][k]
         /\ wpc'[w] # "loop"
    BY <1>2, <2>10
  <2> QED BY <2>1, <2>9, <2>11, <2>12, <2>13, Zenon DEF Kept
<1> HIDE AccSizes
<1> QED BY <1>2, <1>3, <1>4, Zenon DEF SumsOf, Alone

\* It copies a byte, in front of the end mark.
LEMMA SumCopies ==
  ASSUME AccInv, NEW w \in Writer, SumsOf(w), simacc_write_copy(w)
  PROVE  SumsOf(w)'
<1> USE AccSizes
<1>1. /\ wpc[w] = "copy" /\ done[w] < CopyLen(text[w])
      /\ input_buf' = [input_buf EXCEPT ![done[w]] = text[w][done[w] + 1]]
      /\ done' = [done EXCEPT ![w] = done[w] + 1] /\ UNCHANGED <<wpc, text, single, behind>>
  BY DEF simacc_write_copy
<1>2. done'[w] = done[w] + 1 /\ done[w] \in Nat /\ text[w] \in Seq(Char)
  BY <1>1 DEF AccInv, TypeOK
<1>3. ASSUME Alone(w)' PROVE Kept(w)' /\ \A v \in Writer \ {w} : wpc'[v] = "idle"
  <2>1. Alone(w) /\ Kept(w) /\ \A v \in Writer \ {w} : wpc[v] = "idle"
    BY <1>1, <1>3 DEF Alone, SumsOf
  <2>2. Len(text[w]) \in Nat /\ done[w] < Len(text[w]) /\ Len(text[w]) < MAX_INPUT_SIZE
    BY <1>1, <1>2, <2>1, Copied DEF Alone
  <2>3. /\ done[w] \in 0..(MAX_INPUT_SIZE - 1)
        /\ \A k \in 1..Len(text[w]) : k - 1 \in 0..(MAX_INPUT_SIZE - 1)
    BY <1>2, <2>2
  <2>4. \A j \in 0..(MAX_INPUT_SIZE - 1) :
          input_buf'[j] = IF j = done[w] THEN text[w][done[w] + 1] ELSE input_buf[j]
    BY <1>1 DEF AccInv, TypeOK
  <2>5. ASSUME NEW k \in 1..Len(behind[w]) PROVE input_buf'[Len(text[w]) + k] = behind[w][k]
    <3>1. /\ Len(text[w]) + k \in 0..(MAX_INPUT_SIZE - 1) /\ Len(text[w]) + k # done[w]
      BY <1>2, <2>1, <2>2 DEF Kept
    <3> QED BY <2>1, <2>4, <3>1 DEF Kept
  <2>6. ASSUME NEW k \in 1..Len(text[w]), k <= done[w] + 1
        PROVE  input_buf'[k - 1] = text[w][k]
    <3>1. CASE k = done[w] + 1
      <4>1. k - 1 = done[w]
        BY <1>2, <3>1
      <4> QED BY <2>3, <2>4, <3>1, <4>1
    <3>2. CASE k # done[w] + 1
      <4>1. k <= done[w] /\ k - 1 # done[w]
        BY <1>2, <2>2, <2>6, <3>2
      <4> QED BY <2>1, <2>3, <2>4, <4>1 DEF Kept
    <3> QED BY <3>1, <3>2
  <2> QED BY <1>1, <1>2, <2>1, <2>5, <2>6 DEF Kept
<1>4. ~ShowsAlone(w)'
  BY <1>1 DEF ShowsAlone
<1> QED BY <1>1, <1>3, <1>4, Zenon DEF SumsOf

\* Its copy faults: it shows nothing.
LEMMA SumFaults ==
  ASSUME AccInv, NEW w \in Writer, SumsOf(w), simacc_write_fault(w)
  PROVE  SumsOf(w)'
<1> USE AccSizes
<1>1. wpc'[w] = "idle" /\ done'[w] = done[w] /\ done[w] < CopyLen(text[w])
  BY DEF simacc_write_fault, AccInv, TypeOK
<1>2. done[w] < MAX_INPUT_SIZE /\ done[w] \in Nat
  BY <1>1, Copied DEF AccInv, TypeOK
<1>3. ~ShowsAlone(w)' /\ ~Alone(w)'
  BY <1>1, <1>2 DEF ShowsAlone, Alone
<1> QED BY <1>3 DEF SumsOf

\* It sets the end mark and starts to add up.
LEMMA SumMarks ==
  ASSUME AccInv, NEW w \in Writer, SumsOf(w), simacc_write_mark(w)
  PROVE  SumsOf(w)'
<1> USE AccSizes
<1>1. /\ wpc[w] = "copy" /\ done[w] = CopyLen(text[w])
      /\ input_buf' = [j \in DOMAIN input_buf |-> IF j = done[w] THEN Semi ELSE input_buf[j]]
      /\ UNCHANGED <<text, single, behind>>
  BY DEF simacc_write_mark
<1>2. /\ wpc'[w] = "loop" /\ done'[w] = 0 /\ num'[w] = 0 /\ sum'[w] = 0
      /\ \A v \in Writer \ {w} : wpc'[v] = wpc[v]
      /\ done[w] \in Nat /\ text[w] \in Seq(Char)
  BY DEF simacc_write_mark, AccInv, TypeOK
<1>3. ASSUME Alone(w)'
      PROVE  Kept(w)' /\ InText(w)' /\ \A v \in Writer \ {w} : wpc'[v] = "idle"
  <2>0. Alone(w)
    BY <1>1, <1>3 DEF Alone
  <2>1. Alone(w) /\ Kept(w) /\ \A v \in Writer \ {w} : wpc[v] = "idle"
    BY <2>0, Zenon DEF SumsOf
  <2>2. Len(text[w]) \in Nat /\ done[w] = Len(text[w]) /\ Len(text[w]) < MAX_INPUT_SIZE
    BY <1>1, <1>2, <2>1, Copied DEF Alone
  <2>3. \A j \in 0..(MAX_INPUT_SIZE - 1) :
          input_buf'[j] = IF j = done[w] THEN Semi ELSE input_buf[j]
    BY <1>1 DEF AccInv, TypeOK
  <2>4. ASSUME NEW k \in 1..Len(behind[w]) PROVE input_buf'[Len(text[w]) + k] = behind[w][k]
    <3>1. /\ Len(text[w]) + k \in 0..(MAX_INPUT_SIZE - 1) /\ Len(text[w]) + k # done[w]
      BY <1>2, <2>1, <2>2 DEF Kept
    <3> QED BY <2>1, <2>3, <3>1 DEF Kept
  <2>5. ASSUME NEW k \in 1..Len(text[w]) PROVE input_buf'[k - 1] = text[w][k]
    <3>1. k <= done[w] /\ k - 1 # done[w] /\ k - 1 \in 0..(MAX_INPUT_SIZE - 1)
      BY <2>2
    <3> QED BY <2>1, <2>3, <3>1 DEF Kept
  <2>6. input_buf'[Len(text[w])] = Semi
    BY <2>2, <2>3
  <2>7. Kept(w)'
    <3>1. behind[w] \in Seq(Char) /\ Len(behind[w]) = MAX_INPUT_SIZE - (Len(text[w]) + 1)
      BY <2>1, Zenon DEF Kept
    <3> QED BY <1>1, <2>4, <2>5, <2>6, <3>1, Zenon DEF Kept
  <2>8. InText(w)'
    <3>1. Tot(Marked(w)', 0) = 0 /\ Num(Marked(w)', 0) = 0 /\ 0 % ULong = 0
      BY TotNone
    <3>2. 0 <= Len(text'[w]) + 1
      BY <1>1, <2>2
    <3> QED BY <1>2, <3>1, <3>2 DEF InText
  <2> QED BY <1>2, <2>1, <2>7, <2>8
<1>4. ~ShowsAlone(w)'
  BY <1>2 DEF ShowsAlone
<1> QED BY <1>3, <1>4 DEF SumsOf

\* One character more of t, read into x and y, which hold the sums modulo ULong.
LEMMA ReadOne ==
  ASSUME NEW t, NEW n \in Nat, t[n + 1] \in Char, NEW a \in Nat, NEW x, NEW y,
         x = (a + Tot(t, n)) % ULong, y = Num(t, n) % ULong
  PROVE  /\ t[n + 1] \in Digit =>
              /\ x = (a + Tot(t, n + 1)) % ULong
              /\ (y * 10 + t[n + 1]) % ULong = Num(t, n + 1) % ULong
         /\ t[n + 1] \notin Digit =>
              /\ (x + y) % ULong = (a + Tot(t, n + 1)) % ULong
              /\ 0 = Num(t, n + 1) % ULong
<1> USE AccSizes
<1>1. Tot(t, n) \in Nat /\ Num(t, n) \in Nat
  BY TotNat
<1>2. ASSUME t[n + 1] \in Digit
      PROVE  /\ x = (a + Tot(t, n + 1)) % ULong
             /\ (y * 10 + t[n + 1]) % ULong = Num(t, n + 1) % ULong
  <2>1. Tot(t, n + 1) = Tot(t, n) /\ Num(t, n + 1) = 10 * Num(t, n) + t[n + 1]
    BY <1>2, TotDigit
  <2>2. t[n + 1] \in Nat
    BY <1>2 DEF Digit
  <2>3. ((Num(t, n) % ULong) * 10 + t[n + 1]) % ULong = (10 * Num(t, n) + t[n + 1]) % ULong
    <3> DEFINE b == t[n + 1]
               d == Num(t, n)
    <3>1. b \in Nat /\ d \in Nat /\ ULong \in Nat \ {0}
      BY <1>1, <2>2
    <3> HIDE DEF b, d
    <3>2. TenFold(d, b, ULong)
      BY <3>1, ModTen
    <3> QED BY <3>2 DEF b, d, TenFold
  <2> QED BY <2>1, <2>3, Zenon
<1>3. ASSUME t[n + 1] \notin Digit
      PROVE  (x + y) % ULong = (a + Tot(t, n + 1)) % ULong /\ 0 = Num(t, n + 1) % ULong
  <2>1. Tot(t, n + 1) = Tot(t, n) + Num(t, n) /\ Num(t, n + 1) = 0
    BY <1>3, TotOther
  <2>2. a + Tot(t, n) \in Nat
    BY <1>1
  <2>3. (x + y) % ULong = ((a + Tot(t, n)) + Num(t, n)) % ULong
    BY <1>1, <2>2, ModBoth, Zenon
  <2>4. (a + Tot(t, n)) + Num(t, n) = a + Tot(t, n + 1)
    BY <1>1, <2>1
  <2>5. 0 % ULong = 0
    OBVIOUS
  <2> QED BY <2>1, <2>3, <2>4, <2>5, Zenon
<1> QED BY <1>2, <1>3

\* It reads a byte, of its text or of what lay behind.
LEMMA SumLoops ==
  ASSUME AccInv, NEW w \in Writer, SumsOf(w), simacc_write_loop(w)
  PROVE  SumsOf(w)'
<1> USE AccSizes
<1> DEFINE c == input_buf[done[w]]
           L == Len(text[w])
           F == Marked(w)
           B == behind[w]
<1>1. /\ wpc[w] = "loop" /\ done[w] < MAX_INPUT_SIZE /\ done'[w] = done[w] + 1
      /\ UNCHANGED <<input_buf, result, wpc, text, single, behind, printed, begun>>
      /\ done[w] \in Nat /\ text[w] \in Seq(Char)
  BY DEF simacc_write_loop, AccInv, TypeOK
<1>2. /\ c \in Digit => sum'[w] = sum[w] /\ num'[w] = (num[w] * 10 + c) % ULong
      /\ c \notin Digit => sum'[w] = (sum[w] + num[w]) % ULong /\ num'[w] = 0
  BY Zenon DEF simacc_write_loop, AccInv, TypeOK
<1>3. ~ShowsAlone(w)'
  BY <1>1 DEF ShowsAlone
<1>4. ASSUME Alone(w)'
      PROVE  /\ Kept(w)' /\ \A v \in Writer \ {w} : wpc'[v] = "idle"
             /\ (InText(w) \/ InRest(w))'
  <2>1. /\ Alone(w) /\ Kept(w) /\ \A v \in Writer \ {w} : wpc[v] = "idle"
        /\ InText(w) \/ InRest(w)
    <3>1. Alone(w)
      BY <1>1, <1>4 DEF Alone
    <3> QED BY <1>1, <3>1, Zenon DEF SumsOf
  <2>2. L \in Nat /\ L < MAX_INPUT_SIZE
    BY <1>1, <2>1, Copied DEF Alone
  <2>3. Kept(w)'
    BY <1>1, <2>1, Zenon DEF Kept
  <2>4. /\ B \in Seq(Char) /\ Len(B) = MAX_INPUT_SIZE - (L + 1)
        /\ \A k \in 1..Len(B) : input_buf[L + k] = B[k]
        /\ \A k \in 1..L : input_buf[k - 1] = text[w][k]
        /\ input_buf[L] = Semi
    BY <1>1, <2>1 DEF Kept
  <2>5. /\ F \in Seq(Char) /\ Len(F) = L + 1 /\ F[L + 1] = Semi
        /\ \A k \in 1..L : F[k] = text[w][k]
    <3>1. Semi \in Char
      BY DEF Semi, Char
    <3> QED BY <1>1, <3>1 DEF Marked
  <2>6. c \in Char
    BY <1>1 DEF AccInv, TypeOK
  <2>7. Marked(w)' = F /\ behind'[w] = B /\ Len(text'[w]) = L
    BY <1>1 DEF Marked
  <2> HIDE DEF c, L, F, B
  <2>8. CASE InText(w) /\ done[w] < L + 1
    <3>1. F[done[w] + 1] = c
      <4>1. CASE done[w] = L
        BY <2>4, <2>5, <4>1 DEF c
      <4>2. CASE done[w] # L
        <5>1. done[w] + 1 \in 1..L /\ (done[w] + 1) - 1 = done[w]
          BY <1>1, <2>2, <2>8, <4>2
        <5> QED BY <2>4, <2>5, <5>1 DEF c
      <4> QED BY <4>1, <4>2
    <3>2. sum[w] = Tot(F, done[w]) % ULong /\ num[w] = Num(F, done[w]) % ULong
      BY <2>8 DEF InText, F
    <3>3. 0 + Tot(F, done[w]) = Tot(F, done[w]) /\ 0 + Tot(F, done[w] + 1) = Tot(F, done[w] + 1)
      BY <1>1, TotNat
    <3>4. /\ c \in Digit =>
               /\ sum[w] = (0 + Tot(F, done[w] + 1)) % ULong
               /\ (num[w] * 10 + c) % ULong = Num(F, done[w] + 1) % ULong
          /\ c \notin Digit =>
               /\ (sum[w] + num[w]) % ULong = (0 + Tot(F, done[w] + 1)) % ULong
               /\ 0 = Num(F, done[w] + 1) % ULong
      <4>1. done[w] \in Nat /\ F[done[w] + 1] \in Char /\ 0 \in Nat
        BY <1>1, <2>6, <3>1
      <4>2. sum[w] = (0 + Tot(F, done[w])) % ULong
        BY <3>2, <3>3, Zenon
      <4> HIDE AccSizes
      <4>3. /\ F[done[w] + 1] \in Digit =>
                 /\ sum[w] = (0 + Tot(F, done[w] + 1)) % ULong
                 /\ (num[w] * 10 + F[done[w] + 1]) % ULong = Num(F, done[w] + 1) % ULong
            /\ F[done[w] + 1] \notin Digit =>
                 /\ (sum[w] + num[w]) % ULong = (0 + Tot(F, done[w] + 1)) % ULong
                 /\ 0 = Num(F, done[w] + 1) % ULong
        BY <3>2, <4>1, <4>2, ReadOne
      <4> QED BY <3>1, <4>3, Zenon
    <3>5. sum'[w] = Tot(F, done[w] + 1) % ULong /\ num'[w] = Num(F, done[w] + 1) % ULong
      BY <1>2, <3>3, <3>4, Zenon DEF c
    <3>6. done[w] + 1 <= L + 1
      <4>1. done[w] \in Nat /\ L \in Nat /\ done[w] < L + 1
        BY <1>1, <2>2, <2>8, Zenon
      <4> HIDE AccSizes
      <4> QED BY <4>1
    <3>7. InText(w)'
      BY <1>1, <2>7, <3>5, <3>6, Zenon DEF InText
    <3> QED BY <2>1, <1>1, <2>3, <3>7, Zenon
  <2> DEFINE n == done[w] - (L + 1)
             a == Tot(F, L + 1)
  <2>9. ASSUME n >= 0, sum[w] = (a + Tot(B, n)) % ULong, num[w] = Num(B, n) % ULong
        PROVE  InRest(w)'
    <3>1. n \in Nat /\ n + 1 \in 1..Len(B) /\ L + (n + 1) = done[w]
          /\ done[w] + 1 - (L + 1) = n + 1
      <4>1. done[w] \in Nat /\ L \in Nat /\ done[w] - (L + 1) >= 0
        BY <1>1, <2>2, <2>9
      <4>2. done[w] < MAX_INPUT_SIZE /\ Len(B) = MAX_INPUT_SIZE - (L + 1)
        BY <1>1, <2>4
      <4> QED BY <4>1, <4>2
    <3>2. B[n + 1] = c
      BY <2>4, <3>1 DEF c
    <3>3. a \in Nat
      BY <2>2, TotNat
    <3> HIDE DEF n, a
    <3>4. /\ c \in Digit =>
               /\ sum[w] = (a + Tot(B, n + 1)) % ULong
               /\ (num[w] * 10 + c) % ULong = Num(B, n + 1) % ULong
          /\ c \notin Digit =>
               /\ (sum[w] + num[w]) % ULong = (a + Tot(B, n + 1)) % ULong
               /\ 0 = Num(B, n + 1) % ULong
      BY <2>6, <2>9, <3>1, <3>2, <3>3, ReadOne
    <3>5. sum'[w] = (a + Tot(B, n + 1)) % ULong /\ num'[w] = Num(B, n + 1) % ULong
      BY <1>2, <3>4, Zenon DEF c
    <3>6. n + 1 >= 0
      BY <3>1
    <3>7. done'[w] - (Len(text'[w]) + 1) = n + 1
      BY <1>1, <2>7, <3>1
    <3> QED BY <2>7, <3>5, <3>6, <3>7, Zenon DEF InRest, a
  <2>10. CASE InRest(w)
    <3>1. n >= 0 /\ sum[w] = (a + Tot(B, n)) % ULong /\ num[w] = Num(B, n) % ULong
      BY <2>10 DEF InRest, F, B, L
    <3> QED BY <1>1, <2>1, <2>3, <2>9, <3>1, Zenon
  <2>11. CASE InText(w) /\ ~(done[w] < L + 1)
    <3>1. done[w] = L + 1 /\ n = 0
      BY <1>1, <2>2, <2>11 DEF InText, L
    <3>2. sum[w] = a % ULong /\ num[w] = Num(F, L + 1) % ULong
      BY <2>11, <3>1 DEF InText, F
    <3>3. Num(F, L + 1) = 0
      <4>1. Semi \notin Digit
        BY DEF Semi, Digit
      <4> QED BY <2>2, <2>5, <4>1, TotOther
    <3>4. Tot(B, n) = 0 /\ Num(B, n) = 0
      BY <3>1, TotNone
    <3>5. a + 0 = a
      BY <2>2, TotNat
    <3>6. n >= 0 /\ sum[w] = (a + Tot(B, n)) % ULong /\ num[w] = Num(B, n) % ULong
      BY <3>1, <3>2, <3>3, <3>4, <3>5
    <3> QED BY <1>1, <2>1, <2>3, <2>9, <3>6, Zenon
  <2> QED BY <2>1, <2>8, <2>10, <2>11, Zenon
<1> QED BY <1>3, <1>4 DEF SumsOf

\* It prints what it has added up.
LEMMA SumPrints ==
  ASSUME AccInv, NEW w \in Writer, SumsOf(w), simacc_write_print(w)
  PROVE  SumsOf(w)'
<1> USE AccSizes
<1>1. /\ wpc[w] = "loop" /\ done[w] = MAX_INPUT_SIZE /\ wpc'[w] = "idle"
      /\ \/ result' = sum[w]
         \/ \E v \in Writer \ {w} : wpc[v] = "loop"
      /\ UNCHANGED <<text, done, single, behind>>
  BY DEF simacc_write_print, AccInv, TypeOK
<1>2. ~Alone(w)'
  BY <1>1 DEF Alone
<1>3. ASSUME ShowsAlone(w)'
      PROVE  result' = (Total(Append(text[w], Semi)) + Total(behind[w])) % ULong
  <2>1. Alone(w)
    BY <1>1, <1>3 DEF Alone, ShowsAlone
  <2>2. result' = sum[w] /\ Kept(w) /\ (InText(w) \/ InRest(w))
    BY <1>1, <2>1 DEF SumsOf
  <2>3. /\ text[w] \in Seq(Char) /\ Len(text[w]) \in Nat /\ Len(text[w]) < MAX_INPUT_SIZE
        /\ behind[w] \in Seq(Char) /\ Len(behind[w]) = MAX_INPUT_SIZE - (Len(text[w]) + 1)
    BY <2>1, <2>2, Copied DEF AccInv, Alone, Kept
  <2>4. Marked(w) \in Seq(Char) /\ Len(Marked(w)) = Len(text[w]) + 1
    <3>1. Semi \in Char
      BY DEF Semi, Char
    <3> QED BY <2>3, <3>1 DEF Marked
  <2> DEFINE a == Tot(Marked(w), Len(text[w]) + 1)
             n == Len(behind[w])
  <2>5. Total(Append(text[w], Semi)) = a /\ Total(behind[w]) = Tot(behind[w], n)
    BY <2>3, <2>4, TotalIs DEF Marked
  <2>6. CASE InRest(w)
    <3>1. done[w] - (Len(text[w]) + 1) = n
      BY <1>1, <2>3
    <3>2. sum[w] = (a + Tot(behind[w], n)) % ULong
      BY <2>6, <3>1 DEF InRest
    <3> QED BY <2>2, <2>5, <3>2
  <2>7. CASE InText(w)
    <3>1. done[w] = Len(text[w]) + 1 /\ n = 0
      BY <1>1, <2>3, <2>7 DEF InText
    <3>2. sum[w] = a % ULong
      BY <2>7, <3>1 DEF InText
    <3>3. Tot(behind[w], n) = 0
      BY <3>1, TotNone
    <3>4. a + 0 = a
      BY <2>3, TotNat
    <3> QED BY <2>2, <2>5, <3>2, <3>3, <3>4
  <2> QED BY <2>2, <2>6, <2>7
<1>4. SumsOf(w)' = TRUE
  <2>1. ShowsAlone(w)' =>
          result' = (Total(Append(text'[w], Semi)) + Total(behind'[w])) % ULong
    BY <1>1, <1>3
  <2> QED BY <1>2, <2>1 DEF SumsOf
<1> QED BY <1>4

\* Every step keeps the invariant.
LEMMA SumStays == AccInv /\ SumInv /\ [Next]_vars => SumInv'
<1> SUFFICES ASSUME AccInv, SumInv, [Next]_vars, NEW w \in Writer PROVE SumsOf(w)'
  BY DEF SumInv
<1>0. SumsOf(w)
  BY DEF SumInv
<1>1. CASE Next
  <2>1. PICK v \in Writer : \/ \E t \in Text : simacc_write(v, t)
                          \/ simacc_write_copy(v) \/ simacc_write_fault(v)
                          \/ simacc_write_mark(v) \/ simacc_write_loop(v)
                          \/ simacc_write_print(v)
    BY <1>1 DEF Next
  <2>2. CASE v = w
    BY <1>0, <2>1, <2>2, SumBegins, SumCopies, SumFaults, SumMarks, SumLoops, SumPrints
  <2>3. CASE v # w
    <3>1. ~Alone(w)'
      BY <2>1, <2>3, AloneEnds
    <3>2. ASSUME ShowsAlone(w)'
          PROVE  result' = (Total(Append(text'[w], Semi)) + Total(behind'[w])) % ULong
      <4>1. ShowsAlone(w) /\ text'[w] = text[w] /\ behind'[w] = behind[w] /\ result' = result
        BY <2>1, <2>3, <3>2, ShowStays
      <4> QED BY <1>0, <4>1 DEF SumsOf
    <3>3. ShowsAlone(w)' =>
            result' = (Total(Append(text'[w], Semi)) + Total(behind'[w])) % ULong
      BY <3>2
    <3> QED BY <3>1, <3>3 DEF SumsOf
  <2> QED BY <2>2, <2>3
<1>2. CASE UNCHANGED vars
  <2>1. SumsOf(w)' <=> SumsOf(w)
    BY <1>2, Zenon DEF vars, SumsOf, Alone, Kept, InText, InRest, Marked, ShowsAlone, Total,
       Weight, Following
  <2> QED BY <1>0, <2>1
<1> QED BY <1>1, <1>2

\* The invariant says what is shown.
LEMMA SumShown == SumInv => SumOfBuffer
BY DEF SumInv, SumsOf, SumOfBuffer, SumOfBuffer
=============================================================================
