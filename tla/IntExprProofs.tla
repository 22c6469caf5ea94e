--------------------------- MODULE IntExprProofs ---------------------------
(***************************************************************************)
(* Integer expressions, for every width of the integers: their types, the  *)
(* code for them and their constants are those of C.                       *)
(***************************************************************************)
EXTENDS IntExpr, FiniteSetTheorems, WellFoundedInduction, TLAPS

(***************************************************************************)
(* Recursion up to a bound.                                                *)
(***************************************************************************)
\* A set of naturals that is not empty has a least element.
LEMMA LeastElement ==
  ASSUME NEW n \in Nat, NEW T \in SUBSET (0..n), T # {}
  PROVE  \E i \in T : \A j \in 0..(i - 1) : j \notin T
<1> DEFINE Below(i) == 0..(i - 1)
           Segments == {Below(i) : i \in T}
<1>1. IsFiniteSet(0..n)
  BY FS_Interval
<1>2. IsWellFoundedOn(StrictSubsetOrdering(0..n), FiniteSubsetsOf(0..n))
  BY FS_StrictSubsetOrderingWellFounded
<1>3. Segments \subseteq FiniteSubsetsOf(0..n)
  <2>1. FiniteSubsetsOf(0..n) = SUBSET (0..n)
    BY <1>1, FS_FiniteSubsetsOfFinite
  <2> QED
    BY <2>1
<1>4. Segments # {}
  OBVIOUS
<1> HIDE DEF Segments
<1>5. PICK s \in Segments : \A r \in Segments : ~(<<r, s>> \in StrictSubsetOrdering(0..n))
  BY <1>2, <1>3, <1>4, WFMin
<1>6. PICK i \in T : s = Below(i)
  BY <1>5 DEF Segments
<1>7. ASSUME NEW j \in 0..(i - 1), j \in T
      PROVE  FALSE
  <2>1. Below(j) \in Segments
    BY <1>7 DEF Segments
  <2>2. Below(j) \subseteq Below(i) /\ Below(j) # Below(i)
    BY <1>7
  <2>3. Below(i) \subseteq 0..n
    OBVIOUS
  <2>4. <<Below(j), Below(i)>> \in StrictSubsetOrdering(0..n)
    BY <2>2, <2>3 DEF StrictSubsetOrdering
  <2> QED
    BY <2>1, <2>4, <1>5, <1>6
<1> QED
  BY <1>7


\* Repeating a step n times gives a sequence of results.
LEMMA Repeated ==
  ASSUME NEW n \in Nat, NEW g \in [Nat \X (1..n) -> Nat], NEW z \in Nat
  PROVE  \E f \in [0..n -> Nat] : f[0] = z /\ \A i \in 1..n : f[i] = g[<<f[i - 1], i>>]
<1> DEFINE Upto(k) == \E f \in [0..k -> Nat] : f[0] = z /\ \A i \in 1..k : f[i] = g[<<f[i - 1], i>>]
           T == {k \in 0..n : ~Upto(k)}
<1>1. ASSUME T # {}
      PROVE  FALSE
  <2>1. T \in SUBSET (0..n)
    OBVIOUS
  <2> HIDE DEF T
  <2>2. PICK k \in T : \A j \in 0..(k - 1) : j \notin T
    BY <1>1, <2>1, LeastElement
  <2>3. k \in 0..n /\ ~Upto(k)
    BY <2>2 DEF T
  <2>4. k # 0
    <3>1. ASSUME k = 0 PROVE Upto(k)
      <4> DEFINE f == [i \in 0..0 |-> z]
      <4>1. f \in [0..k -> Nat] /\ f[0] = z /\ 1..k = {}
        BY <3>1
      <4> HIDE DEF f
      <4> QED
        BY <4>1
    <3> QED
      BY <2>3, <3>1
  <2>5. k - 1 \in 0..(k - 1) /\ k - 1 \in 0..n
    BY <2>3, <2>4
  <2>6. Upto(k - 1)
    BY <2>2, <2>5 DEF T
  <2>7. PICK f \in [0..(k - 1) -> Nat] : f[0] = z /\ \A i \in 1..(k - 1) : f[i] = g[<<f[i - 1], i>>]
    BY <2>6
  <2>8. PICK x \in Nat : x = g[<<f[k - 1], k>>]
    <3>1. f[k - 1] \in Nat /\ k \in 1..n
      BY <2>3, <2>4, <2>5, <2>7
    <3> QED
      BY <3>1
  <2>9. PICK h : h = [i \in 0..k |-> IF i = k THEN x ELSE f[i]]
    OBVIOUS
  <2>10. \A i \in 0..(k - 1) : i \in 0..k /\ i # k /\ f[i] \in Nat
    BY <2>3, <2>7
  <2>11. h \in [0..k -> Nat] /\ h[k] = x /\ \A i \in 0..(k - 1) : h[i] = f[i]
    BY <2>3, <2>8, <2>9, <2>10
  <2>12. h[0] = z
    BY <2>3, <2>4, <2>7, <2>11
  <2>13. ASSUME NEW i \in 1..k
         PROVE  h[i] = g[<<h[i - 1], i>>]
    <3>1. CASE i = k
      BY <2>5, <2>8, <2>11, <3>1
    <3>2. CASE i # k
      <4>1. i \in 1..(k - 1) /\ i - 1 \in 0..(k - 1) /\ i \in 0..(k - 1)
        BY <2>3, <3>2
      <4> QED
        BY <2>7, <2>11, <4>1
    <3> QED
      BY <3>1, <3>2
  <2> QED
    BY <2>3, <2>11, <2>12, <2>13
<1> HIDE DEF Upto
<1>2. Upto(n)
  BY <1>1
<1> QED
  BY <1>2 DEF Upto

(***************************************************************************)
(* Powers of two.                                                          *)
(***************************************************************************)
LEMMA BitsType ==
  /\ \A s \in {1, 2, 4, 8} : Bits[s] \in 2..Bits[8] /\ Bits[s] - 1 \in 1..(Bits[8] - 1)
  /\ Bits[8] \in Nat
  BY BitsAssumption

LEMMA Pow2Is ==
  /\ \A n \in 0..Bits[8] : Pow2[n] \in Nat /\ Pow2[n] > 0
  /\ Pow2[0] = 1
  /\ \A n \in 1..Bits[8] : Pow2[n] = 2 * Pow2[n - 1]
<1> DEFINE B == Bits[8]
           Step(f, n) == IF n = 0 THEN 1 ELSE 2 * f[n - 1]
<1>0. B \in Nat
  BY BitsType
<1>1. Pow2 = CHOOSE f : f = [n \in 0..B |-> Step(f, n)]
  BY DEF Pow2
<1> HIDE DEF B
<1>2. PICK g \in [Nat \X (1..B) -> Nat] : \A x \in Nat, i \in 1..B : g[<<x, i>>] = 2 * x
  <2> DEFINE h == [p \in Nat \X (1..B) |-> 2 * p[1]]
  <2>1. h \in [Nat \X (1..B) -> Nat] /\ \A x \in Nat, i \in 1..B : h[<<x, i>>] = 2 * x
    OBVIOUS
  <2> QED
    BY <2>1
<1>3. PICK f \in [0..B -> Nat] : f[0] = 1 /\ \A i \in 1..B : f[i] = g[<<f[i - 1], i>>]
  <2>1. g \in [Nat \X (1..B) -> Nat] /\ 1 \in Nat
    BY <1>2
  <2> QED
    BY ONLY <1>0, <2>1, Repeated, ZenonT(40)
<1>4. \A i \in 1..B : i - 1 \in 0..B /\ i \in 0..B
  BY <1>0
<1>5. ASSUME NEW n \in 0..B
      PROVE  f[n] = Step(f, n)
  <2>1. CASE n = 0
    BY <1>3, <2>1
  <2>2. CASE n # 0
    <3>1. n \in 1..B /\ n - 1 \in 0..B
      BY <1>0, <2>2
    <3>2. f[n] = g[<<f[n - 1], n>>] /\ f[n - 1] \in Nat
      BY <1>3, <3>1
    <3>3. f[n] = 2 * f[n - 1]
      BY <1>2, <3>1, <3>2
    <3> QED
      BY <2>2, <3>3
  <2> QED
    BY <2>1, <2>2
<1> HIDE DEF Step
<1>6. f = [n \in 0..B |-> Step(f, n)]
  BY <1>5
<1>7. Pow2 = [n \in 0..B |-> Step(Pow2, n)]
  BY <1>1, <1>6
<1>8. \A n \in 0..B : Pow2[n] = IF n = 0 THEN 1 ELSE 2 * Pow2[n - 1]
  BY <1>7 DEF Step
<1>9. Pow2[0] = 1 /\ \A n \in 1..B : Pow2[n] = 2 * Pow2[n - 1]
  BY <1>0, <1>8
<1> DEFINE T == {n \in 0..B : ~(Pow2[n] \in Nat /\ Pow2[n] > 0)}
<1>10. ASSUME T # {}
       PROVE  FALSE
  <2>1. T \in SUBSET (0..B)
    OBVIOUS
  <2> HIDE DEF T
  <2>2. PICK n \in T : \A j \in 0..(n - 1) : j \notin T
    BY <1>0, <1>10, <2>1, LeastElement
  <2>3. n \in 0..B /\ ~(Pow2[n] \in Nat /\ Pow2[n] > 0)
    BY <2>2 DEF T
  <2>4. n # 0
    BY <1>9, <2>3
  <2>5. n - 1 \in 0..(n - 1) /\ n - 1 \in 0..B /\ n \in 1..B
    BY <1>0, <2>3, <2>4
  <2>6. Pow2[n - 1] \in Nat /\ Pow2[n - 1] > 0
    BY <2>2, <2>5 DEF T
  <2>7. Pow2[n] = 2 * Pow2[n - 1]
    BY <1>9, <2>5
  <2> QED
    BY <2>3, <2>6, <2>7
<1> QED
  BY <1>9, <1>10 DEF B

\* The exponents add up.
LEMMA Pow2Divides ==
  ASSUME NEW i \in 0..Bits[8], NEW j \in i..Bits[8]
  PROVE  \E c \in Nat : c > 0 /\ Pow2[j] = Pow2[i] * c /\ (i < j => \E d \in Nat : d > 0 /\ c = 2 * d)
<1> DEFINE B == Bits[8]
           Good(k) == \E c \in Nat : c > 0 /\ Pow2[k] = Pow2[i] * c /\ (i < k => \E d \in Nat : d > 0 /\ c = 2 * d)
           T == {k \in i..B : ~Good(k)}
<1>0. B \in Nat
  BY BitsType
<1>1. ASSUME T # {}
      PROVE  FALSE
  <2>1. T \in SUBSET (0..B)
    BY <1>0
  <2> HIDE DEF T
  <2>2. PICK k \in T : \A m \in 0..(k - 1) : m \notin T
    BY <1>0, <1>1, <2>1, LeastElement
  <2>3. k \in i..B /\ ~Good(k)
    BY <2>2 DEF T
  <2>4. Pow2[i] \in Nat
    BY Pow2Is
  <2>5. k # i
    BY <2>3, <2>4
  <2>6. k - 1 \in i..B /\ k - 1 \in 0..(k - 1) /\ k \in 1..B
    BY <1>0, <2>3, <2>5
  <2>7. Good(k - 1)
    BY <2>2, <2>6 DEF T
  <2>8. PICK c \in Nat : c > 0 /\ Pow2[k - 1] = Pow2[i] * c
    BY <2>7
  <2>9. Pow2[k] = 2 * Pow2[k - 1]
    BY <2>6, Pow2Is
  <2>10. Pow2[k] = Pow2[i] * (2 * c) /\ 2 * c \in Nat /\ 2 * c > 0
    BY <2>4, <2>8, <2>9
  <2> QED
    BY <2>3, <2>8, <2>10
<1>2. Good(j)
  BY <1>1
<1> QED
  BY <1>2

\* A count of bits is less than what they can count.
LEMMA BelowPow2 ==
  ASSUME NEW n \in 0..Bits[8]
  PROVE  n < Pow2[n]
<1> DEFINE B == Bits[8]
           T == {k \in 0..B : ~(k < Pow2[k])}
<1>0. B \in Nat
  BY BitsType
<1>1. ASSUME T # {}
      PROVE  FALSE
  <2>1. T \in SUBSET (0..B)
    OBVIOUS
  <2> HIDE DEF T
  <2>2. PICK k \in T : \A m \in 0..(k - 1) : m \notin T
    BY <1>0, <1>1, <2>1, LeastElement
  <2>3. k \in 0..B /\ ~(k < Pow2[k])
    BY <2>2 DEF T
  <2>4. k # 0
    BY <2>3, Pow2Is
  <2>5. k - 1 \in 0..(k - 1) /\ k - 1 \in 0..B /\ k \in 1..B
    BY <1>0, <2>3, <2>4
  <2>6. k - 1 < Pow2[k - 1] /\ Pow2[k - 1] \in Nat
    BY <2>2, <2>5, Pow2Is DEF T
  <2>7. Pow2[k] = 2 * Pow2[k - 1]
    BY <2>5, Pow2Is
  <2> QED
    BY <2>3, <2>5, <2>6, <2>7
<1> QED
  BY <1>0, <1>1

(***************************************************************************)
(* Congruence.                                                             *)
(***************************************************************************)
Cong(a, b, m) == \E k \in Int : a = b + m * k

LEMMA DivMod ==
  ASSUME NEW n \in Int, NEW m \in Nat, m > 0
  PROVE  /\ n \div m \in Int /\ n % m \in 0..(m - 1) /\ n % m \in Nat
         /\ n = m * (n \div m) + (n % m)
  OBVIOUS

LEMMA CongSame ==
  ASSUME NEW a \in Int, NEW m \in Int
  PROVE  Cong(a, a, m)
<1>1. a = a + m * 0 /\ 0 \in Int
  OBVIOUS
<1> QED
  BY <1>1 DEF Cong

LEMMA CongBack ==
  ASSUME NEW a \in Int, NEW b \in Int, NEW m \in Int, Cong(a, b, m)
  PROVE  Cong(b, a, m)
<1>1. PICK k \in Int : a = b + m * k
  BY DEF Cong
<1>2. b = a + m * (-k) /\ -k \in Int
  BY <1>1
<1> QED
  BY <1>2 DEF Cong

LEMMA CongOn ==
  ASSUME NEW a \in Int, NEW b \in Int, NEW c \in Int, NEW m \in Int, Cong(a, b, m), Cong(b, c, m)
  PROVE  Cong(a, c, m)
<1>1. PICK j \in Int : a = b + m * j
  BY DEF Cong
<1>2. PICK k \in Int : b = c + m * k
  BY DEF Cong
<1>3. a = c + m * (j + k) /\ j + k \in Int
  BY <1>1, <1>2
<1> QED
  BY <1>3 DEF Cong

LEMMA CongSum ==
  ASSUME NEW a \in Int, NEW b \in Int, NEW c \in Int, NEW d \in Int, NEW m \in Int,
         Cong(a, b, m), Cong(c, d, m)
  PROVE  Cong(a + c, b + d, m) /\ Cong(a - c, b - d, m)
<1>1. PICK j \in Int : a = b + m * j
  BY DEF Cong
<1>2. PICK k \in Int : c = d + m * k
  BY DEF Cong
<1>3. a + c = (b + d) + m * (j + k) /\ j + k \in Int
  BY <1>1, <1>2
<1>4. a - c = (b - d) + m * (j - k) /\ j - k \in Int
  BY <1>1, <1>2
<1> QED
  BY <1>3, <1>4 DEF Cong

LEMMA CongProduct ==
  ASSUME NEW a \in Int, NEW b \in Int, NEW c \in Int, NEW d \in Int, NEW m \in Int,
         Cong(a, b, m), Cong(c, d, m)
  PROVE  Cong(a * c, b * d, m)
<1>1. PICK j \in Int : a = b + m * j
  BY DEF Cong
<1>2. PICK k \in Int : c = d + m * k
  BY DEF Cong
<1> DEFINE q == (b * k + j * d) + (j * k) * m
<1>3. a * c = (b + m * j) * (d + m * k)
  BY <1>1, <1>2
<1>4. (b + m * j) * (d + m * k) = b * d + m * q
  OBVIOUS
<1>5. q \in Int
  OBVIOUS
<1> HIDE DEF q
<1>6. a * c = b * d + m * q
  BY <1>3, <1>4
<1> QED
  BY <1>5, <1>6 DEF Cong

LEMMA CongMinus ==
  ASSUME NEW a \in Int, NEW b \in Int, NEW m \in Int, Cong(a, b, m)
  PROVE  Cong(-a, -b, m) /\ Cong(-a - 1, -b - 1, m)
<1>1. PICK k \in Int : a = b + m * k
  BY DEF Cong
<1>2. -a = -b + m * (-k) /\ -a - 1 = (-b - 1) + m * (-k) /\ -k \in Int
  BY <1>1
<1> QED
  BY <1>2 DEF Cong

\* Less is lost modulo a divisor.
LEMMA CongFactor ==
  ASSUME NEW a \in Int, NEW b \in Int, NEW m \in Int, NEW c \in Int, Cong(a, b, m * c)
  PROVE  Cong(a, b, m)
<1>1. PICK k \in Int : a = b + (m * c) * k
  BY DEF Cong
<1>2. (m * c) * k = m * (c * k) /\ c * k \in Int
  OBVIOUS
<1>3. a = b + m * (c * k)
  BY <1>1, <1>2
<1> QED
  BY <1>2, <1>3 DEF Cong

LEMMA CongMod ==
  ASSUME NEW n \in Int, NEW m \in Nat, m > 0
  PROVE  Cong(n % m, n, m) /\ Cong(n, n % m, m)
<1>1. n \div m \in Int /\ n % m \in Int /\ n = m * (n \div m) + (n % m)
  BY DivMod
<1> DEFINE q == n \div m
           x == n % m
<1> HIDE DEF q, x
<1>2. q \in Int /\ x \in Int /\ n = m * q + x
  BY <1>1 DEF q, x
<1>3. x = n + m * (-q) /\ n = x + m * q /\ -q \in Int
  BY <1>2
<1> QED
  BY <1>2, <1>3 DEF Cong, x

\* Among m numbers in a row there is one of each residue.
LEMMA CongUnique ==
  ASSUME NEW a \in Int, NEW b \in Int, NEW m \in Nat, m > 0, NEW lo \in Int,
         a >= lo, a < lo + m, b >= lo, b < lo + m, Cong(a, b, m)
  PROVE  a = b
<1>1. PICK k \in Int : a = b + m * k
  BY DEF Cong
<1>2. ~(k >= 1)
  <2>1. k >= 1 => m * k >= m
    OBVIOUS
  <2>2. m * k \in Int
    OBVIOUS
  <2> QED
    BY <1>1, <2>1, <2>2
<1>3. ~(k <= -1)
  <2>1. k <= -1 => m * k <= -m
    OBVIOUS
  <2>2. m * k \in Int
    OBVIOUS
  <2> QED
    BY <1>1, <2>1, <2>2
<1>4. k = 0
  BY <1>2, <1>3
<1> QED
  BY <1>1, <1>4

LEMMA ModOfCong ==
  ASSUME NEW a \in Int, NEW b \in Int, NEW m \in Nat, m > 0, Cong(a, b, m)
  PROVE  a % m = b % m
<1> DEFINE x == a % m
           y == b % m
<1>1. x \in 0..(m - 1) /\ y \in 0..(m - 1) /\ Cong(x, a, m) /\ Cong(b, y, m)
  BY DivMod, CongMod
<1> HIDE DEF x, y
<1>2. x \in Int /\ y \in Int
  BY <1>1
<1>3. Cong(x, b, m)
  BY <1>1, <1>2, CongOn
<1>4. Cong(x, y, m)
  BY <1>1, <1>2, <1>3, CongOn
<1>5. x >= 0 /\ x < 0 + m /\ y >= 0 /\ y < 0 + m
  BY <1>1
<1>6. x = y
  BY <1>2, <1>4, <1>5, CongUnique
<1> QED
  BY <1>6 DEF x, y

(***************************************************************************)
(* Widths.                                                                 *)
(***************************************************************************)
Sizes == {1, 2, 4, 8}
Modulus(s) == Pow2[Bits[s]]
Half(s) == Pow2[Bits[s] - 1]

LEMMA Widths ==
  ASSUME NEW s \in Sizes
  PROVE  /\ Modulus(s) \in Nat /\ Half(s) \in Nat /\ Half(s) >= 2
         /\ Modulus(s) = 2 * Half(s) /\ Modulus(s) > 0
<1>1. /\ Bits[s] \in 1..Bits[8] /\ Bits[s] - 1 \in 1..Bits[8] /\ Bits[s] - 1 \in 0..Bits[8]
      /\ (Bits[s] - 1) - 1 \in 0..Bits[8] /\ Bits[8] \in Nat
  BY BitsType DEF Sizes
<1>2. Pow2[Bits[s]] = 2 * Pow2[Bits[s] - 1]
  BY <1>1, Pow2Is
<1>3. Pow2[Bits[s] - 1] = 2 * Pow2[(Bits[s] - 1) - 1]
  BY <1>1, Pow2Is
<1>4. Pow2[(Bits[s] - 1) - 1] \in Nat /\ Pow2[(Bits[s] - 1) - 1] > 0
  BY <1>1, Pow2Is
<1> QED
  BY <1>2, <1>3, <1>4 DEF Modulus, Half

\* All that an object can hold fits into the lower half of a larger one.
LEMMA Wider ==
  ASSUME NEW s \in Sizes, NEW t \in Sizes, s < t
  PROVE  \E c \in Nat : c > 0 /\ Half(t) = Modulus(s) * c
<1>1. Bits[s] \in 0..Bits[8] /\ Bits[t] - 1 \in Bits[s]..Bits[8]
  BY BitsAssumption DEF Sizes
<1> QED
  BY <1>1, Pow2Divides DEF Modulus, Half

LEMMA HalfHolds ==
  ASSUME NEW s \in Sizes, NEW t \in Sizes, s < t
  PROVE  Modulus(s) <= Half(t)
<1>1. PICK c \in Nat : c > 0 /\ Half(t) = Modulus(s) * c
  BY Wider
<1>2. Modulus(s) \in Nat
  BY Widths
<1> DEFINE m == Modulus(s)
<1> HIDE DEF m
<1>3. m \in Nat /\ m * c >= m
  BY <1>1, <1>2 DEF m
<1> QED
  BY <1>1, <1>3 DEF m

LEMMA CongNarrow ==
  ASSUME NEW s \in Sizes, NEW t \in Sizes, s <= t,
         NEW a \in Int, NEW b \in Int, Cong(a, b, Modulus(t))
  PROVE  Cong(a, b, Modulus(s))
<1>1. CASE s = t
  BY <1>1
<1>2. CASE s # t
  <2>1. s < t
    BY <1>2 DEF Sizes
  <2>2. PICK c \in Nat : Half(t) = Modulus(s) * c
    BY <2>1, Wider
  <2>3. Modulus(t) = 2 * Half(t) /\ Modulus(s) \in Int
    BY Widths
  <2> DEFINE m == Modulus(s)
  <2> HIDE DEF m
  <2>4. m \in Int /\ Modulus(t) = m * (2 * c) /\ 2 * c \in Int
    BY <2>2, <2>3 DEF m
  <2>5. Cong(a, b, m * (2 * c))
    BY <2>4
  <2> QED
    BY <2>4, <2>5, CongFactor DEF m
<1> QED
  BY <1>1, <1>2

LEMMA WrapIs ==
  ASSUME NEW n \in Int, NEW s \in Sizes
  PROVE  /\ Wrap(n, s) \in 0..(Modulus(s) - 1) /\ Wrap(n, s) \in Nat
         /\ Cong(Wrap(n, s), n, Modulus(s))
<1>1. Modulus(s) \in Nat /\ Modulus(s) > 0 /\ Wrap(n, s) = n % Modulus(s)
  BY Widths DEF Wrap, Modulus
<1> QED
  BY <1>1, DivMod, CongMod

LEMMA WrapUnique ==
  ASSUME NEW n \in Int, NEW s \in Sizes, NEW v \in 0..(Modulus(s) - 1), Cong(n, v, Modulus(s))
  PROVE  Wrap(n, s) = v
<1> DEFINE m == Modulus(s)
           w == Wrap(n, s)
<1>1. m \in Nat /\ m > 0
  BY Widths
<1>2. w \in 0..(m - 1) /\ w \in Nat /\ Cong(w, n, m)
  BY WrapIs
<1> HIDE DEF w
<1>3. Cong(n, v, m)
  OBVIOUS
<1>4. v \in 0..(m - 1)
  OBVIOUS
<1> HIDE DEF m
<1>5. Cong(w, v, m) /\ v \in Int
  BY <1>1, <1>2, <1>3, <1>4, CongOn
<1>6. w >= 0 /\ w < 0 + m /\ v >= 0 /\ v < 0 + m
  BY <1>1, <1>2, <1>4
<1>7. w = v
  BY <1>1, <1>2, <1>5, <1>6, CongUnique
<1> QED
  BY <1>7 DEF w

LEMMA SignedIs ==
  ASSUME NEW n \in Int, NEW s \in Sizes
  PROVE  /\ Signed(n, s) \in -Half(s)..(Half(s) - 1) /\ Signed(n, s) \in Int
         /\ Cong(Signed(n, s), n, Modulus(s))
<1> DEFINE m == Modulus(s)
           h == Half(s)
           u == Wrap(n, s)
<1>1. m \in Nat /\ h \in Nat /\ m = 2 * h /\ m > 0
  BY Widths
<1>2. u \in 0..(m - 1) /\ u \in Nat /\ Cong(u, n, m)
  BY WrapIs
<1>3. Signed(n, s) = IF u < h THEN u ELSE u - m
  BY DEF Signed, Modulus, Half
<1> HIDE DEF m, h, u
<1>4. CASE u < h
  BY <1>1, <1>2, <1>3, <1>4 DEF m, h
<1>5. CASE ~(u < h)
  <2>1. Signed(n, s) = u - m /\ u - m \in -h..(h - 1) /\ u - m \in Int
    BY <1>1, <1>2, <1>3, <1>5
  <2>2. u - m = u + m * (-1) /\ -1 \in Int
    BY <1>1, <1>2
  <2>3. Cong(u - m, u, m)
    BY <2>2 DEF Cong
  <2>4. Cong(u - m, n, m)
    BY <1>1, <1>2, <2>1, <2>3, CongOn
  <2> QED
    BY <2>1, <2>4 DEF m, h
<1> QED
  BY <1>4, <1>5

LEMMA SignedUnique ==
  ASSUME NEW n \in Int, NEW s \in Sizes, NEW v \in -Half(s)..(Half(s) - 1), Cong(n, v, Modulus(s))
  PROVE  Signed(n, s) = v
<1> DEFINE m == Modulus(s)
           h == Half(s)
           w == Signed(n, s)
<1>1. m \in Nat /\ m > 0 /\ h \in Nat /\ m = 2 * h
  BY Widths
<1>2. w \in -h..(h - 1) /\ w \in Int /\ Cong(w, n, m)
  BY SignedIs
<1> HIDE DEF w
<1>3. Cong(n, v, m)
  OBVIOUS
<1>4. v \in -h..(h - 1)
  OBVIOUS
<1> HIDE DEF m, h
<1>5. Cong(w, v, m) /\ v \in Int
  BY <1>1, <1>2, <1>3, <1>4, CongOn
<1>6. w >= -h /\ w < (-h) + m /\ v >= -h /\ v < (-h) + m /\ -h \in Int
  BY <1>1, <1>2, <1>4
<1>7. w = v
  BY <1>1, <1>2, <1>5, <1>6, CongUnique
<1> QED
  BY <1>7 DEF w

(***************************************************************************)
(* The values of a type.                                                   *)
(***************************************************************************)
Vals(t) ==
  IF t = "bool" THEN {0, 1}
  ELSE IF IsUnsigned(t) THEN 0..(Modulus(Size(t)) - 1)
  ELSE -Half(Size(t))..(Half(Size(t)) - 1)

\* The width of a register that holds a t.
RegSize(t) == IF Size(t) <= 4 THEN 4 ELSE 8

LEMMA SizeType ==
  ASSUME NEW t \in Types
  PROVE  /\ Size(t) \in Sizes /\ RegSize(t) \in {4, 8} /\ RegSize(t) \in Sizes
         /\ Size(t) <= RegSize(t) /\ RegSize(t) = Size(Promote(t)) /\ Promote(t) \in Types
         /\ IsUnsigned(t) => t # "bool"
         /\ Size(t) \in Int /\ RegSize(t) \in Int
         /\ Size(t) >= 4 => Size(t) = RegSize(t)
  BY DEF Types, Size, Sizes, RegSize, Promote, IsUnsigned

LEMMA ValsInt ==
  ASSUME NEW t \in Types, NEW v \in Vals(t)
  PROVE  /\ v \in Int
         /\ v \in -Half(Size(t))..(Modulus(Size(t)) - 1)
<1>1. Size(t) \in Sizes
  BY SizeType
<1> DEFINE m == Modulus(Size(t))
           h == Half(Size(t))
<1>2. m \in Nat /\ h \in Nat /\ m = 2 * h /\ h >= 2
  BY <1>1, Widths
<1>3. v \in IF t = "bool" THEN {0, 1} ELSE IF IsUnsigned(t) THEN 0..(m - 1) ELSE -h..(h - 1)
  BY DEF Vals
<1> HIDE DEF m, h
<1>4. CASE t = "bool"
  BY <1>2, <1>3, <1>4 DEF m, h
<1>5. CASE t # "bool" /\ IsUnsigned(t)
  BY <1>2, <1>3, <1>5 DEF m, h
<1>6. CASE t # "bool" /\ ~IsUnsigned(t)
  BY <1>2, <1>3, <1>6 DEF m, h
<1> QED
  BY <1>4, <1>5, <1>6

LEMMA AsIs ==
  ASSUME NEW n \in Int, NEW t \in Types
  PROVE  /\ As(n, t) \in Int /\ Cong(As(n, t), n, Modulus(Size(t)))
         /\ t # "bool" => As(n, t) \in Vals(t)
<1>1. Size(t) \in Sizes /\ (IsUnsigned(t) => t # "bool")
  BY SizeType
<1>2. CASE IsUnsigned(t)
  <2>1. As(n, t) = Wrap(n, Size(t)) /\ Vals(t) = 0..(Modulus(Size(t)) - 1)
    BY <1>1, <1>2 DEF As, Vals
  <2> QED
    BY <1>1, <2>1, WrapIs
<1>3. CASE ~IsUnsigned(t)
  <2>1. /\ As(n, t) = Signed(n, Size(t))
        /\ t # "bool" => Vals(t) = -Half(Size(t))..(Half(Size(t)) - 1)
    BY <1>3 DEF As, Vals
  <2> QED
    BY <1>1, <2>1, SignedIs
<1> QED
  BY <1>2, <1>3

\* Reading a value's low bits gives the value.
LEMMA AsUnique ==
  ASSUME NEW n \in Int, NEW t \in Types, NEW v \in Vals(t), Cong(n, v, Modulus(Size(t)))
  PROVE  As(n, t) = v
<1>1. Size(t) \in Sizes /\ (IsUnsigned(t) => t # "bool")
  BY SizeType
<1>2. CASE IsUnsigned(t)
  <2>1. As(n, t) = Wrap(n, Size(t)) /\ v \in 0..(Modulus(Size(t)) - 1)
    BY <1>1, <1>2 DEF As, Vals
  <2> QED
    BY <1>1, <2>1, WrapUnique
<1>3. CASE ~IsUnsigned(t)
  <2>1. As(n, t) = Signed(n, Size(t))
    BY <1>3 DEF As
  <2>2. v \in -Half(Size(t))..(Half(Size(t)) - 1)
    <3>1. CASE t = "bool"
      <4>1. v \in {0, 1} /\ Half(Size(t)) \in Nat /\ Half(Size(t)) >= 2
        BY <1>1, <3>1, Widths DEF Vals
      <4> QED
        BY <4>1
    <3>2. CASE t # "bool"
      BY <1>3, <3>2 DEF Vals
    <3> QED
      BY <3>1, <3>2
  <2> QED
    BY <1>1, <2>1, <2>2, SignedUnique
<1> QED
  BY <1>2, <1>3

LEMMA ConvertedIs ==
  ASSUME NEW n \in Int, NEW t \in Types
  PROVE  /\ Converted(n, t) \in Vals(t) /\ Converted(n, t) \in Int
         /\ t # "bool" => Cong(Converted(n, t), n, Modulus(Size(t)))
         /\ n \in Vals(t) => Converted(n, t) = n
<1>1. CASE t = "bool"
  BY <1>1 DEF Converted, Bool, Vals
<1>2. CASE t # "bool"
  <2>1. Converted(n, t) = As(n, t)
    BY <1>2 DEF Converted
  <2>2. ASSUME n \in Vals(t) PROVE As(n, t) = n
    <3>1. Cong(n, n, Modulus(Size(t)))
      BY CongSame, Widths, SizeType
    <3> QED
      BY <2>2, <3>1, AsUnique
  <2> QED
    BY <1>2, <2>1, <2>2, AsIs
<1> QED
  BY <1>1, <1>2

\* Where the cast table has no entry every value of the one type is one of the other.
LEMMA CoversVals ==
  ASSUME NEW f \in Types, NEW t \in Types, t # "bool", Covers(f, t)
  PROVE  Vals(f) \subseteq Vals(t)
<1> DEFINE mf == Modulus(Size(f))
           hf == Half(Size(f))
           mt == Modulus(Size(t))
           ht == Half(Size(t))
<1>1. Size(f) \in Sizes /\ Size(t) \in Sizes
  BY SizeType
<1>2. mf \in Nat /\ hf \in Nat /\ mf = 2 * hf /\ hf >= 2 /\ mt \in Nat /\ ht \in Nat /\ mt = 2 * ht /\ ht >= 2
  BY <1>1, Widths
<1>3. Size(f) < Size(t) => mf <= ht
  BY <1>1, HalfHolds
<1>4. Size(f) = Size(t) => mf = mt /\ hf = ht
  OBVIOUS
<1>5. Vals(f) = IF f = "bool" THEN {0, 1} ELSE IF IsUnsigned(f) THEN 0..(mf - 1) ELSE -hf..(hf - 1)
  BY DEF Vals
<1>6. Vals(t) = IF IsUnsigned(t) THEN 0..(mt - 1) ELSE -ht..(ht - 1)
  BY DEF Vals
<1>7. \/ Size(f) = Size(t) /\ IsUnsigned(f) = IsUnsigned(t)
      \/ Size(f) < Size(t) /\ (IsUnsigned(f) \/ ~IsUnsigned(t))
  BY DEF Covers
<1> HIDE DEF mf, hf, mt, ht
<1>8. CASE f = "bool"
  <2>1. CASE IsUnsigned(t)
    BY <1>2, <1>5, <1>6, <1>8, <2>1
  <2>2. CASE ~IsUnsigned(t)
    BY <1>2, <1>5, <1>6, <1>8, <2>2
  <2> QED
    BY <2>1, <2>2
<1>9. CASE f # "bool" /\ IsUnsigned(f)
  <2>1. CASE IsUnsigned(t)
    BY <1>2, <1>3, <1>4, <1>5, <1>6, <1>7, <1>9, <2>1
  <2>2. CASE ~IsUnsigned(t)
    <3>1. mf <= ht
      BY <1>3, <1>7, <1>9, <2>2
    <3> QED
      BY <1>2, <1>5, <1>6, <1>9, <2>2, <3>1
  <2> QED
    BY <2>1, <2>2
<1>10. CASE f # "bool" /\ ~IsUnsigned(f)
  <2>1. ~IsUnsigned(t)
    BY <1>7, <1>10
  <2>2. hf <= ht
    BY <1>2, <1>3, <1>4, <1>7
  <2> QED
    BY <1>2, <1>5, <1>6, <1>10, <2>1, <2>2
<1> QED
  BY <1>8, <1>9, <1>10

LEMMA PromotedVals ==
  ASSUME NEW t \in Types
  PROVE  Vals(t) \subseteq Vals(Promote(t))
<1>1. CASE t = "enum"
  <2>1. Promote(t) = "int" /\ Size("enum") = 4 /\ Size("int") = 4 /\ ~IsUnsigned("enum") /\ ~IsUnsigned("int")
    BY <1>1 DEF Promote, Size, IsUnsigned
  <2> QED
    BY <1>1, <2>1 DEF Vals
<1>2. CASE t # "enum"
  <2>1. Promote(t) # "bool" /\ (Promote(t) = t \/ Covers(t, Promote(t))) /\ Promote(t) \in Types
    BY <1>2 DEF Promote, Covers, Types, Size, IsUnsigned
  <2> QED
    BY <2>1, CoversVals
<1> QED
  BY <1>1, <1>2

\* A register holds zero only for the value zero.
LEMMA ZeroOnly ==
  ASSUME NEW t \in Types, NEW v \in Vals(t), NEW s \in Sizes, Size(t) <= s,
         Cong(0, v, Modulus(s))
  PROVE  v = 0
<1>1. 0 \in Vals(t)
  <2>1. Half(Size(t)) \in Nat /\ Half(Size(t)) >= 2 /\ Modulus(Size(t)) \in Nat /\ Modulus(Size(t)) = 2 * Half(Size(t))
    BY SizeType, Widths
  <2> QED
    BY <2>1 DEF Vals
<1>2. Size(t) \in Sizes /\ v \in Int
  BY SizeType, ValsInt
<1>3. Cong(0, v, Modulus(Size(t)))
  BY <1>2, CongNarrow
<1>4. As(0, t) = v
  BY <1>3, AsUnique
<1>5. Cong(0, 0, Modulus(Size(t)))
  BY <1>2, CongSame, Widths
<1>6. As(0, t) = 0
  BY <1>1, <1>5, AsUnique
<1> QED
  BY <1>4, <1>6

(***************************************************************************)
(* What a register and a constant know of a value.                         *)
(***************************************************************************)

\* The register r holds the value v of type t: on 32 or 64 bits, the rest being
\* unknown but for an enum, whose users take it for a long.
InReg(r, t, v) ==
  /\ v \in Vals(t)
  /\ r \in 0..(Modulus(8) - 1)
  /\ Cong(r, v, Modulus(RegSize(t)))
  /\ t = "enum" => Cong(r, v, Modulus(8))

\* The i64 n stands for it.
InConst(n, t, v) == n \in Int /\ Cong(n, v, Modulus(RegSize(t)))

LEMMA InRegFacts ==
  ASSUME NEW t \in Types, NEW r, NEW v, InReg(r, t, v)
  PROVE  /\ r \in Int /\ v \in Int /\ v \in Vals(t)
         /\ \A s \in Sizes : s <= RegSize(t) => Cong(r, v, Modulus(s))
<1>1. r \in Int /\ v \in Int
  BY ValsInt DEF InReg
<1>2. RegSize(t) \in Sizes
  BY SizeType
<1> QED
  BY <1>1, <1>2, CongNarrow DEF InReg

LEMMA InConstFacts ==
  ASSUME NEW t \in Types, NEW n, NEW v \in Vals(t), InConst(n, t, v)
  PROVE  /\ n \in Int /\ v \in Int
         /\ \A s \in Sizes : s <= RegSize(t) => Cong(n, v, Modulus(s))
<1>1. n \in Int /\ v \in Int
  BY ValsInt DEF InConst
<1>2. RegSize(t) \in Sizes
  BY SizeType
<1> QED
  BY <1>1, <1>2, CongNarrow DEF InConst

\* A register of any width is one of 64 bits.
LEMMA WrapFits ==
  ASSUME NEW n \in Int, NEW s \in Sizes
  PROVE  Wrap(n, s) \in 0..(Modulus(8) - 1) /\ Modulus(s) <= Modulus(8)
<1>1. 8 \in Sizes /\ (s = 8 \/ s < 8)
  BY DEF Sizes
<1>2. Modulus(8) = 2 * Half(8) /\ Half(8) \in Nat /\ Modulus(s) \in Nat
  BY <1>1, Widths
<1>3. s < 8 => Modulus(s) <= Half(8)
  BY <1>1, HalfHolds
<1>4. Wrap(n, s) \in 0..(Modulus(s) - 1)
  BY WrapIs
<1>5. Modulus(s) <= Modulus(8)
  BY <1>1, <1>2, <1>3
<1> QED
  BY <1>1, <1>2, <1>4, <1>5

LEMMA SizesOrder ==
  /\ 1 \in Sizes /\ 2 \in Sizes /\ 4 \in Sizes /\ 8 \in Sizes
  /\ \A s \in Sizes : s <= 8 /\ s \in Nat
  BY DEF Sizes

\* A register with the right 64 bits holds the value, whatever its type.
LEMMA InWhole ==
  ASSUME NEW t \in Types, NEW v \in Vals(t), NEW r \in 0..(Modulus(8) - 1), Cong(r, v, Modulus(8))
  PROVE  InReg(r, t, v)
<1>1. Cong(r, v, Modulus(RegSize(t)))
  BY SizeType, ValsInt, SizesOrder, CongNarrow
<1> QED
  BY <1>1 DEF InReg

\* The right bits of a type that is no enum are enough.
LEMMA InHalf ==
  ASSUME NEW t \in Types, t # "enum", NEW v \in Vals(t), NEW n \in Int,
         Cong(n, v, Modulus(RegSize(t))), NEW s \in Sizes, s >= RegSize(t)
  PROVE  InReg(Wrap(n, s), t, v)
<1>1. RegSize(t) \in Sizes /\ v \in Int
  BY SizeType, ValsInt
<1>2. Wrap(n, s) \in 0..(Modulus(8) - 1) /\ Wrap(n, s) \in Int /\ Cong(Wrap(n, s), n, Modulus(s))
  BY WrapFits, WrapIs
<1>3. Cong(Wrap(n, s), n, Modulus(RegSize(t)))
  BY <1>1, <1>2, CongNarrow
<1>4. Cong(Wrap(n, s), v, Modulus(RegSize(t)))
  <2>1. Modulus(RegSize(t)) \in Int
    BY <1>1, Widths
  <2> QED
    BY <1>1, <1>2, <1>3, <2>1, CongOn
<1> QED
  BY <1>2, <1>4 DEF InReg

LEMMA BoolInReg ==
  ASSUME NEW b, NEW t \in {"bool", "int"}
  PROVE  InReg(Bool(b), t, Bool(b)) /\ Bool(b) \in Int /\ InConst(Bool(b), t, Bool(b))
<1>1. Bool(b) \in {0, 1} /\ Bool(b) \in Int
  BY DEF Bool
<1>2. t \in Types
  BY DEF Types
<1>3. Bool(b) \in Vals(t)
  <2>1. 4 \in Sizes
    BY SizesOrder
  <2>2. Half(4) \in Nat /\ Half(4) >= 2
    BY <2>1, Widths
  <2>3. Size("int") = 4 /\ ~IsUnsigned("int")
    BY DEF Size, IsUnsigned
  <2>4. Vals(t) = IF t = "bool" THEN {0, 1} ELSE -Half(4)..(Half(4) - 1)
    BY <2>3 DEF Vals
  <2>5. \A x \in {0, 1} : x \in -Half(4)..(Half(4) - 1)
    BY <2>2
  <2> QED
    BY <1>1, <2>4, <2>5
<1>4. Bool(b) \in 0..(Modulus(8) - 1)
  <2>1. Modulus(8) \in Nat /\ Modulus(8) >= 4
    BY Widths, SizesOrder
  <2> QED
    BY <1>1, <2>1
<1>5. \A s \in Sizes : Cong(Bool(b), Bool(b), Modulus(s))
  BY <1>1, CongSame, Widths
<1> QED
  BY <1>1, <1>2, <1>3, <1>4, <1>5, SizesOrder, SizeType DEF InReg, InConst

LEMMA ZeroTest ==
  ASSUME NEW t \in Types, NEW r, NEW v, InReg(r, t, v)
  PROVE  IsZero(r, t) <=> v = 0
<1> DEFINE s == RegSize(t)
           w == Wrap(r, s)
<1>1. s \in Sizes /\ Size(t) <= s
  BY SizeType
<1>2. r \in Int /\ v \in Int /\ v \in Vals(t) /\ Cong(r, v, Modulus(s))
  BY InRegFacts DEF InReg
<1>3. IsZero(r, t) <=> w = 0
  BY DEF IsZero, RegSize
<1>4. w \in Nat /\ Cong(w, r, Modulus(s)) /\ Modulus(s) \in Nat /\ Modulus(s) > 0
  BY <1>1, <1>2, WrapIs, Widths
<1>5. Cong(w, v, Modulus(s))
  BY <1>2, <1>4, CongOn
<1>6. ASSUME v = 0 PROVE w = 0
  <2>1. 0 \in 0..(Modulus(s) - 1) /\ Cong(r, 0, Modulus(s))
    BY <1>2, <1>4, <1>6
  <2> QED
    BY <1>1, <1>2, <2>1, WrapUnique
<1>7. ASSUME w = 0 PROVE v = 0
  BY <1>1, <1>2, <1>5, <1>7, ZeroOnly
<1> QED
  BY <1>3, <1>6, <1>7

\* Types by their names.
LEMMA TypeNames ==
  /\ \A t \in Types : /\ Size(t) = 8 <=> t \in {"long", "ulong"}
                      /\ Size(t) = 4 <=> t \in {"int", "uint", "enum"}
                      /\ Size(t) < 4 <=> t \in {"bool", "char", "uchar", "short", "ushort"}
                      /\ Size(t) < 4 \/ Size(t) = 4 \/ Size(t) = 8
                      /\ RegSize(t) = 8 <=> t \in {"long", "ulong"}
                      /\ RegSize(t) = 4 <=> t \notin {"long", "ulong"}
  /\ \A t \in Types : TypeId(t) \in Types /\ (t \notin {"bool", "enum"} => TypeId(t) = t)
  /\ TypeId("bool") = "uchar" /\ TypeId("enum") = "long" /\ Size("uchar") = 1 /\ Size("long") = 8
  BY DEF Types, Size, TypeId, RegSize

\* A conversion in a register, by the cast table, is the conversion of the value.
LEMMA CastReg ==
  ASSUME NEW from \in Types, NEW to \in Types, NEW r, NEW v, InReg(r, from, v),
         to = "enum" => from \notin {"uint", "long", "ulong"}
  PROVE  InReg(cast_type(from, to, r), to, Converted(v, to))
<1> DEFINE f == TypeId(from)
           t == TypeId(to)
           w == Converted(v, to)
           c == cast_type(from, to, r)
<1>1. /\ r \in Int /\ v \in Int /\ v \in Vals(from) /\ r \in 0..(Modulus(8) - 1)
      /\ \A s \in Sizes : s <= RegSize(from) => Cong(r, v, Modulus(s))
  BY InRegFacts DEF InReg
<1>2. w \in Vals(to) /\ w \in Int /\ (to # "bool" => Cong(w, v, Modulus(Size(to))))
  BY <1>1, ConvertedIs
<1>3. to # "bool" => w = As(v, to)
  BY DEF Converted
<1>4. c = CASE to = "bool" -> Bool(~IsZero(r, from))
            [] to # "bool" /\ Size(t) < 4 -> IF Covers(f, t) THEN r ELSE Wrap(As(r, t), 4)
            [] to # "bool" /\ Size(t) = 4 -> r
            [] to # "bool" /\ Size(t) = 8 ->
                 IF Size(f) = 8 THEN r
                 ELSE IF f = "uint" THEN Wrap(r, 4) ELSE Wrap(Signed(r, 4), 8)
  BY DEF cast_type
<1>5. \A s \in Sizes : Modulus(s) \in Int /\ Modulus(s) > 0
  BY Widths
<1>6. 4 \in Sizes /\ 8 \in Sizes /\ Size(to) \in Sizes /\ RegSize(from) \in {4, 8}
  BY SizeType, SizesOrder
<1>7. Cong(r, v, Modulus(4))
  BY <1>1, <1>6
<1> HIDE DEF c, w
<1>8. CASE to = "bool"
  <2>1. c = Bool(v # 0) /\ w = Bool(v # 0)
    BY <1>4, <1>8, ZeroTest DEF w, Converted
  <2> QED
    BY <1>8, <2>1, BoolInReg DEF c, w
<1>9. CASE to # "bool" /\ Size(to) < 4
  <2>1. t = to /\ to # "enum" /\ RegSize(to) = 4
    BY <1>9, TypeNames
  <2>2. CASE Covers(f, to)
    <3>1. Size(f) <= Size(to)
      <4>1. Size(f) \in Int /\ Size(to) \in Int
        BY TypeNames, SizeType
      <4> QED
        BY <2>2, <4>1 DEF Covers
    <3>2. from # "enum" /\ Vals(from) \subseteq Vals(f)
      <4>1. Size(f) # 8
        <5>1. Size(f) \in Int /\ Size(to) \in Int
          BY TypeNames, SizeType
        <5> QED
          BY <1>9, <3>1, <5>1
      <4>2. from # "enum"
        BY <4>1, TypeNames
      <4>3. CASE from = "bool"
        <5>1. f = "uchar" /\ IsUnsigned("uchar") /\ Modulus(1) \in Nat /\ Modulus(1) >= 2
          BY <4>3, TypeNames, Widths, SizesOrder DEF IsUnsigned
        <5> QED
          BY <4>3, <5>1, TypeNames DEF Vals
      <4> QED
        BY <4>2, <4>3, TypeNames
    <3>3. f \in Types /\ Vals(f) \subseteq Vals(to)
      BY <1>9, <2>2, TypeNames, CoversVals
    <3>4. w = v
      BY <1>1, <3>2, <3>3, ConvertedIs DEF w
    <3>5. c = r
      BY <1>4, <1>9, <2>1, <2>2
    <3> QED
      BY <1>1, <1>2, <1>7, <2>1, <3>4, <3>5 DEF InReg, c, w
  <2>3. CASE ~Covers(f, to)
    <3>1. c = Wrap(As(r, to), 4)
      BY <1>4, <1>9, <2>1, <2>3
    <3>2. Cong(r, w, Modulus(Size(to)))
      <4>1. Cong(r, v, Modulus(Size(to)))
        <5>1. Size(to) \in Int /\ Size(to) <= RegSize(from)
          BY <1>6, <1>9, SizeType
        <5> QED
          BY <1>1, <1>6, <5>1
      <4>2. Cong(v, w, Modulus(Size(to)))
        BY <1>1, <1>2, <1>5, <1>6, <1>9, CongBack
      <4> QED
        BY <1>1, <1>2, <1>5, <1>6, <4>1, <4>2, CongOn
    <3>3. As(r, to) = w
      BY <1>1, <1>2, <3>2, AsUnique
    <3>4. Cong(w, w, Modulus(4))
      BY <1>2, <1>5, <1>6, CongSame
    <3>5. InReg(Wrap(w, 4), to, w)
      BY <1>2, <1>6, <2>1, <3>4, InHalf
    <3> QED
      BY <3>1, <3>3, <3>5 DEF c, w
  <2> QED
    BY <2>2, <2>3
<1>10. CASE to \in {"int", "uint"}
  <2>1. t = to /\ to # "enum" /\ to # "bool" /\ RegSize(to) = 4 /\ Size(to) = 4
    BY <1>10, TypeNames
  <2>2. c = r
    BY <1>4, <2>1
  <2>3. Cong(v, w, Modulus(4))
    BY <1>1, <1>2, <1>5, <1>6, <2>1, CongBack
  <2>4. Cong(r, w, Modulus(4))
    BY <1>1, <1>2, <1>5, <1>6, <1>7, <2>3, CongOn
  <2> QED
    BY <1>1, <1>2, <2>1, <2>2, <2>4 DEF InReg, c, w
<1>11. CASE to \in {"long", "ulong", "enum"}
  <2>1. to # "bool" /\ Size(t) = 8
    BY <1>11, TypeNames DEF TypeId, Size
  <2>2. Cong(v, w, Modulus(8))
    <3>1. CASE to = "enum"
      <4>1. Vals(from) \subseteq Vals(to)
        <5>1. from \notin {"uint", "long", "ulong"}
          BY <3>1
        <5>2. Promote(from) = "int"
          BY <5>1 DEF Promote, Types, Size
        <5>3. Vals("enum") = Vals("int")
          BY DEF Vals, Size, IsUnsigned
        <5> QED
          BY <3>1, <5>2, <5>3, PromotedVals
      <4>2. w = v
        BY <1>1, <4>1, ConvertedIs DEF w
      <4> QED
        BY <1>1, <1>5, <1>6, <4>2, CongSame
    <3>2. CASE to # "enum"
      <4>1. Size(to) = 8
        BY <1>11, <3>2, TypeNames
      <4> QED
        BY <1>1, <1>2, <1>5, <1>6, <2>1, <4>1, CongBack
    <3> QED
      BY <3>1, <3>2
  <2>3. CASE Size(f) = 8
    <3>1. c = r
      BY <1>4, <2>1, <2>3
    <3>2. Cong(r, v, Modulus(8))
      <4>1. from = "enum" \/ RegSize(from) = 8
        BY <2>3, TypeNames DEF TypeId, Types, Size
      <4> QED
        BY <1>1, <1>6, <4>1 DEF InReg
    <3>3. Cong(r, w, Modulus(8))
      BY <1>1, <1>2, <1>5, <1>6, <2>2, <3>2, CongOn
    <3> QED
      BY <1>1, <1>2, <3>1, <3>3, InWhole DEF c, w
  <2>4. CASE Size(f) # 8
    <3>1. from \notin {"long", "ulong", "enum"} /\ Size(from) <= 4
      <4>1. from # "enum"
        BY <2>4, TypeNames
      <4>2. from # "bool" => f = from
        BY <4>1, TypeNames
      <4>3. Size("long") = 8 /\ Size("ulong") = 8
        BY DEF Size
      <4>4. from \notin {"long", "ulong"}
        BY <2>4, <4>2, <4>3
      <4>5. Size(from) \in Int
        BY SizeType
      <4> QED
        BY <4>1, <4>4, <4>5, TypeNames
    <3>2. CASE from = "uint"
      <4>1. f = "uint" /\ c = Wrap(r, 4)
        BY <1>4, <2>1, <2>4, <3>2, TypeNames
      <4>2. v \in 0..(Modulus(4) - 1)
        BY <1>1, <3>2, TypeNames DEF Vals, IsUnsigned
      <4>3. c = v
        BY <1>1, <1>6, <1>7, <4>1, <4>2, WrapUnique
      <4>4. c \in 0..(Modulus(8) - 1)
        BY <1>1, <1>6, <4>1, WrapFits
      <4> QED
        BY <1>2, <2>2, <4>3, <4>4, InWhole DEF c, w
    <3>3. CASE from # "uint"
      <4>1. f # "uint"
        BY <3>3, TypeNames DEF TypeId
      <4>2. c = Wrap(Signed(r, 4), 8)
        BY <1>4, <2>1, <2>4, <4>1
      <4>3. v \in -Half(4)..(Half(4) - 1)
        <5>1. Promote(from) = "int"
          BY <3>1, <3>3 DEF Promote, Types, Size
        <5>2. v \in Vals("int")
          BY <1>1, <5>1, PromotedVals
        <5> QED
          BY <5>2 DEF Vals, Size, IsUnsigned
      <4>4. Signed(r, 4) = v
        BY <1>1, <1>6, <1>7, <4>3, SignedUnique
      <4>5. c \in 0..(Modulus(8) - 1) /\ c \in Int /\ Cong(c, v, Modulus(8))
        BY <1>1, <1>6, <4>2, <4>4, WrapFits, WrapIs
      <4>6. Cong(c, w, Modulus(8))
        BY <1>1, <1>2, <1>5, <1>6, <2>2, <4>5, CongOn
      <4> QED
        BY <1>2, <4>5, <4>6, InWhole DEF c, w
    <3> QED
      BY <3>2, <3>3
  <2> QED
    BY <2>3, <2>4
<1> QED
  BY <1>8, <1>9, <1>10, <1>11, TypeNames

(***************************************************************************)
(* Constants, and operands of a common type t.                             *)
(***************************************************************************)

\* The i64 n, converted to t, of an operand with the value v.
IsOperand(n, t, v) ==
  /\ v \in Vals(t)
  /\ n \in -Half(8)..(Half(8) - 1)
  /\ Cong(n, v, Modulus(8))
  /\ t # "ulong" => n = v

Promoted == {"int", "uint", "long", "ulong"}

LEMMA PromotedTypes ==
  /\ \A t \in Promoted \cup {"enum"} : /\ t \in Types /\ t # "bool" /\ Size(t) >= 4
                                       /\ Size(t) = RegSize(t) /\ Size(t) \in {4, 8} /\ Size(t) \in Sizes
  /\ \A t \in Promoted : t # "enum" /\ Promote(t) = t
  /\ "enum" \notin Promoted /\ ~IsUnsigned("enum") /\ Size("enum") = 4
  BY DEF Promoted, Types, Size, RegSize, Promote, Sizes, IsUnsigned

\* A constant's conversion, if it is exact where nothing is cut off.
LEMMA CastConst ==
  ASSUME NEW from \in Types, NEW t \in Types, NEW v \in Vals(from), NEW n, InConst(n, from, v),
         Size(t) = 8 => n = I64(v),
         t = "bool" => n \in {0, 1}
  PROVE  /\ InConst(eval_cast(t, n), t, Converted(v, t))
         /\ t \in Promoted \cup {"enum"} => IsOperand(eval_cast(t, n), t, Converted(v, t))
<1> DEFINE w == Converted(v, t)
           c == eval_cast(t, n)
<1>1. /\ n \in Int /\ v \in Int
      /\ \A s \in Sizes : s <= RegSize(from) => Cong(n, v, Modulus(s))
  BY InConstFacts
<1>2. w \in Vals(t) /\ w \in Int /\ (t # "bool" => Cong(w, v, Modulus(Size(t))))
  BY <1>1, ConvertedIs
<1>3. t # "bool" => w = As(v, t)
  BY DEF Converted
<1>4. c = IF Size(t) = 8 THEN n ELSE As(n, t)
  BY DEF eval_cast
<1>5. \A s \in Sizes : Modulus(s) \in Int /\ Modulus(s) \in Nat /\ Modulus(s) > 0
  BY Widths
<1>6. 4 \in Sizes /\ 8 \in Sizes /\ Size(t) \in Sizes /\ RegSize(t) \in Sizes /\ RegSize(from) \in {4, 8}
  BY SizeType, SizesOrder
<1>7. Half(8) \in Nat /\ Modulus(4) <= Half(8) /\ Modulus(4) = 2 * Half(4) /\ Half(4) \in Nat /\ Half(4) >= 2
  BY <1>6, Widths, HalfHolds
<1> HIDE DEF w, c
<1>8. CASE Size(t) = 8
  <2>1. /\ c = Signed(v, 8) /\ RegSize(t) = 8 /\ t \in {"long", "ulong"}
    BY <1>4, <1>8, TypeNames DEF I64
  <2>2. c \in -Half(8)..(Half(8) - 1) /\ c \in Int /\ Cong(c, v, Modulus(8))
    BY <1>1, <1>6, <2>1, SignedIs
  <2>3. Cong(v, w, Modulus(8))
    BY <1>1, <1>2, <1>5, <1>6, <1>8, <2>1, CongBack
  <2>4. Cong(c, w, Modulus(8))
    BY <1>1, <1>2, <1>5, <1>6, <2>2, <2>3, CongOn
  <2>5. t # "ulong" => c = w
    <3>1. t # "ulong" => t = "long"
      BY <2>1
    <3>2. As(v, "long") = Signed(v, 8)
      BY DEF As, IsUnsigned, Size
    <3> QED
      BY <1>3, <2>1, <3>1, <3>2
  <2> QED
    BY <1>2, <2>1, <2>2, <2>4, <2>5 DEF InConst, IsOperand, c, w
<1>9. CASE Size(t) # 8 /\ t # "bool"
  <2>1. Size(t) <= 4 /\ RegSize(t) = 4
    BY <1>9, TypeNames, SizeType
  <2>2. Cong(n, v, Modulus(Size(t)))
    BY <1>1, <1>6, <2>1, SizeType
  <2>3. Cong(v, w, Modulus(Size(t)))
    BY <1>1, <1>2, <1>5, <1>6, <1>9, CongBack
  <2>4. Cong(n, w, Modulus(Size(t)))
    BY <1>1, <1>2, <1>5, <1>6, <2>2, <2>3, CongOn
  <2>5. c = w
    BY <1>1, <1>2, <1>4, <1>9, <2>4, AsUnique
  <2>6. \A s \in Sizes : Cong(w, w, Modulus(s))
    BY <1>2, <1>5, CongSame
  <2>7. InConst(c, t, w)
    BY <1>2, <1>6, <2>5, <2>6 DEF InConst
  <2>8. ASSUME t \in Promoted \cup {"enum"}
        PROVE  w \in -Half(8)..(Half(8) - 1)
    <3>1. Size(t) = 4
      BY <1>9, <2>8, PromotedTypes
    <3>2. w \in -Half(4)..(Modulus(4) - 1)
      BY <1>2, <3>1, ValsInt
    <3> QED
      BY <1>2, <1>7, <3>2
  <2> QED
    BY <1>2, <1>6, <2>5, <2>6, <2>7, <2>8 DEF IsOperand, c, w
<1>10. CASE t = "bool"
  <2>1. n \in {0, 1} /\ Size(t) # 8 /\ t \notin Promoted \cup {"enum"}
    BY <1>10, PromotedTypes DEF Size
  <2>2. c = n
    <3>1. n \in Vals(t)
      BY <1>10, <2>1 DEF Vals
    <3>2. Cong(n, n, Modulus(Size(t)))
      BY <1>1, <1>5, <1>6, CongSame
    <3> QED
      BY <1>1, <1>4, <2>1, <3>1, <3>2, AsUnique
  <2>3. w = Bool(v # 0)
    BY <1>10 DEF w, Converted
  <2> DEFINE s == RegSize(from)
  <2>4. s \in Sizes /\ Size(from) <= s /\ Cong(n, v, Modulus(s))
    BY <1>1, SizeType DEF InConst
  <2>5. c = w
    <3>1. CASE n = 0
      <4>1. Cong(0, v, Modulus(s))
        BY <2>4, <3>1
      <4>2. v = 0
        BY <2>4, <4>1, ZeroOnly
      <4> QED
        BY <2>2, <2>3, <3>1, <4>2 DEF Bool
    <3>2. CASE n = 1
      <4>1. v # 0
        <5>1. ASSUME v = 0 PROVE FALSE
          <6>1. Cong(1, 0, Modulus(s))
            BY <2>4, <3>2, <5>1
          <6>2. Modulus(s) \in Nat /\ Modulus(s) >= 4
            BY <2>4, Widths
          <6>3. 1 >= 0 /\ 1 < 0 + Modulus(s) /\ 0 >= 0 /\ 0 < 0 + Modulus(s) /\ Modulus(s) > 0
            BY <6>2
          <6>4. 1 = 0
            BY <6>1, <6>2, <6>3, CongUnique
          <6> QED
            BY <6>4
        <5> QED
          BY <5>1
      <4> QED
        BY <2>2, <2>3, <3>2, <4>1 DEF Bool
    <3> QED
      BY <2>1, <3>1, <3>2
  <2>6. Cong(w, w, Modulus(RegSize(t)))
    BY <1>2, <1>5, <1>6, CongSame
  <2> QED
    BY <1>2, <2>1, <2>5, <2>6 DEF InConst, c, w
<1> QED
  BY <1>8, <1>9, <1>10

\* The half of the register that an instruction on type t looks at.
OpSize(t) == IF t \in {"long", "ulong"} THEN 8 ELSE 4
Extend64(a, t) == IF IsUnsigned(t) THEN a ELSE Signed(a, OpSize(t))

LEMMA OperandReg ==
  ASSUME NEW t \in Promoted \cup {"enum"}, NEW r, NEW v, InReg(r, t, v)
  PROVE  /\ OpSize(t) = Size(t) /\ Size(t) \in Sizes /\ v \in Vals(t)
         /\ v \in Int /\ r \in Int
         /\ Wrap(r, OpSize(t)) \in 0..(Modulus(Size(t)) - 1) /\ Wrap(r, OpSize(t)) \in Int
         /\ Cong(Wrap(r, OpSize(t)), v, Modulus(Size(t)))
         /\ Wrap(r, OpSize(t)) = Wrap(v, OpSize(t))
         /\ Extend64(Wrap(r, OpSize(t)), t) = v
<1> DEFINE s == OpSize(t)
           a == Wrap(r, s)
           m == Modulus(s)
<1>1. t \in Types /\ t # "bool" /\ s = Size(t) /\ s = RegSize(t) /\ s \in Sizes
  BY PromotedTypes DEF OpSize, Promoted, Size
<1>2. r \in Int /\ v \in Int /\ v \in Vals(t) /\ Cong(r, v, m)
  BY <1>1, InRegFacts DEF InReg
<1>3. a \in 0..(m - 1) /\ a \in Int /\ Cong(a, r, m) /\ m \in Nat /\ m > 0
  BY <1>1, <1>2, WrapIs, Widths
<1>4. Cong(a, v, m)
  BY <1>2, <1>3, CongOn
<1>5. a = Wrap(v, s)
  BY <1>1, <1>2, <1>3, ModOfCong DEF Wrap, Modulus
<1>6. Extend64(a, t) = v
  <2>1. CASE IsUnsigned(t)
    <3>1. v \in 0..(m - 1) /\ Extend64(a, t) = a
      BY <1>1, <1>2, <2>1 DEF Vals, Extend64
    <3>2. Wrap(r, s) = v
      BY <1>1, <1>2, <3>1, WrapUnique
    <3> QED
      BY <3>1, <3>2
  <2>2. CASE ~IsUnsigned(t)
    <3>1. v \in -Half(s)..(Half(s) - 1) /\ Extend64(a, t) = Signed(a, s)
      BY <1>1, <1>2, <2>2 DEF Vals, Extend64
    <3>2. Signed(a, s) = v
      BY <1>1, <1>3, <1>4, <3>1, SignedUnique
    <3> QED
      BY <3>1, <3>2
  <2> QED
    BY <2>1, <2>2
<1> QED
  BY <1>1, <1>2, <1>3, <1>4, <1>5, <1>6

\* What is computed modulo the width of t is right in a register and as a constant.
LEMMA Computed ==
  ASSUME NEW t \in Promoted, NEW x \in Int, NEW y \in Int, Cong(y, x, Modulus(Size(t)))
  PROVE  InReg(Wrap(y, OpSize(t)), t, As(x, t)) /\ InConst(I64(y), t, As(x, t))
<1> DEFINE s == OpSize(t)
<1>1. t \in Types /\ t # "bool" /\ t # "enum" /\ s = Size(t) /\ s = RegSize(t) /\ s \in Sizes
  BY PromotedTypes DEF OpSize, Promoted, Size
<1>2. As(x, t) \in Int /\ As(x, t) \in Vals(t) /\ Cong(As(x, t), x, Modulus(s))
  BY <1>1, AsIs
<1>3. Modulus(s) \in Int
  BY <1>1, Widths
<1>4. Cong(x, As(x, t), Modulus(s))
  BY <1>2, <1>3, CongBack
<1>5. Cong(y, As(x, t), Modulus(s))
  BY <1>1, <1>2, <1>3, <1>4, CongOn
<1>6. InReg(Wrap(y, s), t, As(x, t))
  BY <1>1, <1>2, <1>5, InHalf, SizesOrder
<1>7. I64(y) \in Int /\ Cong(I64(y), y, Modulus(8))
  BY SignedIs, SizesOrder DEF I64
<1>8. Cong(I64(y), y, Modulus(s))
  BY <1>1, <1>7, CongNarrow, SizesOrder
<1>9. Cong(I64(y), As(x, t), Modulus(s))
  BY <1>2, <1>3, <1>5, <1>7, <1>8, CongOn
<1> QED
  BY <1>1, <1>6, <1>7, <1>9 DEF InConst

\* So an operation is right if it is right modulo the width of t.
LEMMA OperandConst ==
  ASSUME NEW t \in Promoted \cup {"enum"}, NEW n, NEW v, IsOperand(n, t, v)
  PROVE  /\ n \in Int /\ v \in Int /\ v \in Vals(t)
         /\ Cong(n, v, Modulus(Size(t))) /\ Cong(n, v, Modulus(8))
         /\ U64(n) = U64(v)
         /\ IsUnsigned(t) => U64(n) = v /\ v >= 0
         /\ ~IsUnsigned(t) => n = v
<1>1. t \in Types /\ Size(t) \in Sizes /\ 8 \in Sizes /\ Size(t) <= 8
  BY PromotedTypes, SizesOrder
<1>2. v \in Vals(t) /\ v \in Int /\ n \in Int /\ Cong(n, v, Modulus(8))
  BY <1>1, ValsInt DEF IsOperand
<1>3. Cong(n, v, Modulus(Size(t)))
  BY <1>1, <1>2, CongNarrow
<1>4. Modulus(8) \in Nat /\ Modulus(8) > 0 /\ Modulus(Size(t)) <= Modulus(8) /\ Modulus(Size(t)) \in Nat
  BY <1>1, Widths, WrapFits
<1>5. U64(n) = U64(v)
  BY <1>2, <1>4, ModOfCong DEF U64, Wrap, Modulus
<1>6. ASSUME IsUnsigned(t) PROVE U64(n) = v /\ v >= 0
  <2>1. v \in 0..(Modulus(Size(t)) - 1)
    BY <1>2, <1>6, PromotedTypes DEF Vals
  <2>2. v \in 0..(Modulus(8) - 1)
    BY <1>2, <1>4, <2>1
  <2>3. Wrap(n, 8) = v
    BY <1>1, <1>2, <2>2, WrapUnique
  <2> QED
    BY <2>1, <2>3 DEF U64
<1>7. ASSUME ~IsUnsigned(t) PROVE n = v
  BY <1>7 DEF IsOperand, IsUnsigned
<1> QED
  BY <1>2, <1>3, <1>5, <1>6, <1>7

(***************************************************************************)
(* The operations, on operands of a common type t with the values L and R. *)
(***************************************************************************)

\* The code for op on the registers a and d computes what op means.
CodeRight(op, t, L, R, a, d) ==
  Meaning(op, t, L, R) # None =>
    /\ gen_binary(op, t, a, d) # None
    /\ InReg(gen_binary(op, t, a, d)[1], t, Meaning(op, t, L, R)[1])

\* And so does eval2 on the constants m and n, if it does not panic.
ConstRight(op, t, L, R, m, n) ==
  Meaning(op, t, L, R) # None /\ eval_binary(op, t, m, n) # None =>
    InConst(eval_binary(op, t, m, n)[1], t, Meaning(op, t, L, R)[1])

LEMMA SomeIs == \A x : Some(x) # None /\ Some(x)[1] = x
  BY DEF Some, None

LEMMA ResultIs ==
  ASSUME NEW n, NEW t, Result(n, t) # None
  PROVE  Result(n, t)[1] = As(n, t) /\ (~IsUnsigned(t) => As(n, t) = n)
  BY SomeIs DEF Result

LEMMA SumCode ==
  ASSUME NEW t \in Promoted, NEW a, NEW d, NEW L, NEW R, InReg(a, t, L), InReg(d, t, R)
  PROVE  /\ gen_binary("+", t, a, d) # None /\ InReg(gen_binary("+", t, a, d)[1], t, As(L + R, t))
         /\ gen_binary("-", t, a, d) # None /\ InReg(gen_binary("-", t, a, d)[1], t, As(L - R, t))
         /\ gen_binary("*", t, a, d) # None /\ InReg(gen_binary("*", t, a, d)[1], t, As(L * R, t))
<1> DEFINE s == OpSize(t)
           x == Wrap(a, s)
           y == Wrap(d, s)
<1>1. gen_binary("+", t, a, d) = Some(Wrap(x + y, s))
  BY DEF gen_binary, OpSize, Bitwises
<1>2. gen_binary("-", t, a, d) = Some(Wrap(x - y, s))
  BY DEF gen_binary, OpSize, Bitwises
<1>3. gen_binary("*", t, a, d) = Some(Wrap(x * y, s))
  BY DEF gen_binary, OpSize, Bitwises
<1> DEFINE M == Modulus(Size(t))
<1>4. x \in Int /\ y \in Int /\ L \in Int /\ R \in Int /\ Cong(x, L, M) /\ Cong(y, R, M) /\ M \in Int
  BY OperandReg, PromotedTypes, Widths
<1> HIDE DEF x, y
<1>5. Cong(x + y, L + R, M) /\ Cong(x - y, L - R, M) /\ Cong(x * y, L * R, M)
  BY <1>4, CongSum, CongProduct
<1>6. x + y \in Int /\ x - y \in Int /\ x * y \in Int /\ L + R \in Int /\ L - R \in Int /\ L * R \in Int
  BY <1>4
<1> HIDE DEF M
<1>7. /\ InReg(Wrap(x + y, s), t, As(L + R, t))
      /\ InReg(Wrap(x - y, s), t, As(L - R, t))
      /\ InReg(Wrap(x * y, s), t, As(L * R, t))
  BY <1>5, <1>6, Computed DEF M
<1> QED
  BY <1>1, <1>2, <1>3, <1>7, SomeIs

\* Sum, difference and product, which are right modulo the width whatever the sign.
LEMMA SumRight ==
  ASSUME NEW op \in {"+", "-", "*"}, NEW t \in Promoted, NEW L, NEW R
  PROVE  /\ \A a, d : InReg(a, t, L) /\ InReg(d, t, R) => CodeRight(op, t, L, R, a, d)
         /\ \A m, n : IsOperand(m, t, L) /\ IsOperand(n, t, R) => ConstRight(op, t, L, R, m, n)
<1> DEFINE x == CASE op = "+" -> L + R [] op = "-" -> L - R [] op = "*" -> L * R
<1>1. Meaning(op, t, L, R) = Result(x, t)
  BY DEF Meaning, Bitwises
<1>2. ASSUME NEW a, NEW d, InReg(a, t, L), InReg(d, t, R)
      PROVE  CodeRight(op, t, L, R, a, d)
  <2>1. gen_binary(op, t, a, d) # None /\ InReg(gen_binary(op, t, a, d)[1], t, As(x, t))
    BY <1>2, SumCode
  <2> QED
    BY <1>1, <2>1, ResultIs DEF CodeRight
<1>3. ASSUME NEW m, NEW n, IsOperand(m, t, L), IsOperand(n, t, R)
      PROVE  ConstRight(op, t, L, R, m, n)
  <2> DEFINE y == CASE op = "+" -> m + n [] op = "-" -> m - n [] op = "*" -> m * n
             M == Modulus(Size(t))
  <2>1. eval_binary(op, t, m, n) = Some(I64(y))
    BY DEF eval_binary, Bitwises
  <2>2. m \in Int /\ n \in Int /\ L \in Int /\ R \in Int /\ Cong(m, L, M) /\ Cong(n, R, M) /\ M \in Int
    BY <1>3, OperandConst, PromotedTypes, Widths
  <2> HIDE DEF M
  <2>3. Cong(m + n, L + R, M) /\ Cong(m - n, L - R, M) /\ Cong(m * n, L * R, M)
    BY <2>2, CongSum, CongProduct
  <2>4. Cong(y, x, M) /\ y \in Int /\ x \in Int
    BY <2>2, <2>3
  <2> HIDE DEF x, y
  <2>5. InConst(I64(y), t, As(x, t))
    BY <2>4, Computed DEF M
  <2> QED
    BY <1>1, <2>1, <2>5, ResultIs, SomeIs DEF ConstRight
<1> QED
  BY <1>2, <1>3

\* Division.
LEMMA QuotientType ==
  ASSUME NEW a \in Int, NEW b \in Int, b # 0
  PROVE  /\ Quotient(a, b) \in Int /\ Remainder(a, b) \in Int
         /\ a >= 0 /\ b > 0 => Quotient(a, b) = a \div b /\ Remainder(a, b) = a % b
<1>1. Abs(a) \in Nat /\ Abs(b) \in Nat /\ Abs(b) > 0
  BY DEF Abs
<1> DEFINE q == Abs(a) \div Abs(b)
<1>2. q \in Int
  BY <1>1, DivMod
<1>3. Quotient(a, b) = IF (a < 0) = (b < 0) THEN q ELSE -q
  BY DEF Quotient
<1> HIDE DEF q
<1>4. Quotient(a, b) \in Int
  BY <1>2, <1>3
<1>5. Remainder(a, b) = a - b * Quotient(a, b)
  BY DEF Remainder
<1>6. ASSUME a >= 0, b > 0
      PROVE  Quotient(a, b) = a \div b /\ Remainder(a, b) = a % b
  <2>1. Abs(a) = a /\ Abs(b) = b /\ ((a < 0) = (b < 0))
    BY <1>6 DEF Abs
  <2>2. Quotient(a, b) = a \div b
    BY <1>3, <2>1 DEF q
  <2>3. a \div b \in Int /\ a % b \in Int /\ a = b * (a \div b) + (a % b)
    BY <1>6, DivMod
  <2> DEFINE z == a \div b
             r == a % b
  <2> HIDE DEF z, r
  <2>4. z \in Int /\ r \in Int /\ a = b * z + r /\ Remainder(a, b) = a - b * z
    BY <1>5, <2>2, <2>3 DEF z, r
  <2>5. b * z \in Int
    BY <2>4
  <2>6. Remainder(a, b) = r
    BY <2>4, <2>5
  <2> QED
    BY <2>2, <2>6 DEF r
<1>7. b * Quotient(a, b) \in Int
  BY <1>4
<1> QED
  BY <1>4, <1>5, <1>6, <1>7

LEMMA AbsIs ==
  ASSUME NEW n \in Int, NEW m \in Nat, n + m = 0
  PROVE  Abs(n) = m
  BY DEF Abs

\* C leaves the one quotient that overflows undefined.
LEMMA NoOverflow ==
  ASSUME NEW t \in Promoted, ~IsUnsigned(t), Result(Quotient(-Half(Size(t)), -1), t) # None
  PROVE  FALSE
<1> DEFINE h == Half(Size(t))
           M == Modulus(Size(t))
<1>1. t \in Types /\ t # "bool" /\ Size(t) \in Sizes
  BY PromotedTypes
<1>2. h \in Nat /\ h >= 2 /\ M = 2 * h
  BY <1>1, Widths
<1>3. Vals(t) = -h..(h - 1)
  BY <1>1 DEF Vals
<1> HIDE DEF h, M
<1>4. Quotient(-h, -1) = h
  <2>1. Abs(-h) = h /\ Abs(-1) = 1 /\ h \div 1 = h
    <3>1. -1 \in Int /\ (-1) + 1 = 0 /\ -h \in Int /\ (-h) + h = 0
      BY <1>2
    <3>2. h \div 1 = h
      BY <1>2
    <3> QED
      BY <1>2, <3>1, <3>2, AbsIs
  <2>2. (-h < 0) /\ (-1 < 0)
    BY <1>2
  <2> QED
    BY <2>1, <2>2 DEF Quotient
<1>5. As(h, t) = h
  BY <1>4, ResultIs DEF h
<1>6. As(h, t) \in Vals(t)
  BY <1>1, <1>2, AsIs
<1> QED
  BY <1>2, <1>3, <1>5, <1>6

\* Quotient and remainder, which need the sign of the operands and all of their bits.
LEMMA DivisionRight ==
  ASSUME NEW op \in {"/", "%"}, NEW t \in Promoted, NEW L, NEW R
  PROVE  /\ \A a, d : InReg(a, t, L) /\ InReg(d, t, R) => CodeRight(op, t, L, R, a, d)
         /\ \A m, n : IsOperand(m, t, L) /\ IsOperand(n, t, R) => ConstRight(op, t, L, R, m, n)
<1> DEFINE f(p, q) == IF op = "/" THEN Quotient(p, q) ELSE Remainder(p, q)
           x == f(L, R)
<1>1. ASSUME Meaning(op, t, L, R) # None
      PROVE  /\ R # 0 /\ Meaning(op, t, L, R) = Result(x, t)
             /\ Result(Quotient(L, R), t) # None
  BY <1>1 DEF Meaning, Bitwises
<1>2. ASSUME NEW a, NEW d, InReg(a, t, L), InReg(d, t, R), Meaning(op, t, L, R) # None
      PROVE  /\ gen_binary(op, t, a, d) # None
             /\ InReg(gen_binary(op, t, a, d)[1], t, Meaning(op, t, L, R)[1])
  <2> DEFINE s == OpSize(t)
             u == Wrap(a, s)
             w == Wrap(d, s)
             su == Extend64(u, t)
             sw == Extend64(w, t)
             traps == w = 0 \/ (~IsUnsigned(t) /\ su = -Half(s) /\ sw = -1)
  <2>1. gen_binary(op, t, a, d) = IF traps THEN None ELSE Some(Wrap(f(su, sw), s))
    BY DEF gen_binary, OpSize, Extend64, Half, Bitwises
  <2>2. /\ L \in Int /\ R \in Int /\ R \in Vals(t) /\ s = Size(t) /\ s \in Sizes /\ su = L /\ sw = R
        /\ Cong(w, R, Modulus(s))
    BY <1>2, OperandReg
  <2>3. R # 0 /\ Meaning(op, t, L, R) = Result(x, t) /\ Result(Quotient(L, R), t) # None
    BY <1>1, <1>2
  <2>4. w # 0
    <3>1. t \in Types /\ Size(t) <= s
      BY <2>2, PromotedTypes
    <3> QED
      BY <2>2, <2>3, <3>1, ZeroOnly
  <2>5. ~traps
    BY <2>2, <2>3, <2>4, NoOverflow
  <2>6. x \in Int
    BY <2>2, <2>3, QuotientType
  <2>7. Cong(x, x, Modulus(Size(t)))
    BY <2>2, <2>6, CongSame, Widths
  <2>8. gen_binary(op, t, a, d) = Some(Wrap(x, s))
    BY <2>1, <2>2, <2>5
  <2> HIDE DEF x
  <2>9. InReg(Wrap(x, s), t, As(x, t))
    BY <2>6, <2>7, Computed
  <2>10. Meaning(op, t, L, R)[1] = As(x, t)
    BY <1>2, <2>3, ResultIs
  <2> QED
    BY <2>8, <2>9, <2>10, SomeIs
<1>3. ASSUME NEW m, NEW n, IsOperand(m, t, L), IsOperand(n, t, R),
             Meaning(op, t, L, R) # None, eval_binary(op, t, m, n) # None
      PROVE  InConst(eval_binary(op, t, m, n)[1], t, Meaning(op, t, L, R)[1])
  <2> DEFINE y == IF op = "/" THEN IF IsUnsigned(t) THEN U64(m) \div U64(n) ELSE Quotient(m, n)
                  ELSE IF IsUnsigned(t) THEN U64(m) % U64(n) ELSE Remainder(m, n)
  <2>1. eval_binary(op, t, m, n) = Some(I64(y))
    BY <1>3 DEF eval_binary, Bitwises
  <2>2. /\ L \in Int /\ R \in Int /\ Size(t) \in Sizes
        /\ IsUnsigned(t) => U64(m) = L /\ U64(n) = R /\ L >= 0 /\ R >= 0
        /\ ~IsUnsigned(t) => m = L /\ n = R
    BY <1>3, OperandConst, PromotedTypes
  <2>3. R # 0 /\ Meaning(op, t, L, R) = Result(x, t) /\ Result(Quotient(L, R), t) # None
    BY <1>1, <1>3
  <2>4. y = x /\ x \in Int
    <3>1. x \in Int
      BY <2>2, <2>3, QuotientType
    <3>2. CASE IsUnsigned(t)
      <4>1. R > 0
        BY <2>2, <2>3, <3>2
      <4>2. Quotient(L, R) = L \div R /\ Remainder(L, R) = L % R
        BY <2>2, <2>3, <3>2, <4>1, QuotientType
      <4> QED
        BY <2>2, <3>1, <3>2, <4>2
    <3>3. CASE ~IsUnsigned(t)
      BY <2>2, <3>1, <3>3
    <3> QED
      BY <3>2, <3>3
  <2> HIDE DEF x, y
  <2>5. Cong(x, x, Modulus(Size(t)))
    BY <2>2, <2>4, CongSame, Widths
  <2>6. InConst(I64(x), t, As(x, t))
    BY <2>4, <2>5, Computed
  <2>7. Meaning(op, t, L, R)[1] = As(x, t)
    BY <1>3, <2>3, ResultIs
  <2> QED
    BY <2>1, <2>4, <2>6, <2>7, SomeIs
<1> QED
  BY <1>2, <1>3 DEF CodeRight, ConstRight

\* Shifts.  A count in range is a value of every promoted type, and is what the
\* instruction finds in the low bits of the register.
LEMMA CountIs ==
  ASSUME NEW t \in Promoted, NEW R \in 0..(Bits[Size(t)] - 1)
  PROVE  /\ R \in 0..(Bits[8] - 1) /\ R \in 0..Bits[8] /\ R \in Vals(t) /\ R \in -Half(8)..(Half(8) - 1)
         /\ Pow2[R] \in Nat /\ Pow2[R] > 0
<1>1. t \in Types /\ Size(t) \in Sizes /\ Size(t) \in {1, 2, 4, 8} /\ t # "bool" /\ 8 \in Sizes
  BY PromotedTypes, SizesOrder DEF Sizes
<1> DEFINE b == Bits[Size(t)]
           B == Bits[8]
<1>2. b \in 2..B /\ B \in Nat /\ b - 1 \in 0..B /\ B - 1 \in 0..B
  BY <1>1, BitsType
<1>3. b - 1 < Pow2[b - 1] /\ B - 1 < Pow2[B - 1]
  BY <1>2, BelowPow2
<1> DEFINE h == Half(Size(t))
           M == Modulus(Size(t))
           H == Half(8)
<1>4. h = Pow2[b - 1] /\ H = Pow2[B - 1]
  BY DEF Half
<1>5. h \in Nat /\ H \in Nat /\ M = 2 * h
  BY <1>1, Widths
<1>6. Vals(t) = IF IsUnsigned(t) THEN 0..(M - 1) ELSE -h..(h - 1)
  BY <1>1 DEF Vals
<1>7. R \in 0..B
  BY <1>2
<1>8. Pow2[R] \in Nat /\ Pow2[R] > 0
  BY <1>7, Pow2Is
<1>10. R \in 0..(b - 1)
  OBVIOUS
<1> HIDE DEF h, M, H, b, B
<1>9. R \in 0..(B - 1) /\ R < h /\ R < H /\ R \in Nat
  BY <1>2, <1>3, <1>4, <1>5, <1>10
<1>11. R \in Vals(t)
  BY <1>5, <1>6, <1>9
<1>12. R \in -H..(H - 1)
  BY <1>5, <1>9
<1> QED
  BY <1>7, <1>8, <1>9, <1>11, <1>12 DEF B, H

LEMMA CountReg ==
  ASSUME NEW t \in Promoted, NEW R \in 0..(Bits[Size(t)] - 1), NEW d, InReg(d, t, R)
  PROVE  d % Bits[OpSize(t)] = R
<1>1. /\ t \in Types /\ OpSize(t) = Size(t) /\ RegSize(t) = Size(t) /\ Size(t) \in {4, 8}
      /\ 8 \in Sizes /\ 4 \in Sizes
  BY PromotedTypes, OperandReg, SizesOrder
<1>2. /\ R \in Nat /\ R \in 0..(Bits[8] - 1)
      /\ d \in 0..(Modulus(8) - 1) /\ d \in Int /\ Cong(d, R, Modulus(Size(t)))
      /\ Modulus(8) \in Nat /\ Modulus(8) > 0 /\ Modulus(4) \in Nat /\ Modulus(4) > 0
  BY <1>1, CountIs, Widths DEF InReg
<1>3. /\ Bits[8] \in Nat /\ Bits[8] > 0 /\ Bits[4] \in Nat /\ Bits[4] > 0
      /\ Pow2[Bits[4]] % Bits[4] = 0
  BY BitsAssumption
<1>4. CASE Size(t) = 8
  <2>1. R < Modulus(8)
    <3>1. R \in 0..Bits[8]
      BY <1>2, <1>3
    <3>3. Half(8) \in Nat /\ Modulus(8) = 2 * Half(8)
      BY <1>1, Widths
    <3>2. R < Half(8)
      BY <1>2, <3>3, CountIs
    <3> QED
      BY <1>2, <3>2, <3>3
  <2>2. d >= 0 /\ d < 0 + Modulus(8) /\ R >= 0 /\ R < 0 + Modulus(8)
    BY <1>2, <2>1
  <2>3. d = R
    BY <1>2, <1>4, <2>2, CongUnique
  <2>4. R % Bits[8] = R
    BY <1>2, <1>3
  <2> QED
    BY <1>1, <1>4, <2>3, <2>4
<1>5. CASE Size(t) = 4
  <2> DEFINE b == Bits[4]
             M == Modulus(4)
             c == M \div b
  <2>1. M \in Int /\ b \in Nat /\ b > 0 /\ M % b = 0 /\ R \in 0..(b - 1)
    BY <1>2, <1>3, <1>5 DEF Modulus
  <2> HIDE DEF b, M
  <2>2. c \in Int /\ M = b * c + (M % b)
    BY <2>1, DivMod
  <2> HIDE DEF c
  <2>3. b * c \in Int
    BY <2>1, <2>2
  <2>4. M = b * c
    BY <2>1, <2>2, <2>3
  <2>5. Cong(d, R, b * c)
    BY <1>2, <1>5, <2>4 DEF M
  <2>6. Cong(d, R, b)
    <3>1. PICK k \in Int : d = R + b * c * k
      BY <2>5 DEF Cong
    <3>2. b * c * k = b * (c * k) /\ c * k \in Int
      BY <2>1, <2>2
    <3>3. d = R + b * (c * k)
      BY <3>1, <3>2
    <3> QED
      BY <3>2, <3>3 DEF Cong
  <2>8. d % b = R % b
    BY <1>2, <2>1, <2>6, ModOfCong
  <2>7. R % b = R
    BY <2>1
  <2> QED
    BY <1>1, <1>5, <2>7, <2>8 DEF b
<1> QED
  BY <1>1, <1>4, <1>5

LEMMA CountConst ==
  ASSUME NEW t \in Promoted, NEW R \in 0..(Bits[Size(t)] - 1), NEW n, IsOperand(n, t, R)
  PROVE  n = R
<1> DEFINE H == Half(8)
           M == Modulus(8)
<1>1. M \in Nat /\ H \in Nat /\ M = 2 * H /\ M > 0
  BY Widths, SizesOrder
<1>2. n \in -H..(H - 1) /\ R \in -H..(H - 1) /\ Cong(n, R, M)
  BY CountIs DEF IsOperand
<1> HIDE DEF H, M
<1>3. n \in Int /\ R \in Int /\ -H \in Int /\ n >= -H /\ n < -H + M /\ R >= -H /\ R < -H + M
  BY <1>1, <1>2
<1> QED
  BY <1>1, <1>2, <1>3, CongUnique

\* An arithmetic shift to the right stays among the values of the type.
LEMMA ShiftedDown ==
  ASSUME NEW t \in Promoted, NEW L \in Vals(t), NEW p \in Nat, p > 0
  PROVE  L \div p \in Int /\ L \div p \in Vals(t)
<1>1. t \in Types /\ t # "bool" /\ Size(t) \in Sizes
  BY PromotedTypes
<1>2. L \in Int
  BY <1>1, ValsInt
<1> DEFINE q == L \div p
           r == L % p
           h == Half(Size(t))
           M == Modulus(Size(t))
<1>3. q \in Int /\ r \in 0..(p - 1) /\ L = p * q + r
  BY <1>2, DivMod
<1>4. h \in Nat /\ M \in Nat /\ M = 2 * h
  BY <1>1, Widths
<1>5. Vals(t) = IF IsUnsigned(t) THEN 0..(M - 1) ELSE -h..(h - 1)
  BY <1>1 DEF Vals
<1> HIDE DEF q, r, h, M
<1>6. L >= 0 => q >= 0 /\ q <= L
  <2>1. ASSUME L >= 0, q < 0 PROVE FALSE
    <3>1. p * (q + 1) <= 0
      BY <1>3, <2>1
    <3>2. p * (q + 1) = p * q + p
      BY <1>3
    <3> QED
      BY <1>2, <1>3, <2>1, <3>1, <3>2
  <2>2. ASSUME L >= 0, q >= 0 PROVE q <= L
    <3>1. p * q >= q
      BY <1>3, <2>2
    <3>2. p * q \in Int
      BY <1>3
    <3> QED
      BY <1>2, <1>3, <3>1, <3>2
  <2> QED
    BY <1>2, <1>3, <2>1, <2>2
<1>7. L < 0 => q < 0 /\ q >= L
  <2>1. ASSUME L < 0, q >= 0 PROVE FALSE
    <3>1. p * q >= 0 /\ p * q \in Int
      BY <1>3, <2>1
    <3> QED
      BY <1>2, <1>3, <2>1, <3>1
  <2>2. ASSUME L < 0, q < 0, q < L PROVE FALSE
    <3>5. p * q \in Int
      BY <1>3
    <3>7. p * (q + 1) = p * q + p /\ q + 1 <= L /\ q + 1 < 0
      BY <1>2, <1>3, <2>2
    <3>8. p * (q + 1) <= q + 1
      <4>1. (p - 1) * (q + 1) <= 0
        BY <1>3, <3>7
      <4>2. p * (q + 1) = (p - 1) * (q + 1) + (q + 1)
        BY <1>3
      <4>3. p * (q + 1) \in Int /\ (p - 1) * (q + 1) \in Int
        BY <1>3
      <4> QED
        BY <1>3, <4>1, <4>2, <4>3
    <3> QED
      BY <1>2, <1>3, <3>5, <3>7, <3>8
  <2> QED
    BY <1>2, <1>3, <2>1, <2>2
<1>8. q \in Vals(t)
  BY <1>2, <1>3, <1>4, <1>5, <1>6, <1>7
<1> QED
  BY <1>3, <1>8 DEF q

\* A product with a power of two.
LEMMA ShiftLeftRight ==
  ASSUME NEW t \in Promoted, NEW L, NEW R
  PROVE  /\ \A a, d : InReg(a, t, L) /\ InReg(d, t, R) => CodeRight("<<", t, L, R, a, d)
         /\ \A m, n : IsOperand(m, t, L) /\ IsOperand(n, t, R) => ConstRight("<<", t, L, R, m, n)
<1> DEFINE x == L * Pow2[R]
           M == Modulus(Size(t))
           p == Pow2[R]
<1>0. M \in Int
  BY PromotedTypes, Widths
<1>1. ASSUME Meaning("<<", t, L, R) # None
      PROVE  /\ R \in 0..(Bits[Size(t)] - 1) /\ Meaning("<<", t, L, R) = Result(x, t)
             /\ p \in Int /\ R \in 0..(Bits[8] - 1)
  <2>1. R \in 0..(Bits[Size(t)] - 1) /\ Meaning("<<", t, L, R) = Result(x, t)
    BY <1>1 DEF Meaning, Bitwises
  <2> QED
    BY <2>1, CountIs
<1>2. ASSUME NEW a, NEW d, InReg(a, t, L), InReg(d, t, R), Meaning("<<", t, L, R) # None
      PROVE  /\ gen_binary("<<", t, a, d) # None
             /\ InReg(gen_binary("<<", t, a, d)[1], t, Meaning("<<", t, L, R)[1])
  <2> DEFINE s == OpSize(t)
             u == Wrap(a, s)
  <2>1. gen_binary("<<", t, a, d) = Some(Wrap(u * Pow2[d % Bits[s]], s))
    BY DEF gen_binary, OpSize, Bitwises
  <2>2. R \in 0..(Bits[Size(t)] - 1) /\ Meaning("<<", t, L, R) = Result(x, t) /\ p \in Int
    BY <1>1, <1>2
  <2>3. d % Bits[s] = R
    BY <1>2, <2>2, CountReg
  <2>4. u \in Int /\ L \in Int /\ Cong(u, L, M)
    BY <1>2, OperandReg
  <2>5. gen_binary("<<", t, a, d) = Some(Wrap(u * p, s))
    BY <2>1, <2>3
  <2> HIDE DEF p, M, u
  <2>9. Cong(p, p, M)
    BY <1>0, <2>2, CongSame
  <2>6. Cong(u * p, L * p, M) /\ u * p \in Int /\ L * p \in Int
    BY <1>0, <2>2, <2>4, <2>9, CongProduct
  <2>7. InReg(Wrap(u * p, s), t, As(L * p, t))
    BY <2>6, Computed DEF M
  <2>8. Meaning("<<", t, L, R)[1] = As(L * p, t)
    BY <1>2, <2>2, ResultIs DEF p
  <2> QED
    BY <2>5, <2>7, <2>8, SomeIs
<1>3. ASSUME NEW m, NEW n, IsOperand(m, t, L), IsOperand(n, t, R),
             Meaning("<<", t, L, R) # None, eval_binary("<<", t, m, n) # None
      PROVE  InConst(eval_binary("<<", t, m, n)[1], t, Meaning("<<", t, L, R)[1])
  <2>1. R \in 0..(Bits[Size(t)] - 1) /\ Meaning("<<", t, L, R) = Result(x, t) /\ p \in Int
        /\ R \in 0..(Bits[8] - 1)
    BY <1>1, <1>3
  <2>2. n = R
    BY <1>3, <2>1, CountConst
  <2>3. eval_binary("<<", t, m, n) = Some(I64(m * p))
    BY <2>1, <2>2 DEF eval_binary, Bitwises
  <2>4. m \in Int /\ L \in Int /\ Cong(m, L, M)
    BY <1>3, OperandConst
  <2> HIDE DEF p, M
  <2>8. Cong(p, p, M)
    BY <1>0, <2>1, CongSame
  <2>5. Cong(m * p, L * p, M) /\ m * p \in Int /\ L * p \in Int
    BY <1>0, <2>1, <2>4, <2>8, CongProduct
  <2>6. InConst(I64(m * p), t, As(L * p, t))
    BY <2>5, Computed DEF M
  <2>7. Meaning("<<", t, L, R)[1] = As(L * p, t)
    BY <1>3, <2>1, ResultIs DEF p
  <2> QED
    BY <2>3, <2>6, <2>7, SomeIs
<1> QED
  BY <1>2, <1>3 DEF CodeRight, ConstRight

\* A division by one, rounding down.
LEMMA ShiftRightRight ==
  ASSUME NEW t \in Promoted, NEW L, NEW R
  PROVE  /\ \A a, d : InReg(a, t, L) /\ InReg(d, t, R) => CodeRight(">>", t, L, R, a, d)
         /\ \A m, n : IsOperand(m, t, L) /\ IsOperand(n, t, R) => ConstRight(">>", t, L, R, m, n)
<1> DEFINE p == Pow2[R]
           x == L \div p
<1>0. t \in Types /\ Size(t) \in Sizes
  BY PromotedTypes
<1>1. ASSUME Meaning(">>", t, L, R) # None
      PROVE  /\ R \in 0..(Bits[Size(t)] - 1) /\ Meaning(">>", t, L, R) = Some(x)
             /\ p \in Nat /\ p > 0 /\ R \in 0..(Bits[8] - 1)
  <2>1. R \in 0..(Bits[Size(t)] - 1) /\ Meaning(">>", t, L, R) = Some(x)
    BY <1>1 DEF Meaning, Bitwises
  <2> QED
    BY <2>1, CountIs
<1>2. ASSUME L \in Vals(t), p \in Nat, p > 0
      PROVE  InReg(Wrap(x, OpSize(t)), t, x) /\ InConst(I64(x), t, x)
  <2>1. x \in Int /\ x \in Vals(t)
    BY <1>2, ShiftedDown
  <2> HIDE DEF x
  <2>2. Cong(x, x, Modulus(Size(t)))
    BY <1>0, <2>1, CongSame, Widths
  <2>3. As(x, t) = x
    BY <1>0, <2>1, <2>2, AsUnique
  <2> QED
    BY <2>1, <2>2, <2>3, Computed
<1>3. ASSUME NEW a, NEW d, InReg(a, t, L), InReg(d, t, R), Meaning(">>", t, L, R) # None
      PROVE  /\ gen_binary(">>", t, a, d) # None
             /\ InReg(gen_binary(">>", t, a, d)[1], t, Meaning(">>", t, L, R)[1])
  <2> DEFINE s == OpSize(t)
             u == Wrap(a, s)
  <2>1. gen_binary(">>", t, a, d) = Some(Wrap(Extend64(u, t) \div Pow2[d % Bits[s]], s))
    BY DEF gen_binary, OpSize, Extend64, Bitwises
  <2>2. /\ R \in 0..(Bits[Size(t)] - 1) /\ Meaning(">>", t, L, R) = Some(x)
        /\ p \in Nat /\ p > 0
    BY <1>1, <1>3
  <2>3. d % Bits[s] = R /\ Extend64(u, t) = L /\ L \in Vals(t)
    BY <1>3, <2>2, CountReg, OperandReg
  <2>4. gen_binary(">>", t, a, d) = Some(Wrap(x, s))
    BY <2>1, <2>3
  <2> HIDE DEF x, p
  <2> QED
    BY <1>2, <2>2, <2>3, <2>4, SomeIs
<1>4. ASSUME NEW m, NEW n, IsOperand(m, t, L), IsOperand(n, t, R),
             Meaning(">>", t, L, R) # None, eval_binary(">>", t, m, n) # None
      PROVE  InConst(eval_binary(">>", t, m, n)[1], t, Meaning(">>", t, L, R)[1])
  <2>1. /\ R \in 0..(Bits[Size(t)] - 1) /\ Meaning(">>", t, L, R) = Some(x)
        /\ p \in Nat /\ p > 0 /\ R \in 0..(Bits[8] - 1)
    BY <1>1, <1>4
  <2>2. n = R
    BY <1>4, <2>1, CountConst
  <2>3. L \in Vals(t) /\ L = IF t = "ulong" THEN U64(m) ELSE m
    <3>1. IsUnsigned("ulong")
      BY DEF IsUnsigned
    <3> QED
      BY <1>4, <3>1, OperandConst DEF IsOperand
  <2>4. eval_binary(">>", t, m, n) = Some(I64(x))
    BY <2>1, <2>2, <2>3 DEF eval_binary, Bitwises
  <2> HIDE DEF x, p
  <2> QED
    BY <1>2, <2>1, <2>3, <2>4, SomeIs
<1> QED
  BY <1>3, <1>4 DEF CodeRight, ConstRight

(***************************************************************************)
(* Bitwise operations, one bit after the other.                            *)
(***************************************************************************)
BitOf(op, a, b, i) == IF Bitwise(op, Bit(a, i) = 1, Bit(b, i) = 1) THEN Pow2[i] ELSE 0

LEMMA LowBitsIs ==
  ASSUME NEW op, NEW a, NEW b
  PROVE  /\ LowBits(op, a, b)[0] = 0
         /\ \A i \in 1..Bits[8] :
              LowBits(op, a, b)[i] = LowBits(op, a, b)[i - 1] + BitOf(op, a, b, i - 1)
<1> DEFINE B == Bits[8]
           Step(f, i) == IF i = 0 THEN 0 ELSE f[i - 1] + BitOf(op, a, b, i - 1)
           low == LowBits(op, a, b)
<1>0. B \in Nat
  BY BitsType
<1>1. low = CHOOSE f : f = [i \in 0..B |-> Step(f, i)]
  BY DEF LowBits, BitOf
<1>2. \A i \in 1..B : i - 1 \in 0..B /\ i \in 0..B /\ BitOf(op, a, b, i - 1) \in Nat
  <2> SUFFICES ASSUME NEW i \in 1..B
               PROVE  i - 1 \in 0..B /\ i \in 0..B /\ BitOf(op, a, b, i - 1) \in Nat
    OBVIOUS
  <2>1. i - 1 \in 0..B /\ i \in 0..B
    BY <1>0
  <2>2. Pow2[i - 1] \in Nat
    BY <2>1, Pow2Is
  <2> QED
    BY <2>1, <2>2 DEF BitOf
<1> HIDE DEF B
<1>3. PICK g \in [Nat \X (1..B) -> Nat] :
        \A x \in Nat, i \in 1..B : g[<<x, i>>] = x + BitOf(op, a, b, i - 1)
  <2> DEFINE h == [p \in Nat \X (1..B) |-> p[1] + BitOf(op, a, b, p[2] - 1)]
  <2>1. h \in [Nat \X (1..B) -> Nat]
    BY <1>2
  <2>2. \A x \in Nat, i \in 1..B : h[<<x, i>>] = x + BitOf(op, a, b, i - 1)
    OBVIOUS
  <2> QED
    BY <2>1, <2>2
<1>4. PICK f \in [0..B -> Nat] : f[0] = 0 /\ \A i \in 1..B : f[i] = g[<<f[i - 1], i>>]
  <2>1. g \in [Nat \X (1..B) -> Nat] /\ 0 \in Nat
    BY <1>3
  <2> QED
    BY ONLY <1>0, <2>1, Repeated, ZenonT(40)
<1>5. ASSUME NEW i \in 0..B
      PROVE  f[i] = Step(f, i)
  <2>1. CASE i = 0
    BY <1>4, <2>1
  <2>2. CASE i # 0
    <3>1. i \in 1..B /\ i - 1 \in 0..B
      BY <1>0, <2>2
    <3>2. f[i] = g[<<f[i - 1], i>>] /\ f[i - 1] \in Nat
      BY <1>4, <3>1
    <3>3. f[i] = f[i - 1] + BitOf(op, a, b, i - 1)
      BY <1>3, <3>1, <3>2
    <3> QED
      BY <2>2, <3>3
  <2> QED
    BY <2>1, <2>2
<1> HIDE DEF Step
<1>6. f = [i \in 0..B |-> Step(f, i)]
  BY <1>5
<1> HIDE DEF low
<1>7. low = [i \in 0..B |-> Step(low, i)]
  BY <1>1, <1>6
<1>8. \A i \in 0..B : low[i] = Step(low, i)
  BY <1>7
<1>9. 0 \in 0..B /\ \A i \in 1..B : i \in 0..B /\ i # 0
  BY <1>0
<1> QED
  BY <1>8, <1>9 DEF Step, low, B

\* The lowest k bits of the result are below 2^k.
LEMMA LowBitsBelow ==
  ASSUME NEW op, NEW a, NEW b, NEW k \in 0..Bits[8]
  PROVE  LowBits(op, a, b)[k] \in Nat /\ LowBits(op, a, b)[k] < Pow2[k]
<1> DEFINE B == Bits[8]
           low == LowBits(op, a, b)
           T == {i \in 0..B : ~(low[i] \in Nat /\ low[i] < Pow2[i])}
<1>0. B \in Nat
  BY BitsType
<1>1. low[0] = 0 /\ \A i \in 1..B : low[i] = low[i - 1] + BitOf(op, a, b, i - 1)
  BY LowBitsIs
<1> HIDE DEF low
<1>2. ASSUME T # {}
      PROVE  FALSE
  <2>1. T \in SUBSET (0..B)
    OBVIOUS
  <2> HIDE DEF T
  <2>2. PICK i \in T : \A j \in 0..(i - 1) : j \notin T
    BY <1>0, <1>2, <2>1, LeastElement
  <2>3. i \in 0..B /\ ~(low[i] \in Nat /\ low[i] < Pow2[i])
    BY <2>2 DEF T
  <2>4. i # 0
    BY <1>1, <2>3, Pow2Is
  <2>5. i - 1 \in 0..(i - 1) /\ i - 1 \in 0..B /\ i \in 1..B
    BY <1>0, <2>3, <2>4
  <2>6. low[i - 1] \in Nat /\ low[i - 1] < Pow2[i - 1]
    BY <2>2, <2>5 DEF T
  <2>7. Pow2[i - 1] \in Nat /\ Pow2[i] = 2 * Pow2[i - 1] /\ low[i] = low[i - 1] + BitOf(op, a, b, i - 1)
    BY <1>1, <2>5, Pow2Is
  <2>8. BitOf(op, a, b, i - 1) \in {0, Pow2[i - 1]}
    BY DEF BitOf
  <2> QED
    BY <2>3, <2>6, <2>7, <2>8
<1> QED
  BY <1>2 DEF low

\* They depend on the lowest k bits of the operands.
LEMMA LowBitsOf ==
  ASSUME NEW op, NEW a, NEW b, NEW c, NEW d, NEW k \in 0..Bits[8],
         \A i \in 0..(k - 1) : Bit(a, i) = Bit(c, i) /\ Bit(b, i) = Bit(d, i)
  PROVE  LowBits(op, a, b)[k] = LowBits(op, c, d)[k]
<1> DEFINE B == Bits[8]
           low == LowBits(op, a, b)
           other == LowBits(op, c, d)
           T == {i \in 0..k : low[i] # other[i]}
<1>0. B \in Nat /\ k \in Nat /\ k \in 0..k
  BY BitsType
<1>1. low[0] = 0 /\ \A i \in 1..B : low[i] = low[i - 1] + BitOf(op, a, b, i - 1)
  BY LowBitsIs
<1>2. other[0] = 0 /\ \A i \in 1..B : other[i] = other[i - 1] + BitOf(op, c, d, i - 1)
  BY LowBitsIs
<1> HIDE DEF low, other
<1>3. ASSUME T # {}
      PROVE  FALSE
  <2>1. T \in SUBSET (0..k)
    OBVIOUS
  <2> HIDE DEF T
  <2>2. PICK i \in T : \A j \in 0..(i - 1) : j \notin T
    BY <1>0, <1>3, <2>1, LeastElement
  <2>3. i \in 0..k /\ low[i] # other[i]
    BY <2>2 DEF T
  <2>4. i # 0
    BY <1>1, <1>2, <2>3
  <2>5. i - 1 \in 0..(i - 1) /\ i - 1 \in 0..k /\ i \in 1..B /\ i - 1 \in 0..(k - 1)
    BY <1>0, <2>3, <2>4
  <2>6. low[i - 1] = other[i - 1]
    BY <2>2, <2>5 DEF T
  <2>7. BitOf(op, a, b, i - 1) = BitOf(op, c, d, i - 1)
    BY <2>5 DEF BitOf
  <2> QED
    BY <1>1, <1>2, <2>3, <2>5, <2>6, <2>7
<1> QED
  BY <1>0, <1>3 DEF low, other

\* The bits above them are multiples of 2^k.
LEMMA LowBitsUpper ==
  ASSUME NEW op, NEW a, NEW b, NEW k \in 0..Bits[8], NEW j \in k..Bits[8]
  PROVE  Cong(LowBits(op, a, b)[j], LowBits(op, a, b)[k], Pow2[k])
<1> DEFINE B == Bits[8]
           low == LowBits(op, a, b)
           P == Pow2[k]
           T == {i \in k..B : ~Cong(low[i], low[k], P)}
<1>0. B \in Nat /\ P \in Nat
  BY BitsType, Pow2Is
<1>1. \A i \in 1..B : low[i] = low[i - 1] + BitOf(op, a, b, i - 1)
  BY LowBitsIs
<1>2. \A i \in 0..B : low[i] \in Int
  BY LowBitsBelow
<1> HIDE DEF low
<1>3. ASSUME T # {}
      PROVE  FALSE
  <2>1. T \in SUBSET (0..B)
    BY <1>0
  <2> HIDE DEF T
  <2>2. PICK i \in T : \A l \in 0..(i - 1) : l \notin T
    BY <1>0, <1>3, <2>1, LeastElement
  <2>3. i \in k..B /\ ~Cong(low[i], low[k], P)
    BY <2>2 DEF T
  <2> HIDE DEF P
  <2>4. i # k
    BY <1>0, <1>2, <2>3, CongSame
  <2>5. i - 1 \in k..B /\ i - 1 \in 0..(i - 1) /\ i \in 1..B /\ i - 1 \in 0..B /\ i \in 0..B
    BY <1>0, <2>3, <2>4
  <2>6. Cong(low[i - 1], low[k], P)
    BY <2>2, <2>5 DEF T
  <2>7. PICK c \in Nat : Pow2[i - 1] = P * c
    <3>1. i - 1 \in k..Bits[8]
      BY <2>5
    <3> QED
      BY <3>1, Pow2Divides DEF P
  <2>8. low[i] = low[i - 1] \/ low[i] = low[i - 1] + P * c
    <3>1. BitOf(op, a, b, i - 1) \in {0, P * c}
      BY <2>7 DEF BitOf
    <3>2. low[i] = low[i - 1] + BitOf(op, a, b, i - 1) /\ low[i - 1] \in Int
      BY <1>1, <1>2, <2>5
    <3> QED
      BY <3>1, <3>2
  <2>9. PICK z \in Int : low[i - 1] = low[k] + P * z
    BY <2>6 DEF Cong
  <2>10. P * c + P * z = P * (c + z) /\ P * z \in Int /\ P * c \in Int /\ c + z \in Int /\ low[k] \in Int
    BY <1>0, <1>2, <2>7
  <2>11. low[i] = low[k] + P * z \/ low[i] = low[k] + P * (c + z)
    BY <2>8, <2>9, <2>10
  <2> QED
    BY <2>3, <2>10, <2>11 DEF Cong
<1> QED
  BY <1>3 DEF low

\* Dividing takes out a multiple.
LEMMA DivideOut ==
  ASSUME NEW n \in Int, NEW p \in Nat, p > 0, NEW w \in Int
  PROVE  (n + p * w) \div p = (n \div p) + w
<1> DEFINE x == n + p * w
           q == n \div p
           r == n % p
           qx == x \div p
           rx == x % p
<1>1. q \in Int /\ r \in 0..(p - 1) /\ n = p * q + r
  BY DivMod
<1>2. x \in Int
  OBVIOUS
<1>3. qx \in Int /\ rx \in 0..(p - 1) /\ x = p * qx + rx
  BY <1>2, DivMod
<1>4. x = n + p * w
  OBVIOUS
<1> HIDE DEF x, q, r, qx, rx
<1>5. p * q \in Int /\ p * w \in Int /\ p * qx \in Int
  BY <1>1, <1>3
<1>6. p * qx + rx = p * q + r + p * w
  BY <1>1, <1>3, <1>4, <1>5
<1> DEFINE e == qx - (q + w)
<1>7. e \in Int /\ p * e = p * qx - (p * q + p * w)
  BY <1>1, <1>3
<1> HIDE DEF e
<1>8. p * e = r - rx /\ p * e \in Int
  BY <1>1, <1>3, <1>5, <1>6, <1>7
<1>9. e = 0
  <2>1. e >= 1 => p * e >= p
    BY <1>7
  <2>2. e <= -1 => p * e <= -p
    BY <1>7
  <2> QED
    BY <1>1, <1>3, <1>7, <1>8, <2>1, <2>2
<1> QED
  BY <1>1, <1>3, <1>9 DEF e, qx, x, q

\* Numbers with the same low bits have them one by one.
LEMMA SameBits ==
  ASSUME NEW a \in Int, NEW c \in Int, NEW k \in 0..Bits[8], Cong(a, c, Pow2[k]), NEW i \in 0..(k - 1)
  PROVE  Bit(a, i) = Bit(c, i)
<1>1. i \in 0..Bits[8] /\ k \in i..Bits[8] /\ i < k
  BY BitsType
<1> DEFINE p == Pow2[i]
           P == Pow2[k]
           qa == a \div p
           qc == c \div p
<1>2. p \in Nat /\ p > 0
  BY <1>1, Pow2Is
<1>3. PICK e \in Nat : P = p * e /\ \E d \in Nat : e = 2 * d
  BY <1>1, Pow2Divides
<1>4. PICK d \in Nat : e = 2 * d
  BY <1>3
<1>5. PICK z \in Int : a = c + P * z
  BY DEF Cong
<1> HIDE DEF P
<1>6. qa \in Int /\ qc \in Int
  BY <1>2, DivMod
<1>7. qa = qc + 2 * (d * z)
  <2> HIDE DEF p
  <2>1. P * z = p * (2 * (d * z)) /\ 2 * (d * z) \in Int
    BY <1>2, <1>3, <1>4
  <2> DEFINE w == 2 * (d * z)
  <2>2. a = c + p * w /\ w \in Int
    BY <1>5, <2>1
  <2> HIDE DEF w
  <2> QED
    BY <1>2, <2>2, DivideOut DEF w
<1>8. d * z \in Int
  BY <1>4
<1>9. Cong(qa, qc, 2)
  BY <1>7, <1>8 DEF Cong
<1> HIDE DEF qa, qc
<1>10. qa % 2 = qc % 2
  BY <1>6, <1>9, ModOfCong
<1> QED
  BY <1>10 DEF Bit, qa, qc

\* So the low bits of a result are those of any operands with the same low bits.
LEMMA OnBitsCong ==
  ASSUME NEW op, NEW s \in Sizes, NEW a \in Int, NEW b \in Int, NEW c \in Int, NEW d \in Int,
         Cong(a, c, Modulus(s)), Cong(b, d, Modulus(s))
  PROVE  /\ OnBits(op, a, b) \in 0..(Modulus(8) - 1)
         /\ OnBits(op, a, b) \in Int /\ OnBits(op, c, d) \in Int
         /\ Cong(OnBits(op, a, b), OnBits(op, c, d), Modulus(s))
<1> DEFINE k == Bits[s]
           B == Bits[8]
           M == Modulus(s)
           x == LowBits(op, a, b)[B]
           y == LowBits(op, c, d)[B]
           u == LowBits(op, a, b)[k]
           w == LowBits(op, c, d)[k]
<1>1. k \in 0..B /\ B \in k..B /\ B \in 0..B /\ M = Pow2[k] /\ Modulus(8) = Pow2[B]
  BY BitsType DEF Sizes, Modulus
<1>2. x \in Nat /\ x < Pow2[B] /\ y \in Nat /\ u \in Nat /\ w \in Nat
  BY <1>1, LowBitsBelow
<1>3. Cong(x, u, M) /\ Cong(y, w, M)
  BY <1>1, LowBitsUpper
<1>4. u = w
  <2>1. \A i \in 0..(k - 1) : Bit(a, i) = Bit(c, i) /\ Bit(b, i) = Bit(d, i)
    BY <1>1, SameBits
  <2>2. k \in 0..Bits[8]
    BY <1>1
  <2> HIDE DEF k
  <2> QED
    BY ONLY <2>1, <2>2, LowBitsOf
<1>5. OnBits(op, a, b) = x /\ OnBits(op, c, d) = y
  BY DEF OnBits
<1>6. Modulus(8) \in Nat /\ M \in Int
  BY Widths, SizesOrder
<1> HIDE DEF x, y, u, w, k, B, M
<1>7. Cong(w, y, M)
  BY <1>2, <1>3, <1>6, CongBack
<1>8. Cong(x, y, M)
  BY <1>2, <1>3, <1>4, <1>6, <1>7, CongOn
<1>9. x \in 0..(Modulus(8) - 1) /\ x \in Int /\ y \in Int
  BY <1>1, <1>2, <1>6
<1> QED
  BY <1>5, <1>8, <1>9 DEF M

\* So bitwise operations are right modulo the width.
LEMMA BitwiseRight ==
  ASSUME NEW op \in Bitwises, NEW t \in Promoted, NEW L, NEW R
  PROVE  /\ \A a, d : InReg(a, t, L) /\ InReg(d, t, R) => CodeRight(op, t, L, R, a, d)
         /\ \A m, n : IsOperand(m, t, L) /\ IsOperand(n, t, R) => ConstRight(op, t, L, R, m, n)
<1> DEFINE x == OnBits(op, U64(L), U64(R))
           M == Modulus(Size(t))
<1>0. op \in {"&", "|", "^"}
  BY DEF Bitwises
<1>1. Meaning(op, t, L, R) = Some(As(x, t))
  BY <1>0 DEF Meaning, Bitwises
<1>2. /\ t \in Types /\ t # "bool" /\ t # "enum" /\ Size(t) = RegSize(t)
      /\ Size(t) \in Sizes /\ 8 \in Sizes /\ Size(t) <= 8
  BY PromotedTypes, SizesOrder
<1>3. M \in Int
  BY <1>2, Widths
<1>4. ASSUME NEW v \in Int
      PROVE  U64(v) \in Int /\ Cong(U64(v), v, M) /\ Cong(v, U64(v), M)
  <2>1. U64(v) \in Int /\ Cong(U64(v), v, Modulus(8))
    BY <1>2, WrapIs DEF U64
  <2>2. Cong(U64(v), v, M)
    BY <1>2, <2>1, CongNarrow
  <2> QED
    BY <1>3, <2>1, <2>2, CongBack
<1>5. ASSUME NEW a, NEW d, InReg(a, t, L), InReg(d, t, R)
      PROVE  CodeRight(op, t, L, R, a, d)
  <2> DEFINE s == OpSize(t)
             u == Wrap(a, s)
             w == Wrap(d, s)
             z == OnBits(op, u, w)
  <2>1. gen_binary(op, t, a, d) = Some(z)
    BY <1>0 DEF gen_binary, OpSize, Bitwises
  <2>2. u \in Int /\ w \in Int /\ L \in Int /\ R \in Int /\ Cong(u, L, M) /\ Cong(w, R, M)
    BY <1>5, OperandReg
  <2> HIDE DEF u, w, M
  <2>3. /\ U64(L) \in Int /\ U64(R) \in Int
        /\ Cong(u, U64(L), M) /\ Cong(w, U64(R), M)
    <3>1. U64(L) \in Int /\ U64(R) \in Int /\ Cong(L, U64(L), M) /\ Cong(R, U64(R), M)
      BY <1>4, <2>2
    <3> QED
      BY <1>3, <2>2, <3>1, CongOn
  <2>4. z \in 0..(Modulus(8) - 1) /\ z \in Int /\ x \in Int /\ Cong(z, x, M)
    BY <1>2, <2>2, <2>3, OnBitsCong DEF M
  <2> HIDE DEF x, z
  <2>5. As(x, t) \in Vals(t) /\ As(x, t) \in Int /\ Cong(As(x, t), x, M)
    BY <1>2, <2>4, AsIs DEF M
  <2>6. Cong(x, As(x, t), M)
    BY <1>3, <2>4, <2>5, CongBack
  <2>7. Cong(z, As(x, t), M)
    BY <1>3, <2>4, <2>5, <2>6, CongOn
  <2>8. InReg(z, t, As(x, t))
    BY <1>2, <2>4, <2>5, <2>7 DEF InReg, M
  <2> QED
    BY <1>1, <2>1, <2>8, SomeIs DEF CodeRight
<1>6. ASSUME NEW m, NEW n, IsOperand(m, t, L), IsOperand(n, t, R)
      PROVE  ConstRight(op, t, L, R, m, n)
  <2>1. U64(m) = U64(L) /\ U64(n) = U64(R) /\ L \in Int /\ R \in Int
    BY <1>6, OperandConst
  <2>2. eval_binary(op, t, m, n) = Some(I64(x))
    BY <1>0, <2>1 DEF eval_binary, Bitwises
  <2>3. x \in Int
    <3>1. U64(L) \in Int /\ U64(R) \in Int
      BY <1>4, <2>1
    <3> QED
      BY <1>2, <1>3, <3>1, CongSame, OnBitsCong
  <2>4. Cong(x, x, M)
    BY <1>3, <2>3, CongSame
  <2> HIDE DEF x
  <2>5. InConst(I64(x), t, As(x, t))
    BY <2>3, <2>4, Computed
  <2> QED
    BY <1>1, <2>2, <2>5, SomeIs DEF ConstRight
<1> QED
  BY <1>5, <1>6

\* Comparisons, which need the sign of the operands and all of their bits.
LEMMA SameConst ==
  ASSUME NEW t \in Promoted \cup {"enum"}, NEW m, NEW n, NEW L, NEW R,
         IsOperand(m, t, L), IsOperand(n, t, R)
  PROVE  m = n <=> L = R
<1> DEFINE H == Half(8)
           M == Modulus(8)
<1>1. /\ m \in Int /\ n \in Int /\ L \in Int /\ R \in Int /\ Cong(m, L, M) /\ Cong(n, R, M)
      /\ IsUnsigned(t) => U64(m) = L /\ U64(n) = R
      /\ ~IsUnsigned(t) => m = L /\ n = R
  BY OperandConst
<1>2. M \in Nat /\ H \in Nat /\ M = 2 * H /\ M > 0
  BY Widths, SizesOrder
<1>3. m \in -H..(H - 1) /\ n \in -H..(H - 1)
  BY DEF IsOperand
<1>4. ASSUME L = R, IsUnsigned(t) PROVE m = n
  <2> HIDE DEF H, M
  <2>1. Cong(L, n, M)
    BY <1>1, <1>2, <1>4, CongBack
  <2>2. Cong(m, n, M)
    BY <1>1, <1>2, <2>1, CongOn
  <2>3. -H \in Int /\ m >= -H /\ m < -H + M /\ n >= -H /\ n < -H + M
    BY <1>1, <1>2, <1>3
  <2> QED
    BY <1>1, <1>2, <2>2, <2>3, CongUnique
<1> QED
  BY <1>1, <1>4

\* All four comparisons, whose result is 0 or 1.
LEMMA CompareRight ==
  ASSUME NEW op \in Comparisons, NEW t \in Promoted \cup {"enum"}, NEW u, NEW L, NEW R,
         L \in Int, R \in Int
  PROVE  /\ \E b \in BOOLEAN : Meaning(op, u, L, R) = Some(Bool(b))
         /\ \A a, d : InReg(a, t, L) /\ InReg(d, t, R) =>
              gen_binary(op, t, a, d) = Meaning(op, u, L, R)
         /\ \A m, n : IsOperand(m, t, L) /\ IsOperand(n, t, R) =>
              eval_binary(op, t, m, n) = Meaning(op, u, L, R)
<1>0. op \in {"==", "!=", "<", "<="}
  BY DEF Comparisons
<1> DEFINE M(x) == IF op = "==" THEN Bool(L = R) ELSE IF op = "!=" THEN Bool(L # R)
                   ELSE IF op = "<" THEN Bool(L < R) ELSE Bool(L <= R)
<1>1. Meaning(op, u, L, R) = Some(M(0))
  BY <1>0 DEF Meaning, Bitwises
<1>2. \E b \in BOOLEAN : Meaning(op, u, L, R) = Some(Bool(b))
  <2>1. M(0) \in {0, 1}
    BY DEF Bool
  <2>2. Bool(TRUE) = 1 /\ Bool(FALSE) = 0
    BY DEF Bool
  <2> HIDE DEF M
  <2>3. M(0) = Bool(TRUE) \/ M(0) = Bool(FALSE)
    BY <2>1, <2>2
  <2> QED
    BY <1>1, <2>3
<1>3. ASSUME NEW a, NEW d, InReg(a, t, L), InReg(d, t, R)
      PROVE  gen_binary(op, t, a, d) = Meaning(op, u, L, R)
  <2> DEFINE s == OpSize(t)
             x == Wrap(a, s)
             y == Wrap(d, s)
             sx == Extend64(x, t)
             sy == Extend64(y, t)
  <2>1. gen_binary(op, t, a, d) =
          Some(IF op = "==" THEN Bool(x = y) ELSE IF op = "!=" THEN Bool(x # y)
               ELSE IF op = "<" THEN Bool(sx < sy) ELSE Bool(sx <= sy))
    BY <1>0 DEF gen_binary, OpSize, Extend64, Bitwises
  <2>2. sx = L /\ sy = R /\ x = Wrap(L, s) /\ y = Wrap(R, s)
    BY <1>3, OperandReg
  <2>3. (x = y) <=> (L = R)
    BY ONLY <2>2
  <2> HIDE DEF s, x, y, sx, sy
  <2>4. Bool(x = y) = Bool(L = R) /\ Bool(x # y) = Bool(L # R)
    BY <2>3 DEF Bool
  <2> QED
    BY <1>1, <2>1, <2>2, <2>4
<1>4. ASSUME NEW m, NEW n, IsOperand(m, t, L), IsOperand(n, t, R)
      PROVE  eval_binary(op, t, m, n) = Meaning(op, u, L, R)
  <2> DEFINE x == IF IsUnsigned(t) THEN U64(m) ELSE m
             y == IF IsUnsigned(t) THEN U64(n) ELSE n
  <2>1. eval_binary(op, t, m, n) =
          Some(IF op = "==" THEN Bool(m = n) ELSE IF op = "!=" THEN Bool(m # n)
               ELSE IF op = "<" THEN Bool(x < y) ELSE Bool(x <= y))
    <3>1. CASE IsUnsigned(t)
      BY <1>0, <3>1 DEF eval_binary, Bitwises
    <3>2. CASE ~IsUnsigned(t)
      BY <1>0, <3>2 DEF eval_binary, Bitwises
    <3> QED
      BY <3>1, <3>2
  <2>2. x = L /\ y = R
    BY <1>4, OperandConst
  <2>3. (m = n) <=> (L = R)
    BY <1>4, SameConst
  <2> HIDE DEF x, y
  <2>4. Bool(m = n) = Bool(L = R) /\ Bool(m # n) = Bool(L # R)
    BY <2>3 DEF Bool
  <2> QED
    BY <1>1, <2>1, <2>2, <2>4
<1> QED
  BY <1>2, <1>3, <1>4

LEMMA PromoteTwice ==
  ASSUME NEW t \in Types
  PROVE  Promote(t) \in {"int", "uint", "long", "ulong"} /\ Promote(Promote(t)) = Promote(t)
  BY DEF Types, Promote, Size

\* C's usual conversions without the set they are defined on.
LEMMA UsualCases ==
  ASSUME NEW t1 \in Types, NEW t2 \in Types
  PROVE  Usual(t1, t2) =
           IF "ulong" \in {Promote(t1), Promote(t2)} THEN "ulong"
           ELSE IF "long" \in {Promote(t1), Promote(t2)} THEN "long"
           ELSE IF "uint" \in {Promote(t1), Promote(t2)} THEN "uint" ELSE "int"
<1> DEFINE p == {Promote(t1), Promote(t2)}
<1>1. p \subseteq {"int", "uint", "long", "ulong"} /\ p # {}
  BY PromoteTwice
<1>2. Usual(t1, t2) = CASE "ulong" \in p -> "ulong"
                        [] "ulong" \notin p /\ "long" \in p -> "long"
                        [] p \cap {"ulong", "long"} = {} /\ "uint" \in p -> "uint"
                        [] p = {"int"} -> "int"
  BY DEF Usual
<1> HIDE DEF p
<1>3. CASE "ulong" \in p
  BY <1>2, <1>3 DEF p
<1>4. CASE "ulong" \notin p /\ "long" \in p
  BY <1>2, <1>4 DEF p
<1>5. CASE "ulong" \notin p /\ "long" \notin p /\ "uint" \in p
  <2>1. p \cap {"ulong", "long"} = {}
    BY <1>5
  <2> QED BY <1>2, <1>5, <2>1 DEF p
<1>6. CASE "ulong" \notin p /\ "long" \notin p /\ "uint" \notin p
  <2>1. p = {"int"}
    BY <1>1, <1>6
  <2> QED BY <1>2, <1>6, <2>1 DEF p
<1> QED BY <1>3, <1>4, <1>5, <1>6

\* The usual conversions as the compiler makes them, an enum apart, are C's.
LEMMA CommonIsUsual ==
  ASSUME NEW t1 \in Types, NEW t2 \in Types
  PROVE  /\ get_common_type(t1, t2) \in Types
         /\ Promote(get_common_type(t1, t2)) = Usual(t1, t2)
<1>1. get_common_type(t1, t2) \in Types
  BY DEF get_common_type, Types
<1>2. CASE Size(t1) < 4 /\ Size(t2) < 4
  BY <1>2, UsualCases DEF get_common_type, Types, Promote, Size, IsUnsigned
<1>3. CASE Size(t1) < 4 /\ ~(Size(t2) < 4)
  BY <1>3, UsualCases DEF get_common_type, Types, Promote, Size, IsUnsigned
<1>4. CASE ~(Size(t1) < 4) /\ Size(t2) < 4
  BY <1>4, UsualCases DEF get_common_type, Types, Promote, Size, IsUnsigned
<1>5. CASE ~(Size(t1) < 4) /\ ~(Size(t2) < 4)
  BY <1>5, UsualCases DEF get_common_type, Types, Promote, Size, IsUnsigned
<1> QED BY <1>1, <1>2, <1>3, <1>4, <1>5

\* So they depend on the promoted types only.
LEMMA UsualOfPromoted ==
  ASSUME NEW t1 \in Types, NEW t2 \in Types, NEW u1 \in Types, NEW u2 \in Types,
         Promote(t1) = Promote(u1), Promote(t2) = Promote(u2)
  PROVE  /\ Usual(t1, t2) = Usual(u1, u2)
         /\ Usual(t1, t2) \in Types /\ Promote(Usual(t1, t2)) = Usual(t1, t2)
<1>1. Usual(t1, t2) = Usual(u1, u2)
  BY UsualCases
<1>2. Usual(t1, t2) \in {"int", "uint", "long", "ulong"}
  BY UsualCases
<1>3. \A t \in {"int", "uint", "long", "ulong"} : t \in Types /\ Promote(t) = t
  BY DEF Types, Promote, Size
<1> QED BY <1>1, <1>2, <1>3

\* The compiler's type of an expression, and C's: the code keeps an enum where C
\* has its int.
TypePair(t, u) == u = t \/ (t = "enum" /\ u = "int")

LEMMA SameType ==
  ASSUME NEW t \in Types, NEW u, TypePair(t, u)
  PROVE  /\ u \in Types /\ Size(u) = Size(t) /\ Vals(u) = Vals(t) /\ Promote(u) = Promote(t)
         /\ \A n : As(n, u) = As(n, t) /\ Converted(n, u) = Converted(n, t)
<1>1. CASE u = t
  BY <1>1
<1>2. CASE t = "enum" /\ u = "int"
  <2>1. /\ Size("enum") = 4 /\ Size("int") = 4 /\ ~IsUnsigned("enum") /\ ~IsUnsigned("int")
        /\ Promote("enum") = "int" /\ Promote("int") = "int" /\ "int" \in Types
    BY DEF Size, IsUnsigned, Promote, Types
  <2>2. Vals("int") = Vals("enum")
    BY <2>1 DEF Vals
  <2>3. \A n : As(n, "int") = As(n, "enum")
    BY <2>1 DEF As
  <2>4. \A n : Converted(n, "int") = Converted(n, "enum")
    BY <2>3 DEF Converted
  <2> QED
    BY <1>2, <2>1, <2>2, <2>3, <2>4
<1> QED
  BY <1>1, <1>2 DEF TypePair

LEMMA CommonTypes ==
  ASSUME NEW t1 \in Types, NEW t2 \in Types, NEW u1, NEW u2, TypePair(t1, u1), TypePair(t2, u2)
  PROVE  /\ get_common_type(t1, t2) \in Promoted \cup {"enum"} /\ get_common_type(t1, t2) \in Types
         /\ Usual(u1, u2) \in Promoted
         /\ TypePair(get_common_type(t1, t2), Usual(u1, u2))
<1> DEFINE t == get_common_type(t1, t2)
           u == Usual(u1, u2)
<1>1. u1 \in Types /\ u2 \in Types /\ Promote(u1) = Promote(t1) /\ Promote(u2) = Promote(t2)
  BY SameType
<1>2. t \in Types /\ Promote(t) = Usual(t1, t2)
  BY CommonIsUsual
<1>3. Usual(t1, t2) = u
  BY <1>1, UsualOfPromoted
<1>4. u \in Promoted
  BY <1>1, UsualCases DEF Promoted
<1>5. t \in Promoted \cup {"enum"}
  BY DEF get_common_type, Types, Size, Promoted
<1> HIDE DEF t, u
<1>6. CASE t = "enum"
  <2>1. Promote("enum") = "int"
    BY DEF Promote
  <2> QED
    BY <1>2, <1>3, <1>4, <1>5, <1>6, <2>1 DEF TypePair, t, u
<1>7. CASE t \in Promoted
  <2>1. Promote(t) = t
    BY <1>7, PromotedTypes
  <2> QED
    BY <1>2, <1>3, <1>4, <1>5, <2>1 DEF TypePair, t, u
<1> QED
  BY <1>5, <1>6, <1>7

(***************************************************************************)
(* Expressions.  The inductive invariant: the register holds the value, and *)
(* the constant stands for it.                                              *)
(***************************************************************************)
Right(e) ==
  /\ e.ty \in Types /\ TypePair(e.ty, e.cty)
  /\ e.cval # None =>
       /\ e.rax # None /\ InReg(e.rax[1], e.ty, e.cval[1])
       /\ e.val # None => InConst(e.val[1], e.ty, e.cval[1])

LEMMA RightValue ==
  ASSUME NEW e, Right(e), e.cval # None
  PROVE  /\ e.cval[1] \in Vals(e.ty) /\ e.cval[1] \in Int
         /\ e.cval[1] \in Vals(e.cty) /\ e.cval[1] \in Vals(Promote(e.cty))
<1>1. e.ty \in Types /\ e.cval[1] \in Vals(e.ty)
  BY DEF Right, InReg
<1>2. e.cval[1] \in Int
  BY <1>1, ValsInt
<1>3. e.cty \in Types /\ Vals(e.cty) = Vals(e.ty)
  BY <1>1, SameType DEF Right
<1> QED
  BY <1>1, <1>2, <1>3, PromotedVals

\* What a conversion adds.
LEMMA RaxOf ==
  ASSUME NEW e, Right(e), e.cval # None, NEW t \in Types,
         t = "enum" => e.ty \notin {"uint", "long", "ulong"}
  PROVE  RaxAs(e, t) # None /\ InReg(RaxAs(e, t)[1], t, Converted(e.cval[1], t))
<1>1. e.ty \in Types /\ e.rax # None /\ InReg(e.rax[1], e.ty, e.cval[1])
  BY DEF Right
<1>2. RaxAs(e, t) = Some(cast_type(e.ty, t, e.rax[1]))
  BY <1>1 DEF RaxAs, Map, Then
<1>3. InReg(cast_type(e.ty, t, e.rax[1]), t, Converted(e.cval[1], t))
  BY <1>1, CastReg
<1> QED
  BY <1>2, <1>3, SomeIs

LEMMA ValOf ==
  ASSUME NEW e, Right(e), e.cval # None, NEW t \in Types, PlainCast(e, t), ValAs(e, t) # None
  PROVE  /\ InConst(ValAs(e, t)[1], t, Converted(e.cval[1], t))
         /\ t \in Promoted \cup {"enum"} => IsOperand(ValAs(e, t)[1], t, Converted(e.cval[1], t))
<1>1. e.val # None
  BY DEF ValAs, Map, Then
<1>2. ValAs(e, t) = Some(eval_cast(t, e.val[1]))
  BY <1>1 DEF ValAs, Map, Then
<1>3. e.ty \in Types /\ e.cval[1] \in Vals(e.ty) /\ InConst(e.val[1], e.ty, e.cval[1])
  BY <1>1, RightValue DEF Right
<1>4. Size(t) = 8 => e.val[1] = I64(e.cval[1])
  BY <1>1 DEF PlainCast, Exact
<1>5. t = "bool" => e.val[1] \in {0, 1}
  BY <1>1, SomeIs DEF PlainCast
<1>6. /\ InConst(eval_cast(t, e.val[1]), t, Converted(e.cval[1], t))
      /\ t \in Promoted \cup {"enum"} => IsOperand(eval_cast(t, e.val[1]), t, Converted(e.cval[1], t))
  BY <1>3, <1>4, <1>5, CastConst
<1> QED
  BY <1>2, <1>6, SomeIs

LEMMA ValueOf ==
  ASSUME NEW e, NEW t
  PROVE  /\ ValueAs(e, t) # None <=> e.cval # None
         /\ e.cval # None => /\ ValueAs(e, t) = Some(Converted(e.cval[1], t))
                             /\ ValueAs(e, t)[1] = Converted(e.cval[1], t)
  BY SomeIs DEF ValueAs, Map, Then

\* A conversion that the parser makes, and the value of an assignment.
LEMMA CastRight ==
  ASSUME NEW e, Right(e), NEW t \in Types, PlainCast(e, t)
  PROVE  Right(Cast(e, t)) /\ Right(Assign(t, e))
<1>1. /\ Cast(e, t).ty = t /\ Cast(e, t).cty = t /\ Cast(e, t).rax = RaxAs(e, t)
      /\ Cast(e, t).val = ValAs(e, t) /\ Cast(e, t).cval = ValueAs(e, t)
  BY DEF Cast
<1>2. /\ Assign(t, e).ty = t /\ Assign(t, e).cty = t /\ Assign(t, e).rax = RaxAs(e, t)
      /\ Assign(t, e).val = None /\ Assign(t, e).cval = ValueAs(e, t)
  BY DEF Assign, Cast
<1>3. ASSUME ValueAs(e, t) # None
      PROVE  /\ RaxAs(e, t) # None /\ InReg(RaxAs(e, t)[1], t, ValueAs(e, t)[1])
             /\ ValAs(e, t) # None => InConst(ValAs(e, t)[1], t, ValueAs(e, t)[1])
  <2>1. e.cval # None /\ ValueAs(e, t)[1] = Converted(e.cval[1], t)
    BY <1>3, ValueOf
  <2>2. t = "enum" => e.ty \notin {"uint", "long", "ulong"}
    BY DEF PlainCast
  <2> QED
    BY <2>1, <2>2, RaxOf, ValOf
<1> QED
  BY <1>1, <1>2, <1>3 DEF Right, TypePair

\* An object's bytes give its value back.
LEMMA LoadReg ==
  ASSUME NEW t \in Types, NEW v \in Vals(t), NEW n \in Int, Cong(n, v, Modulus(Size(t)))
  PROVE  InReg(load(n, t), t, v)
<1>1. /\ Size(t) \in Sizes /\ RegSize(t) \in Sizes /\ v \in Int /\ 4 \in Sizes /\ 8 \in Sizes
      /\ Size(t) < 4 \/ Size(t) = 4 \/ Size(t) = 8
  BY SizeType, ValsInt, SizesOrder, TypeNames
<1>2. CASE Size(t) < 4
  <2>1. As(n, t) = v
    BY AsUnique
  <2>2. load(n, t) = Wrap(v, 4)
    BY <1>2, <2>1 DEF load
  <2>3. t # "enum" /\ RegSize(t) = 4
    BY <1>2, TypeNames DEF RegSize, Size
  <2>4. Cong(v, v, Modulus(4))
    BY <1>1, CongSame, Widths
  <2> QED
    BY <1>1, <2>2, <2>3, <2>4, InHalf
<1>3. CASE Size(t) >= 4
  <2> DEFINE x == Signed(n, Size(t))
  <2>1. load(n, t) = Wrap(x, 8)
    BY <1>3, SizeType DEF load
  <2>2. x \in Int /\ Cong(x, n, Modulus(Size(t))) /\ Modulus(Size(t)) \in Int /\ Size(t) = RegSize(t)
    BY <1>1, <1>3, SignedIs, Widths, SizeType
  <2>3. t # "enum" => InReg(Wrap(x, 8), t, v)
    <3> HIDE DEF x
    <3>1. Cong(x, v, Modulus(RegSize(t)))
      BY <1>1, <2>2, CongOn
    <3>2. 8 >= RegSize(t)
      BY <1>1, SizesOrder
    <3> QED
      BY <1>1, <2>2, <3>1, <3>2, InHalf
  <2>4. ASSUME t = "enum" PROVE InReg(Wrap(x, 8), t, v)
    <3>1. v \in -Half(Size(t))..(Half(Size(t)) - 1)
      BY <2>4 DEF Vals, IsUnsigned
    <3>2. x = v
      BY <1>1, <3>1, SignedUnique
    <3>3. Wrap(v, 8) \in 0..(Modulus(8) - 1) /\ Cong(Wrap(v, 8), v, Modulus(8))
      BY <1>1, WrapIs
    <3> QED
      BY <3>2, <3>3, InWhole
  <2> QED
    BY <2>1, <2>3, <2>4
<1> QED
  BY <1>1, <1>2, <1>3

\* What was stored in an object is read from it again.
LEMMA AssignedRight ==
  ASSUME NEW e, Right(e), NEW t \in Types, PlainCast(e, t)
  PROVE  Right(Assigned(t, e))
<1>1. /\ Assigned(t, e).ty = t /\ Assigned(t, e).cty = t
      /\ Assigned(t, e).val = None /\ Assigned(t, e).cval = ValueAs(e, t)
      /\ Assigned(t, e).rax = Map(LAMBDA n : load(store(n, t), t), RaxAs(e, t))
  BY DEF Assigned, Assign, Cast
<1>2. ASSUME ValueAs(e, t) # None
      PROVE  /\ Assigned(t, e).rax # None /\ InReg(Assigned(t, e).rax[1], t, ValueAs(e, t)[1])
  <2>1. e.cval # None /\ ValueAs(e, t)[1] = Converted(e.cval[1], t)
    BY <1>2, ValueOf
  <2> DEFINE n == RaxAs(e, t)[1]
             v == Converted(e.cval[1], t)
  <2>2. RaxAs(e, t) # None /\ InReg(n, t, v)
    BY <2>1, RaxOf DEF PlainCast
  <2>3. Assigned(t, e).rax = Some(load(Wrap(n, Size(t)), t))
    BY <1>1, <2>2 DEF Map, Then, store
  <2> HIDE DEF n, v
  <2>4. n \in Int /\ v \in Int /\ v \in Vals(t) /\ Cong(n, v, Modulus(Size(t))) /\ Size(t) \in Sizes
    BY <2>2, InRegFacts, SizeType
  <2> DEFINE w == Wrap(n, Size(t))
  <2>5. w \in Int /\ Cong(w, n, Modulus(Size(t))) /\ Modulus(Size(t)) \in Int
    BY <2>4, WrapIs, Widths
  <2> HIDE DEF w
  <2>6. Cong(w, v, Modulus(Size(t)))
    BY <2>4, <2>5, CongOn
  <2>7. InReg(load(w, t), t, v)
    BY <2>4, <2>5, <2>6, LoadReg
  <2> QED
    BY <2>1, <2>3, <2>7, SomeIs DEF w, v
<1> QED
  BY <1>1, <1>2 DEF Right, TypePair

LEMMA LeafRight ==
  ASSUME NEW t \in Types, NEW n \in Vals(t)
  PROVE  Right(Var(t, n)) /\ Right(Num(t, n))
<1>1. n \in Int /\ 8 \in Sizes /\ Size(t) \in Sizes /\ RegSize(t) \in Sizes /\ RegSize(t) <= 8
  BY ValsInt, SizesOrder, SizeType
<1>2. Cong(n, n, Modulus(Size(t)))
  BY <1>1, CongSame, Widths
<1>3. InReg(load(n, t), t, n)
  BY <1>1, <1>2, LoadReg
<1>4. InReg(Wrap(n, 8), t, n)
  <2>1. Wrap(n, 8) \in 0..(Modulus(8) - 1) /\ Cong(Wrap(n, 8), n, Modulus(8))
    BY <1>1, WrapIs
  <2> QED
    BY <2>1, InWhole
<1>5. InConst(I64(n), t, n)
  <2>1. I64(n) \in Int /\ Cong(I64(n), n, Modulus(8))
    BY <1>1, SignedIs DEF I64
  <2> QED
    BY <1>1, <2>1, CongNarrow DEF InConst
<1>6. /\ Var(t, n).ty = t /\ Var(t, n).cty = t /\ Var(t, n).rax = Some(load(n, t))
      /\ Var(t, n).val = None /\ Var(t, n).cval = Some(n)
  BY DEF Var
<1>7. /\ Num(t, n).ty = t /\ Num(t, n).cty = t /\ Num(t, n).rax = Some(Wrap(n, 8))
      /\ Num(t, n).val = Some(I64(n)) /\ Num(t, n).cval = Some(n)
  BY DEF Num
<1> QED
  BY <1>3, <1>4, <1>5, <1>6, <1>7, SomeIs DEF Right, TypePair

LEMMA ValuesFit ==
  ASSUME NEW t \in Types, NEW n \in Values[t]
  PROVE  n \in Int /\ n \in Vals(t)
<1>1. n \in Int /\ Converted(n, t) = n
  BY ValuesAssumption
<1> QED
  BY <1>1, ConvertedIs

\* The small literals that the parser makes itself.
LEMMA SmallValues ==
  /\ \A n \in {-1, 0, 1} : n \in Vals("int")
  /\ \A n \in {1, 2, 4, 8} : n \in Vals("ulong")
  /\ "int" \in Types /\ "ulong" \in Types
<1>1. Size("int") = 4 /\ Size("ulong") = 8 /\ ~IsUnsigned("int") /\ IsUnsigned("ulong")
      /\ "int" \in Types /\ "ulong" \in Types
  BY DEF Size, IsUnsigned, Types
<1>2. Half(4) \in Nat /\ Half(4) >= 2 /\ Half(8) \in Nat /\ Modulus(8) = 2 * Half(8)
  BY Widths, SizesOrder
<1>3. Half(8) >= 5
  <2> DEFINE b == Bits[8] - 1
  <2>1. b \in 0..Bits[8] /\ b >= 4 /\ b \in Nat
    BY BitsAssumption
  <2> HIDE DEF b
  <2>2. b < Pow2[b]
    BY <2>1, BelowPow2
  <2>3. Half(8) = Pow2[b]
    BY DEF Half, b
  <2> QED
    BY <1>2, <2>1, <2>2, <2>3
<1> DEFINE h == Half(4)
           H == Half(8)
           M == Modulus(8)
<1>4. Vals("int") = -h..(h - 1) /\ Vals("ulong") = 0..(M - 1)
  BY <1>1 DEF Vals
<1>5. h \in Nat /\ h >= 2 /\ H \in Nat /\ H >= 5 /\ M = 2 * H
  BY <1>2, <1>3
<1> HIDE DEF h, H, M
<1>6. -1 \in Vals("int") /\ 0 \in Vals("int") /\ 1 \in Vals("int")
  BY <1>4, <1>5
<1>7. 1 \in Vals("ulong") /\ 2 \in Vals("ulong") /\ 4 \in Vals("ulong") /\ 8 \in Vals("ulong")
  BY <1>4, <1>5
<1> QED
  BY <1>1, <1>6, <1>7

LEMMA LeavesRight == (\A e \in Leaves : Right(e)) /\ \A n \in {-1, 0, 1} : Right(Num("int", n))
<1>1. ASSUME NEW e \in Variables PROVE Right(e)
  <2>1. PICK t \in Types : \E n \in Values[t] : e = Var(t, n)
    BY DEF Variables
  <2>2. PICK n \in Values[t] : e = Var(t, n)
    BY <2>1
  <2> QED
    BY <2>2, ValuesFit, LeafRight
<1>2. ASSUME NEW t \in {"int", "uint", "long", "ulong"}, NEW n \in Values[t]
      PROVE  Right(Num(t, n))
  <2>1. t \in Types
    BY DEF Types
  <2> QED
    BY <2>1, ValuesFit, LeafRight
<1>3. ASSUME NEW e \in Leaves PROVE Right(e)
  <2>1. CASE e \in Variables
    BY <1>1, <2>1
  <2>2. CASE \E t \in {"int", "uint", "long", "ulong"} : \E n \in Values[t] \cap Nat : e = Num(t, n)
    BY <1>2, <2>2
  <2> QED
    BY <2>1, <2>2 DEF Leaves
<1> QED
  BY <1>3, LeafRight, SmallValues

LEMMA SizeofRight ==
  ASSUME NEW e, Right(e)
  PROVE  Right(Sizeof(e))
<1> DEFINE n == Size(e.ty)
<1>1. Size(e.cty) = n /\ n \in {1, 2, 4, 8}
  BY SameType, SizeType DEF Right, Sizes
<1>2. /\ Sizeof(e).ty = Num("ulong", n).ty /\ Sizeof(e).cty = Num("ulong", n).cty
      /\ Sizeof(e).rax = Num("ulong", n).rax /\ Sizeof(e).val = Num("ulong", n).val
      /\ Sizeof(e).cval = Num("ulong", n).cval
  BY <1>1 DEF Sizeof, Num
<1> HIDE DEF n
<1>3. Right(Num("ulong", n))
  BY <1>1, SmallValues, LeafRight
<1> QED
  BY <1>2, <1>3 DEF Right

LEMMA CommaRight ==
  ASSUME NEW l, NEW r, Right(l), Right(r)
  PROVE  Right(Comma(l, r))
<1>1. /\ Comma(l, r).ty = r.ty /\ Comma(l, r).cty = r.cty /\ Comma(l, r).val = r.val
      /\ Comma(l, r).rax = IF l.rax = None THEN None ELSE r.rax
      /\ Comma(l, r).cval = IF l.cval = None THEN None ELSE r.cval
  BY DEF Comma
<1> QED
  BY <1>1 DEF Right

\* - is done on all 64 bits.
LEMMA NegRight ==
  ASSUME NEW e, Right(e), PlainCast(e, get_common_type("int", e.ty))
  PROVE  Right(Neg(e))
<1> DEFINE t == get_common_type("int", e.ty)
           c == Promote(e.cty)
           v == e.cval[1]
<1>1. e.ty \in Types /\ TypePair(e.ty, e.cty) /\ "int" \in Types /\ "int" \in Promoted
  BY SmallValues DEF Right, Promoted
<1>2. t \in Promoted /\ t = c
  <2>1. t \in Promoted
    <3>1. t \in Promoted \cup {"enum"}
      BY <1>1, CommonTypes DEF TypePair
    <3>2. t # "enum"
      BY DEF get_common_type, Size, IsUnsigned
    <3> QED
      BY <3>1, <3>2
  <2>2. e.cty \in Types /\ Promote(e.cty) = Promote(e.ty)
    BY <1>1, SameType
  <2>3. Promote(t) = Usual("int", e.ty) /\ Promote(t) = t
    BY <1>1, <2>1, CommonIsUsual, PromotedTypes
  <2>4. Usual("int", e.ty) = Promote(e.ty)
    <3>1. Promote(e.ty) \in {"int", "uint", "long", "ulong"} /\ Promote("int") = "int"
      BY <1>1, PromoteTwice, PromotedTypes
    <3> QED
      BY <1>1, <3>1, UsualCases
  <2> QED
    BY <2>1, <2>2, <2>3, <2>4
<1>3. /\ Neg(e).ty = t /\ Neg(e).cty = c
      /\ Neg(e).rax = Map(LAMBDA n : Wrap(-n, 8), RaxAs(e, t))
      /\ Neg(e).val = None \/ Neg(e).val = Map(LAMBDA n : -n, ValAs(e, t))
      /\ Neg(e).cval = Then(e.cval, LAMBDA n : Result(-n, c))
  BY DEF Neg
<1> HIDE DEF t, c
<1>4. /\ t \in Types /\ t # "bool" /\ t # "enum" /\ Size(t) = RegSize(t)
      /\ Size(t) \in Sizes /\ 8 \in Sizes /\ Size(t) <= 8
  BY <1>2, PromotedTypes, SizesOrder
<1>5. ASSUME Neg(e).cval # None
      PROVE  /\ Neg(e).rax # None /\ InReg(Neg(e).rax[1], t, Neg(e).cval[1])
             /\ Neg(e).val # None => InConst(Neg(e).val[1], t, Neg(e).cval[1])
  <2>1. e.cval # None /\ Neg(e).cval = Result(-v, c)
    BY <1>3, <1>5 DEF Then
  <2>2. Neg(e).cval[1] = As(-v, t)
    BY <1>2, <1>5, <2>1, ResultIs
  <2>3. v \in Int /\ v \in Vals(t) /\ Converted(v, t) = v
    BY <1>2, <1>4, <2>1, RightValue, ConvertedIs DEF c
  <2> HIDE DEF v
  <2> DEFINE r == RaxAs(e, t)[1]
             M == Modulus(Size(t))
             w == As(-v, t)
  <2>4. RaxAs(e, t) # None /\ InReg(r, t, v)
    BY <1>4, <2>1, <2>3, RaxOf DEF v
  <2>5. r \in Int /\ Cong(r, v, M) /\ M \in Int
    BY <1>4, <2>4, InRegFacts, Widths, SizesOrder
  <2>6. -v \in Int
    BY <2>3
  <2>7. w \in Int /\ w \in Vals(t) /\ Cong(w, -v, M)
    BY <1>4, <2>6, AsIs
  <2> HIDE DEF r, M, w
  <2>8. Cong(-v, w, M)
    BY <2>5, <2>6, <2>7, CongBack
  <2>9. Neg(e).rax = Some(Wrap(-r, 8))
    BY <1>3, <2>4 DEF Map, Then, r
  <2>10. InReg(Wrap(-r, 8), t, w)
    <3>1. -r \in Int /\ Cong(-r, -v, M)
      BY <2>3, <2>5, CongMinus
    <3>2. Cong(-r, w, M)
      BY <2>5, <2>6, <2>7, <2>8, <3>1, CongOn
    <3> QED
      BY <1>4, <2>7, <3>1, <3>2, InHalf DEF M
  <2>11. ASSUME Neg(e).val # None
         PROVE  InConst(Neg(e).val[1], t, w)
    <3> DEFINE n == ValAs(e, t)[1]
    <3>1. ValAs(e, t) # None /\ Neg(e).val = Some(-n)
      BY <1>3, <2>11 DEF Map, Then
    <3>2. IsOperand(n, t, v)
      BY <1>2, <1>4, <2>1, <2>3, <3>1, ValOf DEF t, v
    <3>3. n \in Int /\ Cong(n, v, M)
      BY <1>2, <3>2, OperandConst DEF M
    <3> HIDE DEF n
    <3>4. -n \in Int /\ Cong(-n, -v, M)
      BY <2>3, <2>5, <3>3, CongMinus
    <3>5. Cong(-n, w, M)
      BY <2>5, <2>6, <2>7, <2>8, <3>4, CongOn
    <3> QED
      BY <1>4, <3>1, <3>4, <3>5, SomeIs DEF InConst, M
  <2> QED
    BY <2>2, <2>9, <2>10, <2>11, SomeIs DEF w
<1> QED
  BY <1>2, <1>3, <1>4, <1>5 DEF Right, TypePair

\* So is ~, in the type of an operand that needs no promotion.
LEMMA BitNotRight ==
  ASSUME NEW e, Right(e), PlainNot(e)
  PROVE  Right(BitNot(e))
<1> DEFINE t == e.ty
           c == Promote(e.cty)
           v == e.cval[1]
<1>1. t \in Types /\ TypePair(t, e.cty) /\ Size(t) >= 4
  BY DEF Right, PlainNot
<1>2. TypePair(t, c) /\ t # "bool"
  <2>1. e.cty \in Types /\ Promote(e.cty) = Promote(t)
    BY <1>1, SameType
  <2>2. t \in {"int", "uint", "long", "ulong", "enum"}
    BY <1>1, TypeNames, SizeType DEF Types
  <2>3. Promote(t) = IF t = "enum" THEN "int" ELSE t
    BY <2>2, PromotedTypes DEF Promoted, Promote
  <2> QED
    BY <2>1, <2>2, <2>3 DEF TypePair
<1>3. /\ BitNot(e).ty = t /\ BitNot(e).cty = c
      /\ BitNot(e).rax = Map(LAMBDA n : Wrap(-n - 1, 8), e.rax)
      /\ BitNot(e).val = Map(LAMBDA n : -n - 1, e.val)
      /\ BitNot(e).cval = Map(LAMBDA n : As(-n - 1, c), e.cval)
  BY DEF BitNot
<1>4. \A n : As(n, c) = As(n, t)
  BY <1>1, <1>2, SameType
<1> HIDE DEF c
<1>5. ASSUME BitNot(e).cval # None
      PROVE  /\ BitNot(e).rax # None /\ InReg(BitNot(e).rax[1], t, BitNot(e).cval[1])
             /\ BitNot(e).val # None => InConst(BitNot(e).val[1], t, BitNot(e).cval[1])
  <2> DEFINE w == As(-v - 1, t)
             r == e.rax[1]
             M == Modulus(RegSize(t))
             x == -v - 1
  <2>1. e.cval # None /\ BitNot(e).cval[1] = w
    BY <1>3, <1>4, <1>5, SomeIs DEF Map, Then
  <2>2. e.rax # None /\ InReg(r, t, v) /\ BitNot(e).rax = Some(Wrap(-r - 1, 8))
    BY <1>3, <2>1 DEF Right, Map, Then
  <2>3. /\ RegSize(t) \in Sizes /\ 8 \in Sizes /\ RegSize(t) <= 8 /\ RegSize(t) = Size(t)
        /\ M \in Int /\ Modulus(8) \in Int
    BY <1>1, SizeType, SizesOrder, Widths
  <2>4. v \in Vals(t) /\ v \in Int /\ x \in Int
    BY <1>1, <2>2, InRegFacts
  <2>5. w \in Int /\ w \in Vals(t) /\ Cong(w, x, M)
    BY <1>1, <1>2, <2>3, <2>4, AsIs
  <2>6. ~IsUnsigned(t) => w = x
    <3>1. ASSUME ~IsUnsigned(t) PROVE w = x
      <4> DEFINE h == Half(Size(t))
      <4>1. h \in Nat /\ v \in -h..(h - 1)
        BY <1>1, <1>2, <2>3, <2>4, <3>1, Widths DEF Vals
      <4>2. x \in -h..(h - 1)
        BY <2>4, <4>1
      <4>3. x \in Vals(t)
        BY <1>2, <3>1, <4>2 DEF Vals
      <4>4. Cong(x, x, Modulus(Size(t)))
        BY <2>3, <2>4, CongSame
      <4> HIDE DEF x
      <4>5. As(x, t) = x
        BY <1>1, <2>4, <4>3, <4>4, AsUnique
      <4> QED
        BY <4>5 DEF x
    <3> QED
      BY <3>1
  <2>7. x = -v - 1
    OBVIOUS
  <2> HIDE DEF w, M, x, v
  <2>8. Cong(x, w, M)
    BY <2>3, <2>4, <2>5, CongBack
  <2>9. ASSUME NEW n \in Int, Cong(n, v, M)
        PROVE  -n - 1 \in Int /\ Cong(-n - 1, w, M)
    <3>1. Cong(-n - 1, x, M) /\ -n - 1 \in Int
      BY <2>3, <2>4, <2>7, <2>9, CongMinus
    <3> QED
      BY <2>3, <2>4, <2>5, <2>8, <3>1, CongOn
  <2>10. InReg(Wrap(-r - 1, 8), t, w)
    <3>1. r \in Int /\ Cong(r, v, M)
      BY <1>1, <2>2, <2>3, InRegFacts, SizesOrder DEF M
    <3> DEFINE q == -r - 1
    <3>2. q \in Int /\ Cong(q, w, M)
      BY <2>9, <3>1
    <3>3. CASE t # "enum"
      <4> HIDE DEF q
      <4>1. InReg(Wrap(q, 8), t, w)
        BY <1>1, <2>3, <2>5, <3>2, <3>3, InHalf DEF M
      <4> QED
        BY <4>1 DEF q
    <3>4. CASE t = "enum"
      <4>1. Cong(r, v, Modulus(8)) /\ w = x
        BY <2>2, <2>6, <3>4 DEF InReg, IsUnsigned
      <4>2. Cong(q, w, Modulus(8))
        BY <2>3, <2>4, <2>7, <3>1, <4>1, CongMinus
      <4> HIDE DEF q
      <4>3. Wrap(q, 8) \in 0..(Modulus(8) - 1) /\ Wrap(q, 8) \in Int /\ Cong(Wrap(q, 8), q, Modulus(8))
        BY <2>3, <3>2, WrapIs
      <4>4. Cong(Wrap(q, 8), w, Modulus(8))
        BY <2>3, <2>5, <3>2, <4>2, <4>3, CongOn
      <4>5. InReg(Wrap(q, 8), t, w)
        BY <1>1, <2>5, <4>3, <4>4, InWhole
      <4> QED
        BY <4>5 DEF q
    <3> QED
      BY <3>3, <3>4
  <2>11. ASSUME BitNot(e).val # None
         PROVE  InConst(BitNot(e).val[1], t, w)
    <3> DEFINE n == e.val[1]
    <3>1. e.val # None /\ BitNot(e).val = Some(-n - 1)
      BY <1>3, <2>11 DEF Map, Then
    <3>2. n \in Int /\ Cong(n, v, M)
      BY <2>1, <3>1 DEF Right, InConst, M, v
    <3> HIDE DEF n
    <3>3. -n - 1 \in Int /\ Cong(-n - 1, w, M)
      BY <2>9, <3>2
    <3> QED
      BY <3>1, <3>3, SomeIs DEF InConst, M
  <2> QED
    BY <2>1, <2>2, <2>10, <2>11, SomeIs
<1> QED
  BY <1>1, <1>2, <1>3, <1>5 DEF Right

\* A constant that is exact is zero when its value is.
LEMMA ExactZero ==
  ASSUME NEW e, Right(e), Exact(e), e.val # None, e.cval # None
  PROVE  e.val[1] = 0 <=> e.cval[1] = 0
<1> DEFINE v == e.cval[1]
           n == e.val[1]
<1>1. e.ty \in Types /\ v \in Vals(e.ty) /\ v \in Int /\ n = I64(v) /\ 8 \in Sizes /\ Size(e.ty) <= 8
  BY RightValue, SizeType, SizesOrder DEF Right, Exact
<1>2. n \in Int /\ Cong(n, v, Modulus(8)) /\ Modulus(8) \in Int /\ Half(8) \in Nat /\ Half(8) >= 2
  BY <1>1, SignedIs, Widths DEF I64
<1>3. n = 0 => v = 0
  BY <1>1, <1>2, ZeroOnly
<1>4. v = 0 => n = 0
  <2>1. Cong(0, 0, Modulus(8)) /\ 0 \in -Half(8)..(Half(8) - 1)
    BY <1>2, CongSame
  <2>2. Signed(0, 8) = 0
    BY <1>1, <2>1, SignedUnique
  <2> QED
    BY <1>1, <2>2 DEF I64
<1> QED
  BY <1>3, <1>4

\* The int that a test leaves.
LEMMA BoolRight ==
  ASSUME NEW e, e.ty = "int", e.cty = "int",
         NEW b, e.cval # None => e.cval = Some(Bool(b)) /\ e.rax = Some(Bool(b))
                                 /\ (e.val # None => e.val = Some(Bool(b)))
  PROVE  Right(e)
  BY BoolInReg, SmallValues, SomeIs DEF Right, TypePair

LEMMA NotRight ==
  ASSUME NEW e, Right(e), Exact(e)
  PROVE  Right(Not(e))
<1> DEFINE b == e.cval[1] = 0
<1>1. /\ Not(e).ty = "int" /\ Not(e).cty = "int"
      /\ Not(e).rax = Map(LAMBDA n : Bool(IsZero(n, e.ty)), e.rax)
      /\ Not(e).val = Map(LAMBDA n : Bool(n = 0), e.val)
      /\ Not(e).cval = Map(LAMBDA n : Bool(n = 0), e.cval)
  BY DEF Not
<1>2. ASSUME Not(e).cval # None
      PROVE  /\ Not(e).cval = Some(Bool(b)) /\ Not(e).rax = Some(Bool(b))
             /\ Not(e).val # None => Not(e).val = Some(Bool(b))
  <2>1. e.cval # None /\ Not(e).cval = Some(Bool(e.cval[1] = 0))
    BY <1>1, <1>2 DEF Map, Then
  <2>2. e.rax # None /\ Not(e).rax = Some(Bool(IsZero(e.rax[1], e.ty)))
    BY <1>1, <2>1 DEF Map, Then, Right
  <2>3. IsZero(e.rax[1], e.ty) <=> e.cval[1] = 0
    BY <2>1, ZeroTest DEF Right
  <2>4. ASSUME Not(e).val # None
        PROVE  Not(e).val = Some(Bool(b))
    <3>1. e.val # None /\ Not(e).val = Some(Bool(e.val[1] = 0))
      BY <1>1, <2>4 DEF Map, Then
    <3>2. e.val[1] = 0 <=> e.cval[1] = 0
      BY <2>1, <3>1, ExactZero
    <3> QED
      BY <3>1, <3>2 DEF Bool
  <2> QED
    BY <2>1, <2>2, <2>3, <2>4 DEF Bool
<1> QED
  BY <1>1, <1>2, BoolRight

\* The code looks at the right operand only where C does.
LEMMA LogicalRight ==
  ASSUME NEW l, NEW r, NEW stop \in BOOLEAN, Right(l), Right(r), Exact(l), Exact(r)
  PROVE  Right(Logical(stop, l, r))
<1> DEFINE e == Logical(stop, l, r)
           short(zero, other) == IF zero # stop THEN Some(Bool(stop)) ELSE other
<1>1. /\ e.ty = "int" /\ e.cty = "int"
      /\ e.rax = Then(l.rax, LAMBDA m :
                     short(IsZero(m, l.ty), Map(LAMBDA n : Bool(~IsZero(n, r.ty)), r.rax)))
      /\ e.val = Map2(LAMBDA m, n : short(m = 0, Some(Bool(n # 0))), l.val, r.val)
      /\ e.cval = Then(l.cval, LAMBDA m : short(m = 0, Map(LAMBDA n : Bool(n # 0), r.cval)))
  BY DEF Logical
<1> HIDE DEF e
<1>2. ASSUME e.cval # None
      PROVE  \E b \in {TRUE, FALSE} : /\ e.cval = Some(Bool(b)) /\ e.rax = Some(Bool(b))
                                      /\ e.val # None => e.val = Some(Bool(b))
  <2>1. l.cval # None /\ e.cval = short(l.cval[1] = 0, Map(LAMBDA n : Bool(n # 0), r.cval))
    BY <1>1, <1>2 DEF Then
  <2>2. /\ l.rax # None
        /\ e.rax = short(IsZero(l.rax[1], l.ty), Map(LAMBDA n : Bool(~IsZero(n, r.ty)), r.rax))
    BY <1>1, <2>1 DEF Then, Right
  <2>3. IsZero(l.rax[1], l.ty) <=> l.cval[1] = 0
    BY <2>1, ZeroTest DEF Right
  <2>4. e.val # None =>
          /\ l.val # None /\ r.val # None
          /\ e.val = short(l.val[1] = 0, Some(Bool(r.val[1] # 0)))
    BY <1>1 DEF Map2
  <2>5. e.val # None => (l.val[1] = 0 <=> l.cval[1] = 0)
    BY <2>1, <2>4, ExactZero
  <2>6. CASE (l.cval[1] = 0) # stop
    <3>1. e.cval = Some(Bool(stop)) /\ e.rax = Some(Bool(stop))
      BY <2>1, <2>2, <2>3, <2>6
    <3>2. e.val # None => e.val = Some(Bool(stop))
      BY <2>4, <2>5, <2>6
    <3> QED
      BY <3>1, <3>2
  <2>7. CASE ~((l.cval[1] = 0) # stop)
    <3>0. ~(IsZero(l.rax[1], l.ty) # stop)
      BY <2>3, <2>7 DEF IsZero
    <3>1. e.cval = Map(LAMBDA n : Bool(n # 0), r.cval)
      BY <2>1, <2>7
    <3>2. e.rax = Map(LAMBDA n : Bool(~IsZero(n, r.ty)), r.rax)
      BY <2>2, <3>0
    <3>3. e.val # None => e.val = Some(Bool(r.val[1] # 0))
      BY <2>4, <2>5, <2>7
    <3>4. r.cval # None /\ e.cval = Some(Bool(r.cval[1] # 0))
      BY <1>2, <3>1 DEF Map, Then
    <3>5. r.rax # None /\ e.rax = Some(Bool(~IsZero(r.rax[1], r.ty)))
      BY <3>2, <3>4 DEF Map, Then, Right
    <3>6. IsZero(r.rax[1], r.ty) <=> r.cval[1] = 0
      BY <3>4, ZeroTest DEF Right
    <3>7. e.val # None => (r.val[1] = 0 <=> r.cval[1] = 0)
      BY <2>4, <3>4, ExactZero
    <3>8. CASE r.cval[1] = 0
      BY <3>3, <3>4, <3>5, <3>6, <3>7, <3>8 DEF Bool
    <3>9. CASE r.cval[1] # 0
      BY <3>3, <3>4, <3>5, <3>6, <3>7, <3>9 DEF Bool
    <3> QED
      BY <3>8, <3>9
  <2> QED
    BY <2>6, <2>7
<1>3. Right(e)
  <2>1. CASE e.cval = None
    BY <1>1, <2>1, BoolRight
  <2>2. CASE e.cval # None
    <3>1. PICK b \in {TRUE, FALSE} : /\ e.cval = Some(Bool(b)) /\ e.rax = Some(Bool(b))
                                     /\ e.val # None => e.val = Some(Bool(b))
      BY <1>2, <2>2
    <3> QED
      BY <1>1, <3>1, BoolRight
  <2> QED
    BY <2>1, <2>2
<1> QED
  BY <1>3 DEF e

\* Only the operand that is chosen counts, converted to the common type of both.
LEMMA CondRight ==
  ASSUME NEW c, NEW a, NEW b, Right(c), Right(a), Right(b), PlainCond(c, a, b)
  PROVE  Right(Cond(c, a, b))
<1> DEFINE t == get_common_type(a.ty, b.ty)
           u == Usual(a.cty, b.cty)
           e == Cond(c, a, b)
<1>1. t \in Types /\ TypePair(t, u) /\ u \in Types /\ \A n : Converted(n, u) = Converted(n, t)
  <2>1. t \in Types /\ TypePair(t, u)
    BY CommonTypes DEF Right
  <2> QED
    BY <2>1, SameType
<1>2. Exact(c) /\ PlainCast(a, t) /\ PlainCast(b, t)
  BY DEF PlainCond
<1>3. /\ e.ty = t /\ e.cty = u
      /\ e.rax = Then(c.rax, LAMBDA m : IF IsZero(m, c.ty) THEN RaxAs(b, t) ELSE RaxAs(a, t))
      /\ e.val = Then(c.val, LAMBDA m : IF m = 0 THEN ValAs(b, t) ELSE ValAs(a, t))
      /\ e.cval = Then(c.cval, LAMBDA m : IF m = 0 THEN ValueAs(b, u) ELSE ValueAs(a, u))
  BY DEF Cond
<1> HIDE DEF t, u, e
<1>4. ASSUME NEW x, Right(x), PlainCast(x, t), ValueAs(x, u) # None
      PROVE  /\ RaxAs(x, t) # None /\ InReg(RaxAs(x, t)[1], t, ValueAs(x, u)[1])
             /\ ValAs(x, t) # None => InConst(ValAs(x, t)[1], t, ValueAs(x, u)[1])
  <2>1. x.cval # None /\ ValueAs(x, u)[1] = Converted(x.cval[1], t)
    BY <1>1, <1>4, ValueOf
  <2>2. t = "enum" => x.ty \notin {"uint", "long", "ulong"}
    BY <1>4 DEF PlainCast
  <2> QED
    BY <1>1, <1>4, <2>1, <2>2, RaxOf, ValOf
<1>5. ASSUME e.cval # None
      PROVE  /\ e.rax # None /\ InReg(e.rax[1], t, e.cval[1])
             /\ e.val # None => InConst(e.val[1], t, e.cval[1])
  <2> DEFINE x == IF c.cval[1] = 0 THEN b ELSE a
  <2>1. c.cval # None /\ e.cval = ValueAs(x, u)
    BY <1>3, <1>5 DEF Then
  <2>2. IsZero(c.rax[1], c.ty) <=> c.cval[1] = 0
    BY <2>1, ZeroTest DEF Right
  <2>3. c.rax # None /\ e.rax = RaxAs(x, t)
    BY <1>3, <2>1, <2>2 DEF Then, Right
  <2>4. e.val # None => e.val = ValAs(x, t)
    <3>1. ASSUME e.val # None PROVE e.val = ValAs(x, t)
      <4>1. c.val # None /\ e.val = IF c.val[1] = 0 THEN ValAs(b, t) ELSE ValAs(a, t)
        BY <1>3, <3>1 DEF Then
      <4>2. c.val[1] = 0 <=> c.cval[1] = 0
        BY <1>2, <2>1, <4>1, ExactZero
      <4> QED
        BY <4>1, <4>2
    <3> QED
      BY <3>1
  <2>5. Right(x) /\ PlainCast(x, t)
    BY <1>2
  <2> HIDE DEF x
  <2> QED
    BY <1>4, <1>5, <2>1, <2>3, <2>4, <2>5
<1> QED
  BY <1>1, <1>3, <1>5 DEF Right, e

\* All operations that keep the type of their operands.
LEMMA OperationRight ==
  ASSUME NEW op \in Arith \cup Shifts, NEW t \in Promoted, NEW L, NEW R
  PROVE  /\ \A a, d : InReg(a, t, L) /\ InReg(d, t, R) => CodeRight(op, t, L, R, a, d)
         /\ \A m, n : IsOperand(m, t, L) /\ IsOperand(n, t, R) => ConstRight(op, t, L, R, m, n)
<1>1. \/ op \in {"+", "-", "*"} \/ op \in {"/", "%"} \/ op \in Bitwises \/ op = "<<" \/ op = ">>"
  BY DEF Arith, Shifts
<1>2. CASE op \in {"+", "-", "*"}
  BY <1>2, SumRight
<1>3. CASE op \in {"/", "%"}
  BY <1>3, DivisionRight
<1>4. CASE op \in Bitwises
  BY <1>4, BitwiseRight
<1>5. CASE op = "<<"
  BY <1>5, ShiftLeftRight
<1>6. CASE op = ">>"
  BY <1>6, ShiftRightRight
<1> QED
  BY <1>1, <1>2, <1>3, <1>4, <1>5, <1>6

LEMMA OperatorNames ==
  /\ \A op \in Comparisons : op \notin Shifts /\ op \notin Arith
  /\ \A op \in Arith \cup Shifts : op \notin Comparisons
  BY DEF Comparisons, Shifts, Arith, Bitwises

\* A plain binary operation on any two right expressions is right.
LEMMA BinaryRight ==
  ASSUME NEW op \in Arith \cup Shifts \cup Comparisons, NEW l, NEW r, Right(l), Right(r),
         PlainBinary(op, l, r)
  PROVE  Right(Binary(op, l, r))
<1> DEFINE t  == get_common_type(l.ty, r.ty)
           ct == IF op \in Shifts THEN Promote(l.cty) ELSE Usual(l.cty, r.cty)
           c2 == IF op \in Shifts THEN Promote(r.cty) ELSE ct
           e  == Binary(op, l, r)
<1>1. /\ e.ty = IF op \in Comparisons THEN "int" ELSE t
      /\ e.rax = Map2(LAMBDA a, d : gen_binary(op, t, a, d), RaxAs(l, t), RaxAs(r, t))
      /\ e.val = Map2(LAMBDA m, n : eval_binary(op, t, m, n), ValAs(l, t), ValAs(r, t))
      /\ e.cty = IF op \in Comparisons THEN "int" ELSE ct
      /\ e.cval = Map2(LAMBDA m, n : Meaning(op, ct, m, n), ValueAs(l, ct), ValueAs(r, c2))
  BY DEF Binary
<1>2. /\ PlainCast(l, t) /\ PlainCast(r, t)
      /\ op \in Arith \cup Shifts => t # "enum"
      /\ op \in Shifts => t = Promote(l.ty)
  BY DEF PlainBinary
<1>3. /\ l.ty \in Types /\ r.ty \in Types /\ TypePair(l.ty, l.cty) /\ TypePair(r.ty, r.cty)
      /\ l.cty \in Types /\ r.cty \in Types
      /\ Promote(l.cty) = Promote(l.ty) /\ Promote(r.cty) = Promote(r.ty)
  BY SameType DEF Right
<1>4. t \in Types /\ t \in Promoted \cup {"enum"} /\ TypePair(t, ct)
  <2>1. t \in Types /\ t \in Promoted \cup {"enum"} /\ TypePair(t, Usual(l.cty, r.cty))
    BY <1>3, CommonTypes
  <2>2. CASE op \in Shifts
    BY <1>2, <1>3, <2>1, <2>2 DEF TypePair
  <2>3. CASE op \notin Shifts
    BY <2>1, <2>3
  <2> QED
    BY <2>1, <2>2, <2>3
<1>5. \A n : Converted(n, ct) = Converted(n, t)
  <2> HIDE DEF t, ct
  <2> QED
    BY <1>4, SameType
<1>6. t # "enum" => ct = t /\ t \in Promoted
  BY <1>4 DEF TypePair
<1> HIDE DEF e
<1>7. ASSUME e.cval # None
      PROVE  /\ e.rax # None /\ InReg(e.rax[1], e.ty, e.cval[1])
             /\ e.val # None => InConst(e.val[1], e.ty, e.cval[1])
  <2> DEFINE L == Converted(l.cval[1], t)
             R == Converted(r.cval[1], t)
             Q == Converted(r.cval[1], c2)
             a == RaxAs(l, t)[1]
             d == RaxAs(r, t)[1]
             m == ValAs(l, t)[1]
             n == ValAs(r, t)[1]
  <2>1. /\ l.cval # None /\ r.cval # None
        /\ e.cval = Meaning(op, ct, L, Q) /\ Meaning(op, ct, L, Q) # None
    <3>1. /\ ValueAs(l, ct) # None /\ ValueAs(r, c2) # None
          /\ e.cval = Meaning(op, ct, ValueAs(l, ct)[1], ValueAs(r, c2)[1])
      BY <1>1, <1>7 DEF Map2
    <3>2. l.cval # None /\ r.cval # None
      BY <3>1, ValueOf
    <3>3. ValueAs(l, ct)[1] = Converted(l.cval[1], ct) /\ ValueAs(r, c2)[1] = Q
      BY <3>2, ValueOf
    <3>4. ValueAs(l, ct)[1] = L
      BY <1>5, <3>3
    <3> QED
      BY <1>7, <3>1, <3>2, <3>3, <3>4
  <2>2. RaxAs(l, t) # None /\ InReg(a, t, L) /\ RaxAs(r, t) # None /\ InReg(d, t, R)
    <3>1. t = "enum" => /\ l.ty \notin {"uint", "long", "ulong"}
                        /\ r.ty \notin {"uint", "long", "ulong"}
      BY <1>2 DEF PlainCast
    <3> HIDE DEF t
    <3> QED
      BY <1>4, <2>1, <3>1, RaxOf
  <2>3. e.rax = gen_binary(op, t, a, d)
    BY <1>1, <2>2 DEF Map2
  <2>4. e.val # None => /\ ValAs(l, t) # None /\ ValAs(r, t) # None
                        /\ e.val = eval_binary(op, t, m, n)
    BY <1>1 DEF Map2
  <2>5. e.val # None => IsOperand(m, t, L) /\ IsOperand(n, t, R)
    <3> HIDE DEF t
    <3> QED
      BY <1>2, <1>4, <2>1, <2>4, ValOf
  <2>6. Q = R
    <3>1. CASE op \in Shifts
      <4>1. t \in Promoted /\ ct = t /\ c2 = Promote(r.cty)
        BY <1>2, <1>6, <3>1
      <4>2. Q \in 0..(Bits[Size(t)] - 1)
        <5>1. ct = t
          BY <4>1
        <5> HIDE DEF t, ct, c2, L, Q
        <5>2. Meaning(op, t, L, Q) # None
          BY <2>1, <5>1
        <5> QED
          BY <3>1, <5>2 DEF Meaning, Shifts, Bitwises
      <4>3. Q = r.cval[1] /\ r.cval[1] \in Int
        <5>1. r.cval[1] \in Vals(Promote(r.cty)) /\ r.cval[1] \in Int /\ Promote(r.cty) \in Types
          BY <1>3, <2>1, RightValue, SizeType
        <5> QED
          BY <4>1, <5>1, ConvertedIs
      <4>4. Q \in Vals(t)
        <5> HIDE DEF t, c2, Q
        <5> QED
          BY <4>1, <4>2, CountIs
      <4>5. Converted(Q, t) = Q
        <5> HIDE DEF t, c2
        <5> QED
          BY <1>4, <4>3, <4>4, ConvertedIs
      <4> QED
        BY <4>3, <4>5
    <3>2. CASE op \notin Shifts
      BY <1>5, <3>2
    <3> QED
      BY <3>1, <3>2
  <2> HIDE DEF t, ct, c2, L, R, Q, a, d, m, n
  <2>7. CASE op \in Arith \cup Shifts
    <3>1. t \in Promoted /\ ct = t /\ e.ty = t
      BY <1>1, <1>2, <1>6, <2>7, OperatorNames
    <3>2. e.cval = Meaning(op, t, L, R) /\ Meaning(op, t, L, R) # None
      BY <2>1, <2>6, <3>1
    <3>3. CodeRight(op, t, L, R, a, d)
      BY <2>2, <2>7, <3>1, OperationRight
    <3>4. e.val # None => ConstRight(op, t, L, R, m, n)
      BY <2>5, <2>7, <3>1, OperationRight
    <3>5. e.rax # None /\ InReg(e.rax[1], t, e.cval[1])
      BY <2>3, <3>2, <3>3 DEF CodeRight
    <3>6. e.val # None => InConst(e.val[1], t, e.cval[1])
      BY <2>4, <3>2, <3>4 DEF ConstRight
    <3> QED
      BY <3>1, <3>5, <3>6
  <2>8. CASE op \in Comparisons
    <3>1. e.ty = "int"
      BY <1>1, <2>8
    <3>2. L \in Int /\ R \in Int
      BY <1>4, <2>2, InRegFacts
    <3>3. PICK b \in BOOLEAN : Meaning(op, ct, L, R) = Some(Bool(b))
      BY <1>4, <2>8, <3>2, CompareRight
    <3>4. e.cval = Some(Bool(b))
      BY <2>1, <2>6, <3>3
    <3>5. e.rax = Some(Bool(b))
      BY <1>4, <2>2, <2>3, <2>8, <3>2, <3>3, CompareRight
    <3>6. e.val # None => e.val = Some(Bool(b))
      BY <1>4, <2>4, <2>5, <2>8, <3>2, <3>3, CompareRight
    <3> QED
      BY <3>1, <3>4, <3>5, <3>6, BoolInReg, SomeIs
  <2> QED
    BY <2>7, <2>8
<1>8. e.ty \in Types /\ TypePair(e.ty, e.cty)
  <2>1. "int" \in Types
    BY SmallValues
  <2> HIDE DEF t, ct
  <2> QED
    BY <1>1, <1>4, <2>1 DEF TypePair
<1> QED
  BY <1>7, <1>8 DEF Right, e

\* The value that x had comes out of x++, whether or not x + 1 was cut off.
LEMMA IncDecRight ==
  ASSUME NEW t \in Types, NEW v \in Values[t], NEW addend \in {1, -1},
         PlainIncDec(Var(t, v), addend)
  PROVE  Right(IncDec(Var(t, v), addend))
<1> DEFINE x == Var(t, v)
           one == Num("int", addend)
           minus == Num("int", -addend)
           u == get_common_type(t, "int")
           first == Binary("+", x, one)
           sum == to_assign("+", x, one)
           second == Binary("+", sum, minus)
           e == IncDec(x, addend)
           M == Modulus(Size(t))
<1>1. /\ Right(x) /\ Right(one) /\ Right(minus) /\ v \in Int /\ v \in Vals(t)
      /\ addend \in Int /\ -addend \in Int
  <2>1. v \in Int /\ v \in Vals(t)
    BY ValuesFit
  <2>2. Right(x)
    BY <2>1, LeafRight
  <2>3. addend \in {-1, 0, 1} /\ -addend \in {-1, 0, 1}
    <3>1. addend = 1 \/ addend = -1
      OBVIOUS
    <3>2. addend \in Int /\ addend >= -1 /\ addend <= 1
      BY <3>1
    <3>3. -addend \in Int /\ -addend >= -1 /\ -addend <= 1
      BY <3>2
    <3>4. \A n \in Int : n >= -1 /\ n <= 1 => n \in {-1, 0, 1}
      OBVIOUS
    <3> QED
      BY <3>2, <3>3, <3>4
  <2> QED
    BY <2>1, <2>2, <2>3, LeavesRight
<1>2. /\ x.ty = t /\ x.cty = t /\ x.cval = Some(v) /\ x.val = None
      /\ one.ty = "int" /\ one.cty = "int" /\ one.cval = Some(addend)
      /\ minus.ty = "int" /\ minus.cty = "int" /\ minus.cval = Some(-addend)
  BY DEF Var, Num
<1> HIDE DEF x, one, minus
<1>3. t # "bool" /\ PlainBinary("+", x, one) /\ u # "enum"
  <2>1. x.ty # "bool" /\ PlainBinary("+", x, one)
    BY DEF PlainIncDec, x, one
  <2>2. "+" \in Arith
    BY DEF Arith
  <2> QED
    BY <1>2, <2>1, <2>2 DEF PlainBinary
<1>4. t # "enum"
  BY <1>3 DEF get_common_type, Size, IsUnsigned
<1>5. /\ u \in Promoted /\ u \in Types /\ u # "bool" /\ Usual(t, "int") = u
      /\ Size(u) \in Sizes /\ Size(t) \in Sizes /\ Size(t) <= Size(u)
  <2>1. "int" \in Types /\ TypePair(t, t) /\ TypePair("int", "int")
    BY SmallValues DEF TypePair
  <2>2. u \in Promoted \cup {"enum"} /\ u \in Types /\ TypePair(u, Usual(t, "int"))
    BY <2>1, CommonTypes
  <2>3. u \in Promoted /\ Usual(t, "int") = u
    BY <1>3, <2>2 DEF TypePair
  <2>4. Size(t) <= Size(u)
    BY DEF get_common_type, Types, Size
  <2> QED
    BY <2>2, <2>3, <2>4, PromotedTypes, SizeType
<1>6. Right(first) /\ first.ty = u /\ first.cty = u /\ first.val = None
  <2>1. "+" \in Arith \cup Shifts \cup Comparisons /\ "+" \notin Comparisons /\ "+" \notin Shifts
    BY DEF Arith, Shifts, Comparisons
  <2>2. Right(first)
    BY <1>1, <1>3, <2>1, BinaryRight
  <2>3. first.ty = u /\ first.cty = Usual(t, "int") /\ first.val = None
    BY <1>2, <2>1 DEF Binary, Map2, ValAs, Map, Then
  <2> QED
    BY <1>5, <2>2, <2>3
<1>7. /\ sum.ty = t /\ sum.cty = t /\ sum.rax = RaxAs(first, t) /\ sum.val = None
      /\ sum.cval = ValueAs(first, t)
  BY <1>2 DEF to_assign, Assign, Cast
<1>8. Right(sum)
  <2>1. PlainCast(first, t)
    BY <1>3, <1>4, <1>6 DEF PlainCast, Exact
  <2> HIDE DEF first
  <2> QED
    BY <1>2, <1>6, <2>1, CastRight DEF to_assign, first
<1>9. /\ e.ty = t /\ e.cty = t /\ e.rax = RaxAs(second, t) /\ e.val = None
      /\ e.cval = IF sum.cval = None THEN None ELSE x.cval
  <2>1. second.val = None
    BY <1>7 DEF Binary, Map2, ValAs, Map, Then
  <2> HIDE DEF second, sum
  <2>2. e = [Cast(second, t) EXCEPT !.cval = IF sum.cval = None THEN None ELSE x.cval]
    BY <1>2 DEF IncDec, second, sum, minus, one
  <2> QED
    BY <2>1, <2>2 DEF Cast, ValAs, Map, Then
<1>10. /\ second.ty = u
       /\ second.rax = IF RaxAs(sum, u) = None \/ RaxAs(minus, u) = None THEN None
                       ELSE gen_binary("+", u, RaxAs(sum, u)[1], RaxAs(minus, u)[1])
  <2>1. "+" \notin Comparisons /\ "+" \notin Shifts
    BY DEF Shifts, Comparisons
  <2> HIDE DEF sum
  <2> QED
    BY <1>2, <1>7, <2>1 DEF Binary, Map2
<1>11. M \in Int /\ \A n, k \in Int : Cong(n, k, Modulus(Size(u))) => Cong(n, k, M)
  BY <1>5, Widths, CongNarrow
\* What sum is, modulo the width of t.
<1>12. ASSUME sum.cval # None
       PROVE  sum.cval[1] \in Vals(t) /\ sum.cval[1] \in Int /\ Cong(sum.cval[1], v + addend, M)
  <2> DEFINE L == Converted(v, u)
             R == Converted(addend, u)
             w == first.cval[1]
  <2>1. first.cval # None /\ sum.cval[1] = Converted(w, t)
    BY <1>7, <1>12, ValueOf
  <2>2. first.cval = Meaning("+", u, L, R)
    <3>1. "+" \notin Shifts
      BY DEF Shifts
    <3>2. first.cval = IF ValueAs(x, u) = None \/ ValueAs(one, u) = None THEN None
                       ELSE Meaning("+", u, ValueAs(x, u)[1], ValueAs(one, u)[1])
      BY <1>2, <1>5, <3>1 DEF Binary, Map2
    <3>3. ValueAs(x, u) = Some(L) /\ ValueAs(one, u) = Some(R)
      BY <1>2, ValueOf, SomeIs
    <3> QED
      BY <3>2, <3>3, SomeIs
  <2>3. Meaning("+", u, L, R) = Result(L + R, u)
    BY DEF Meaning, Bitwises
  <2>4. w = As(L + R, u)
    BY <2>1, <2>2, <2>3, ResultIs
  <2>5. L \in Int /\ R \in Int /\ Cong(L, v, Modulus(Size(u))) /\ Cong(R, addend, Modulus(Size(u)))
    BY <1>1, <1>5, ConvertedIs
  <2> HIDE DEF L, R, first, w, M
  <2>6. Cong(L, v, M) /\ Cong(R, addend, M)
    BY <1>1, <1>11, <2>5
  <2>7. Cong(L + R, v + addend, M) /\ L + R \in Int /\ v + addend \in Int
    BY <1>1, <1>11, <2>5, <2>6, CongSum
  <2>8. w \in Int /\ Cong(w, L + R, M)
    BY <1>5, <1>11, <2>4, <2>7, AsIs
  <2>9. Converted(w, t) \in Int /\ Converted(w, t) \in Vals(t) /\ Cong(Converted(w, t), w, M)
    BY <1>3, <2>8, ConvertedIs DEF M
  <2>10. Cong(w, v + addend, M)
    BY <1>11, <2>7, <2>8, CongOn
  <2>11. Cong(Converted(w, t), v + addend, M)
    BY <1>11, <2>7, <2>8, <2>9, <2>10, CongOn
  <2> QED
    BY <2>1, <2>9, <2>11
<1>13. ASSUME sum.cval # None
       PROVE  e.rax # None /\ InReg(e.rax[1], t, v)
  <2> DEFINE s == sum.cval[1]
             S == Converted(s, u)
             R == Converted(-addend, u)
             a == RaxAs(sum, u)[1]
             d == RaxAs(minus, u)[1]
             g == gen_binary("+", u, a, d)
             w == As(S + R, u)
  <2>1. RaxAs(sum, u) # None /\ InReg(a, u, S)
    <3> HIDE DEF sum, u
    <3> QED
      BY <1>3, <1>5, <1>8, <1>13, RaxOf
  <2>2. RaxAs(minus, u) # None /\ InReg(d, u, R)
    <3>1. minus.cval # None /\ minus.cval[1] = -addend
      BY <1>2, SomeIs
    <3> HIDE DEF u
    <3> QED
      BY <1>1, <1>3, <1>5, <3>1, RaxOf
  <2>3. g # None /\ InReg(g[1], u, w)
    <3> HIDE DEF sum, u, S, R, a, d
    <3> QED
      BY <1>5, <2>1, <2>2, SumCode
  <2>4. second.rax = g
    BY <1>10, <2>1, <2>2
  <2>5. s \in Int /\ Cong(s, v + addend, M)
    BY <1>12, <1>13
  <2> HIDE DEF second, sum, s, u, a, d, M
  <2>6. /\ S \in Int /\ R \in Int /\ Cong(S, s, Modulus(Size(u))) /\ Cong(R, -addend, Modulus(Size(u)))
    BY <1>1, <1>5, <2>5, ConvertedIs
  <2>7. Cong(S, s, M) /\ Cong(R, -addend, M)
    BY <1>1, <1>11, <2>5, <2>6
  <2> DEFINE y == -addend
             z == v + addend
  <2>8. y \in Int /\ z \in Int /\ z + y = v
    BY <1>1
  <2> HIDE DEF S, R, y, z
  <2>9. Cong(S, z, M)
    BY <1>11, <2>5, <2>6, <2>7, <2>8, CongOn DEF z
  <2>10. Cong(S + R, z + y, M) /\ S + R \in Int
    BY <1>11, <2>6, <2>7, <2>8, <2>9, CongSum DEF y
  <2>11. Cong(S + R, v, M)
    BY <2>8, <2>10
  <2>12. w \in Int /\ Cong(w, S + R, M)
    BY <1>5, <1>11, <2>10, AsIs
  <2> HIDE DEF w, g
  <2>13. Cong(w, v, M)
    BY <1>1, <1>11, <2>10, <2>11, <2>12, CongOn
  <2>14. Converted(w, t) = v
    <3>1. As(w, t) = v
      BY <1>1, <2>12, <2>13, AsUnique DEF M
    <3> QED
      BY <1>3, <3>1 DEF Converted
  <2>15. e.rax = Some(cast_type(u, t, g[1]))
    BY <1>9, <1>10, <2>3, <2>4 DEF RaxAs, Map, Then
  <2>16. InReg(cast_type(u, t, g[1]), t, v)
    BY <1>4, <1>5, <2>3, <2>14, CastReg
  <2> QED
    BY <2>15, <2>16, SomeIs
<1> HIDE DEF sum, e
<1>14. e.cval # None => sum.cval # None /\ e.cval[1] = v
  BY <1>2, <1>9, SomeIs
<1> QED
  BY <1>9, <1>13, <1>14 DEF Right, TypePair, e, x

LEMMA OperandsRight == \A e \in Operands : Right(e)
<1> DEFINE one == Num("int", 1)
           zero == Num("int", 0)
<1>1. Right(one) /\ Right(zero) /\ one.ty = "int" /\ zero.ty = "int"
  BY LeavesRight DEF Num
<1>2. get_common_type("int", "int") = "int" /\ Size("int") = 4
  BY DEF get_common_type, Size, IsUnsigned
<1>3. "/" \in Arith \cup Shifts \cup Comparisons /\ "/" \notin Shifts
  BY DEF Arith, Shifts, Comparisons
<1> HIDE DEF one, zero
<1>4. PlainBinary("/", one, zero)
  BY <1>1, <1>2, <1>3 DEF PlainBinary, PlainCast
<1>5. Right(Binary("/", one, zero))
  BY <1>1, <1>3, <1>4, BinaryRight
<1> QED
  BY <1>5, LeavesRight DEF Operands, one, zero

\* Every way the parser has of making a larger expression.
LEMMA StepRight ==
  ASSUME Right(node), Next
  PROVE  Right(node)'
<1> SUFFICES ASSUME NEW e, Right(e), node' = e PROVE Right(node)'
  <2>1. CASE NewCast
    <3>1. PICK t \in Types : PlainCast(node, t) /\ node' = Cast(node, t)
      BY <2>1 DEF NewCast, Extend
    <3> QED BY <3>1, CastRight
  <2>2. CASE NewNeg
    <3>1. PlainCast(node, get_common_type("int", node.ty)) /\ node' = Neg(node)
      BY <2>2 DEF NewNeg, Extend
    <3> QED BY <3>1, NegRight
  <2>3. CASE NewBitNot
    <3>1. PlainNot(node) /\ node' = BitNot(node)
      BY <2>3 DEF NewBitNot, Extend
    <3> QED BY <3>1, BitNotRight
  <2>4. CASE NewNot
    <3>1. Exact(node) /\ node' = Not(node)
      BY <2>4 DEF NewNot, Extend
    <3> QED BY <3>1, NotRight
  <2>5. CASE NewBinary
    <3>1. PICK e \in Operands, op \in Arith \cup Shifts \cup Comparisons :
            \/ PlainBinary(op, node, e) /\ node' = Binary(op, node, e)
            \/ PlainBinary(op, e, node) /\ node' = Binary(op, e, node)
      BY <2>5 DEF NewBinary, Extend
    <3>2. Right(e)
      BY OperandsRight
    <3>3. CASE PlainBinary(op, node, e) /\ node' = Binary(op, node, e)
      BY <3>2, <3>3, BinaryRight
    <3>4. CASE PlainBinary(op, e, node) /\ node' = Binary(op, e, node)
      BY <3>2, <3>4, BinaryRight
    <3> QED BY <3>1, <3>3, <3>4
  <2>6. CASE NewLogical
    <3>1. PICK e \in Operands, stop \in BOOLEAN :
            /\ Exact(node) /\ Exact(e)
            /\ node' = Logical(stop, node, e) \/ node' = Logical(stop, e, node)
      BY <2>6 DEF NewLogical, Extend
    <3>2. Right(e)
      BY OperandsRight
    <3> QED BY <3>1, <3>2, LogicalRight
  <2>7. CASE NewCond
    <3>1. PICK e \in Operands :
            \/ PlainCond(node, node, e) /\ node' = Cond(node, node, e)
            \/ PlainCond(node, e, node) /\ node' = Cond(node, e, node)
            \/ PlainCond(e, node, e) /\ node' = Cond(e, node, e)
            \/ PlainCond(e, e, node) /\ node' = Cond(e, e, node)
      BY <2>7 DEF NewCond, Extend
    <3>2. Right(e)
      BY OperandsRight
    <3> QED BY <3>1, <3>2, CondRight
  <2>8. CASE NewComma
    <3>1. PICK e \in Operands : node' = Comma(node, e) \/ node' = Comma(e, node)
      BY <2>8 DEF NewComma, Extend
    <3>2. Right(e)
      BY OperandsRight
    <3> QED BY <3>1, <3>2, CommaRight
  <2>9. CASE NewSizeof
    <3>1. node' = Sizeof(node)
      BY <2>9 DEF NewSizeof, Extend
    <3> QED BY <3>1, SizeofRight
  <2>10. CASE NewAssign
    <3>1. PICK t \in Types : /\ PlainCast(node, t)
                             /\ node' = Assign(t, node) \/ node' = Assigned(t, node)
      BY <2>10 DEF NewAssign, Extend
    <3> QED BY <3>1, CastRight, AssignedRight
  <2>11. CASE NewOpAssign
    <3>1. PICK x \in Variables, op \in Arith \cup Shifts :
            /\ PlainBinary(op, x, node) /\ PlainCast(Binary(op, x, node), x.ty)
            /\ node' = Assign(x.ty, Binary(op, x, node))
      BY <2>11 DEF NewOpAssign, Extend, to_assign
    <3>2. Right(x) /\ x.ty \in Types
      BY LeavesRight DEF Leaves, Right
    <3>3. Right(Binary(op, x, node))
      BY <3>1, <3>2, BinaryRight
    <3> QED BY <3>1, <3>2, <3>3, CastRight
  <2>12. CASE NewIncDec
    <3>1. PICK addend \in {1, -1} : PlainIncDec(node, addend) /\ node' = IncDec(node, addend)
      BY <2>12 DEF NewIncDec, Extend
    <3>2. PICK t \in Types : \E v \in Values[t] : node = Var(t, v)
      BY <2>12 DEF NewIncDec, Variables
    <3>3. PICK v \in Values[t] : node = Var(t, v)
      BY <3>2
    <3> QED BY <3>1, <3>3, IncDecRight
  <2> QED
    BY <2>1, <2>2, <2>3, <2>4, <2>5, <2>6, <2>7, <2>8, <2>9, <2>10, <2>11, <2>12 DEF Next
<1> QED BY DEF Right, TypePair, InReg, InConst, Vals, RegSize, Cong

\* The inductive invariant.
AllRight == Right(node) /\ node.cval # None

LEMMA LeavesMean == \A e \in Leaves : e.cval # None
<1>1. \A t, n : Var(t, n).cval # None /\ Num(t, n).cval # None
  BY SomeIs DEF Var, Num
<1> QED
  BY <1>1 DEF Leaves, Variables

\* Whatever the widths and the values of the leaves, every plain expression is right.
LEMMA AlwaysRight == Spec => []AllRight
<1>1. Init => AllRight
  BY LeavesRight, LeavesMean DEF Init, AllRight
<1>2. AllRight /\ [Next]_node => AllRight'
  <2>1. CASE AllRight /\ Next
    <3>1. Right(node)'
      BY <2>1, StepRight DEF AllRight
    <3>2. node'.cval # None
      BY <2>1 DEF Next, Extend, NewCast, NewNeg, NewBitNot, NewNot, NewBinary, NewLogical, NewCond,
                  NewComma, NewSizeof, NewAssign, NewOpAssign, NewIncDec
    <3> QED
      BY <3>1, <3>2 DEF AllRight
  <2>2. CASE AllRight /\ node' = node
    BY <2>2 DEF AllRight, Right, TypePair, InReg, InConst, Vals, RegSize, Cong
  <2> QED
    BY <2>1, <2>2
<1> QED BY <1>1, <1>2, PTL DEF Spec

\* The type add_type gives a plain expression promotes to the type C gives it.
THEOREM TypesCorrect == Spec => []TypesAreC
<1>1. AllRight => TypesAreC
  BY SameType DEF AllRight, Right, TypesAreC
<1> QED BY <1>1, AlwaysRight, PTL

\* A value of its type is what is read from bits that agree with it.
LEMMA ReadBack ==
  ASSUME NEW e, Right(e), e.cval # None, NEW n \in Int,
         Cong(n, e.cval[1], Modulus(RegSize(e.ty)))
  PROVE  As(n, Promote(e.cty)) = e.cval[1]
<1> DEFINE c == Promote(e.cty)
<1>1. e.ty \in Types /\ e.cty \in Types /\ Promote(e.cty) = Promote(e.ty)
  BY SameType DEF Right
<1>2. c \in Types /\ RegSize(e.ty) = Size(c)
  BY <1>1, SizeType
<1>3. e.cval[1] \in Vals(c)
  BY RightValue
<1> HIDE DEF c
<1>4. As(n, c) = e.cval[1]
  BY <1>2, <1>3, AsUnique
<1> QED
  BY <1>4 DEF c

\* The register holds what C says, for every width of the integers, for every
\* value and for expressions of every size.
THEOREM CodeComputesC == Spec => []CodeIsC
<1>1. ASSUME AllRight PROVE CodeIsC
  <2>1. ASSUME node.cval # None
        PROVE  node.rax # None /\ As(node.rax[1], Promote(node.cty)) = node.cval[1]
    <3>1. node.ty \in Types /\ node.rax # None /\ InReg(node.rax[1], node.ty, node.cval[1])
      BY <1>1, <2>1 DEF AllRight, Right
    <3>2. node.rax[1] \in Int /\ Cong(node.rax[1], node.cval[1], Modulus(RegSize(node.ty)))
      BY <3>1, InRegFacts DEF InReg
    <3> QED
      BY <1>1, <2>1, <3>1, <3>2, ReadBack DEF AllRight
  <2> QED
    BY <2>1 DEF CodeIsC, Holds
<1> QED BY <1>1, AlwaysRight, PTL

\* What eval2 makes of a constant expression, where it does not panic, is at the
\* width of its type what C says, and so what the code for it leaves.
THEOREM ConstantsAreC == Spec => []ConstantIsC
<1>1. ASSUME AllRight PROVE ConstantIsC
  <2>1. ASSUME node.val # None
        PROVE  As(node.val[1], Promote(node.cty)) = node.cval[1]
    <3>1. InConst(node.val[1], node.ty, node.cval[1])
      BY <1>1, <2>1 DEF AllRight, Right
    <3>2. node.val[1] \in Int /\ Cong(node.val[1], node.cval[1], Modulus(RegSize(node.ty)))
      BY <3>1 DEF InConst
    <3> QED
      BY <1>1, <3>2, ReadBack DEF AllRight
  <2> QED
    BY <2>1 DEF ConstantIsC
<1> QED BY <1>1, AlwaysRight, PTL
=============================================================================
