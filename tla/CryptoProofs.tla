---------------------------- MODULE CryptoProofs ----------------------------
(***************************************************************************)
(* Proofs about the arithmetic of a signing, on every curve that           *)
(* CurveAssumption allows, for every number of parties, every private key, *)
(* every message and every hash.                                           *)
(*                                                                         *)
(* They rest on induction.  The induction theorems of the library take a   *)
(* predicate as a parameter and cannot be used here, so induction over a   *)
(* set is derived from the pigeonhole principle, and from it Euclid's      *)
(* lemma, what a fold computes, and the sums over all parties.  Scalars    *)
(* are compared as integers up to multiples of Q (Same); a sum of the      *)
(* parties goes by infinity exactly if it is Same as 0 at some position.   *)
(***************************************************************************)
EXTENDS CryptoRun, FiniteSetTheorems, FunctionTheorems, SequenceTheorems, TLAPS
-----------------------------------------------------------------------------
(* Natural numbers.  An injection of a finite set into itself is onto;     *)
(* what else there is to say of numbers follows from this.                 *)

\* Induction, over a set instead of a predicate.
LEMMA Induction ==
    ASSUME NEW S, 0 \in S, \A n \in Nat : n \in S => n + 1 \in S
    PROVE  \A n \in Nat : n \in S
  <1> SUFFICES ASSUME NEW n \in Nat, n \notin S PROVE FALSE
    OBVIOUS
  <1> DEFINE A == {k \in 0..n : k \in S}
             f == [k \in A |-> k + 1]
  <1>1. IsFiniteSet(A)
    <2>1. IsFiniteSet(0..n)
      BY FS_Interval
    <2>. QED
      BY <2>1, FS_Subset
  <1>2. f \in [A -> A]
    <2> SUFFICES ASSUME NEW k \in A PROVE k + 1 \in A
      OBVIOUS
    <2>1. k # n /\ k \in 0..n
      OBVIOUS
    <2>2. k + 1 \in 0..n
      BY <2>1
    <2>. QED
      BY <2>1, <2>2
  <1>3. f \in Injection(A, A)
    <2>1. \A j, k \in A : f[j] = f[k] => j = k
      OBVIOUS
    <2> HIDE DEF f, A
    <2>. QED
      BY <1>2, <2>1 DEF Injection, IsInjective
  <1>4. f \in Surjection(A, A)
    <2> HIDE DEF f
    <2>. QED
      BY <1>1, <1>3, FS_Injection
  <1>5. PICK k \in A : f[k] = 0
    <2>1. 0 \in A
      OBVIOUS
    <2> HIDE DEF f, A
    <2>. QED
      BY <1>4, <2>1 DEF Surjection
  <1>. QED
    BY <1>5

\* A set of natural numbers that is not empty has a least element.
LEMMA Least ==
    ASSUME NEW S, NEW n \in Nat, n \in S
    PROVE  \E m \in Nat : m \in S /\ \A k \in Nat : k \in S => m <= k
  <1> SUFFICES ASSUME \A m \in Nat : m \in S => \E k \in Nat : k \in S /\ k < m
               PROVE  FALSE
    OBVIOUS
  <1> DEFINE T == {m \in Nat : \A k \in Nat : k <= m => k \notin S}
  <1>1. 0 \in T
    OBVIOUS
  <1>2. ASSUME NEW m \in Nat, m \in T PROVE m + 1 \in T
    <2>1. ASSUME NEW k \in Nat, k <= m + 1, k \in S PROVE FALSE
      <3>1. PICK l \in Nat : l \in S /\ l < k
        BY <2>1
      <3>2. l <= m
        BY <2>1, <3>1
      <3>. QED
        BY <1>2, <3>1, <3>2
    <2>. QED
      BY <2>1
  <1>3. n \in T
    <2> HIDE DEF T
    <2>. QED
      BY <1>1, <1>2, Induction
  <1>. QED
    BY <1>3

Prime(p) == p \in Nat /\ p > 1 /\ \A d \in 2..(p - 1) : p % d # 0

\* p divides a.
Divides(p, a) == \E k \in Int : a = k * p

\* Euclid's lemma.
LEMMA PrimeDivides ==
    ASSUME NEW p, Prime(p), NEW a \in Int, NEW b \in Int, Divides(p, a * b)
    PROVE  Divides(p, a) \/ Divides(p, b)
  <1> p \in Nat /\ p > 1
    BY DEF Prime
  <1> DEFINE r == a % p
             S == {d \in Nat : d > 0 /\ Divides(p, d * b)}
  <1>0. r \in 0..(p - 1) /\ a = p * (a \div p) + r /\ a \div p \in Int
    OBVIOUS
  <1> HIDE DEF r
  <1>1. CASE r = 0
    <2>1. a = (a \div p) * p
      BY <1>0, <1>1
    <2>. QED
      BY <1>0, <2>1 DEF Divides
  <1>2. CASE r # 0
    <2>1. r \in S
      <3>1. PICK k \in Int : a * b = k * p
        BY DEF Divides
      <3>2. r * b = (k - (a \div p) * b) * p
        <4> DEFINE q == a \div p
        <4>1. q \in Int /\ a = p * q + r /\ r \in Int
          BY <1>0
        <4> HIDE DEF q
        <4>2. r = a - p * q
          BY <4>1
        <4>3. r * b = a * b - (p * q) * b
          BY <4>1, <4>2
        <4>4. (p * q) * b = (q * b) * p
          BY <4>1
        <4>5. r * b = k * p - (q * b) * p
          BY <4>3, <4>4, <3>1
        <4>6. r * b = (k - q * b) * p
          BY <4>1, <4>5
        <4>. QED
          BY <4>6 DEF q
      <3>3. k - (a \div p) * b \in Int
        BY <1>0
      <3>4. Divides(p, r * b)
        BY <3>2, <3>3 DEF Divides
      <3>5. r \in Nat /\ r > 0
        BY <1>0, <1>2
      <3>. QED
        BY <3>4, <3>5
    <2>2. PICK d \in Nat : d \in S /\ \A k \in Nat : k \in S => d <= k
      <3> HIDE DEF S
      <3>. QED
        BY <1>0, <2>1, Least
    <2>3. d \in 1..(p - 1)
      BY <1>0, <2>1, <2>2
    <2> DEFINE e == p % d
               q == p \div d
    <2>4. e \in 0..(d - 1) /\ p = d * q + e /\ q \in Int
      BY <2>3
    <2> HIDE DEF e, q
    <2>5. PICK k \in Int : d * b = k * p
      BY <2>2 DEF Divides
    <2>6. e * b = (b - q * k) * p
      <3>1. e = p - d * q
        BY <2>4
      <3>2. e * b = p * b - (d * q) * b
        BY <2>4, <3>1
      <3>3. (d * q) * b = q * (d * b)
        BY <2>4
      <3>4. q * (d * b) = (q * k) * p
        BY <2>4, <2>5
      <3>5. e * b = p * b - (q * k) * p
        BY <3>2, <3>3, <3>4
      <3>. QED
        BY <2>4, <3>5
    <2>7. e = 0
      <3> SUFFICES ASSUME e # 0 PROVE FALSE
        OBVIOUS
      <3>1. b - q * k \in Int
        BY <2>4
      <3>2. Divides(p, e * b)
        BY <2>6, <3>1 DEF Divides
      <3>3. e \in S
        BY <2>4, <3>2
      <3>. QED
        BY <2>2, <2>4, <3>3
    <2>8. d = 1
      <3>1. p % d = 0
        BY <2>7 DEF e
      <3>. QED
        BY <2>3, <3>1 DEF Prime
    <2>. QED
      BY <2>5, <2>8 DEF Divides
  <1>. QED
    BY <1>1, <1>2
-----------------------------------------------------------------------------
(* Scalars: integers up to multiples of Q.                                 *)

\* Q and P are primes, and P is odd.
LEMMA Primes == Prime(P) /\ Prime(Q) /\ P > 3 /\ Q > 3
  BY CurveAssumption DEF Prime

\* Their sizes, for arithmetic.
LEMMA QIsNat == Q \in Nat /\ Q > 3 /\ P \in Nat /\ P > 3
  BY CurveAssumption

\* a and b are the same scalar.
Same(a, b) == \E k \in Int : a = b + k * Q

\* Same is an equivalence,
LEMMA SameSelf == ASSUME NEW a \in Int PROVE Same(a, a)
  <1>1. a = a + 0 * Q
    BY QIsNat
  <1>. QED
    BY <1>1 DEF Same

LEMMA SameBack == ASSUME NEW a \in Int, NEW b \in Int, Same(a, b) PROVE Same(b, a)
  <1>1. PICK k \in Int : a = b + k * Q
    BY DEF Same
  <1>2. b = a + (-k) * Q
    BY <1>1, QIsNat
  <1>. QED
    BY <1>2 DEF Same

LEMMA SameTrans ==
    ASSUME NEW a \in Int, NEW b \in Int, NEW c \in Int, Same(a, b), Same(b, c)
    PROVE  Same(a, c)
  <1>1. PICK k \in Int : a = b + k * Q
    BY DEF Same
  <1>2. PICK l \in Int : b = c + l * Q
    BY DEF Same
  <1>3. a = c + (k + l) * Q
    BY <1>1, <1>2, QIsNat
  <1>. QED
    BY <1>3 DEF Same

\* and it respects sums,
LEMMA SameAdd ==
    ASSUME NEW a \in Int, NEW b \in Int, NEW c \in Int, NEW d \in Int, Same(a, b), Same(c, d)
    PROVE  Same(a + c, b + d)
  <1>1. PICK k \in Int : a = b + k * Q
    BY DEF Same
  <1>2. PICK l \in Int : c = d + l * Q
    BY DEF Same
  <1>3. a + c = b + d + (k + l) * Q
    BY <1>1, <1>2, QIsNat
  <1>. QED
    BY <1>3 DEF Same

\* opposites
LEMMA SameNeg == ASSUME NEW a \in Int, NEW b \in Int, Same(a, b) PROVE Same(-a, -b)
  <1>1. PICK k \in Int : a = b + k * Q
    BY DEF Same
  <1>2. -a = -b + (-k) * Q
    BY <1>1, QIsNat
  <1>. QED
    BY <1>2 DEF Same

\* and products.
LEMMA SameMul ==
    ASSUME NEW a \in Int, NEW b \in Int, NEW c \in Int, NEW d \in Int, Same(a, b), Same(c, d)
    PROVE  Same(a * c, b * d)
  <1>1. PICK k \in Int : a = b + k * Q
    BY DEF Same
  <1>2. PICK l \in Int : c = d + l * Q
    BY DEF Same
  <1>3. Q \in Int
    BY QIsNat
  <1> DEFINE kQ == k * Q
             lQ == l * Q
  <1>4. kQ \in Int /\ lQ \in Int /\ a = b + kQ /\ c = d + lQ
    BY <1>1, <1>2, <1>3
  <1>5. a * c = b * d + b * lQ + kQ * d + kQ * lQ
    <2> HIDE DEF kQ, lQ
    <2>1. a * c = b * (d + lQ) + kQ * (d + lQ)
      BY <1>4
    <2>2. b * (d + lQ) = b * d + b * lQ /\ kQ * (d + lQ) = kQ * d + kQ * lQ
      BY <1>4
    <2>3. /\ b * d \in Int /\ b * lQ \in Int /\ kQ * d \in Int /\ kQ * lQ \in Int
      BY <1>4
    <2> DEFINE t == b * d
               u == b * lQ
               v == kQ * d
               w == kQ * lQ
    <2>4. t \in Int /\ u \in Int /\ v \in Int /\ w \in Int /\ a * c = (t + u) + (v + w)
      BY <2>1, <2>2, <2>3
    <2>5. a * c = t + u + v + w
      <3> HIDE DEF t, u, v, w
      <3>. QED
        BY <2>4
    <2>. QED
      BY <2>5
  <1>6. b * lQ = (b * l) * Q /\ kQ * d = (k * d) * Q /\ kQ * lQ = (k * lQ) * Q
    BY <1>3
  <1> DEFINE x == b * l
             y == k * d
             z == k * lQ
  <1>7. x \in Int /\ y \in Int /\ z \in Int
    BY <1>4
  <1>8. a * c = b * d + (x + y + z) * Q
    <2>1. a * c = b * d + x * Q + y * Q + z * Q
      BY <1>5, <1>6
    <2>2. b * d \in Int
      OBVIOUS
    <2> HIDE DEF x, y, z
    <2>. QED
      BY <1>3, <1>7, <2>1, <2>2
  <1>. QED
    BY <1>7, <1>8 DEF Same

\* a % Q is the scalar below Q.
LEMMA SameMod == ASSUME NEW a \in Int PROVE a % Q \in Scalar /\ Same(a % Q, a) /\ Same(a, a % Q)
  <1> DEFINE m == a % Q
             q == a \div Q
  <1>1. m \in 0..(Q - 1) /\ a = Q * q + m /\ q \in Int
    BY QIsNat
  <1> HIDE DEF m, q
  <1>2. m \in Int /\ m \in Scalar
    BY <1>1, QIsNat DEF Scalar
  <1>3. a = m + q * Q
    BY <1>1, <1>2, QIsNat
  <1>4. Same(a, m)
    BY <1>1, <1>3 DEF Same
  <1>5. Same(m, a)
    BY <1>2, <1>4, SameBack
  <1>. QED
    BY <1>2, <1>4, <1>5 DEF m

\* Scalars that are the same are equal.
LEMMA SameScalar == ASSUME NEW a \in Scalar, NEW b \in Scalar, Same(a, b) PROVE a = b
  <1>1. a \in 0..(Q - 1) /\ b \in 0..(Q - 1) /\ Q \in Nat /\ Q > 0
    BY QIsNat DEF Scalar
  <1>2. PICK k \in Int : a = b + k * Q
    BY DEF Same
  <1>3. k < 1
    <2> SUFFICES ASSUME k >= 1 PROVE FALSE
      BY <1>2
    <2>1. k * Q >= Q
      BY <1>1
    <2>. QED
      BY <1>1, <1>2, <2>1
  <1>4. k > -1
    <2> SUFFICES ASSUME -k >= 1 PROVE FALSE
      BY <1>2
    <2>1. (-k) * Q >= Q
      BY <1>1
    <2>2. k * Q = -((-k) * Q)
      BY <1>1
    <2>. QED
      BY <1>1, <1>2, <2>1, <2>2
  <1>5. k = 0
    BY <1>3, <1>4
  <1>. QED
    BY <1>1, <1>2, <1>5

\* The same remainder.
LEMMA SameIsMod ==
    ASSUME NEW a \in Int, NEW b \in Int
    PROVE  Same(a, b) <=> a % Q = b % Q
  <1>1. /\ a % Q \in Scalar /\ Same(a % Q, a) /\ Same(a, a % Q)
        /\ b % Q \in Scalar /\ Same(b % Q, b) /\ Same(b, b % Q)
    BY SameMod
  <1>2. a % Q \in Int /\ b % Q \in Int
    BY QIsNat
  <1>3. ASSUME Same(a, b) PROVE a % Q = b % Q
    <2>1. Same(a % Q, b)
      BY <1>1, <1>2, <1>3, SameTrans
    <2>2. Same(a % Q, b % Q)
      BY <1>1, <1>2, <2>1, SameTrans
    <2>. QED
      BY <1>1, <2>2, SameScalar
  <1>4. ASSUME a % Q = b % Q PROVE Same(a, b)
    BY <1>1, <1>2, <1>4, SameTrans
  <1>. QED
    BY <1>3, <1>4

\* The product of two scalars that are not zero is not zero.
LEMMA NoZeroDivisors ==
    ASSUME NEW a \in 1..(Q - 1), NEW b \in 1..(Q - 1)
    PROVE  (a * b) % Q \in 1..(Q - 1)
  <1>0. Q \in Nat /\ Q > 3 /\ a \in Int /\ b \in Int /\ a * b \in Int
    BY QIsNat
  <1>1. (a * b) % Q \in Scalar /\ Same(a * b, (a * b) % Q)
    BY <1>0, SameMod
  <1>2. ASSUME (a * b) % Q = 0 PROVE FALSE
    <2>1. PICK k \in Int : a * b = 0 + k * Q
      BY <1>1, <1>2 DEF Same
    <2>2. a * b = k * Q
      BY <1>0, <2>1
    <2>3. Divides(Q, a * b)
      BY <2>2 DEF Divides
    <2>4. Divides(Q, a) \/ Divides(Q, b)
      BY <1>0, <2>3, Primes, PrimeDivides
    <2>5. ASSUME NEW c \in 1..(Q - 1), Divides(Q, c) PROVE FALSE
      <3>1. PICK l \in Int : c = l * Q
        BY <2>5 DEF Divides
      <3>2. Same(c, 0)
        <4>1. c = 0 + l * Q
          BY <1>0, <3>1
        <4>. QED
          BY <4>1 DEF Same
      <3>3. c \in Scalar /\ 0 \in Scalar /\ c # 0
        BY <1>0 DEF Scalar
      <3>. QED
        BY <3>2, <3>3, SameScalar
    <2>. QED
      BY <2>4, <2>5
  <1>. QED
    BY <1>0, <1>1, <1>2 DEF Scalar
-----------------------------------------------------------------------------
(* Folds.  FoldLeft recurses on the set of positions, from the last one.   *)

\* The greatest of some numbers below k, if k is among them.
LEMMA MaxIs ==
    ASSUME NEW k \in Nat, NEW s \in SUBSET (1..k), k \in s
    PROVE  Max(s) = k
  <1>1. \A y \in s : k >= y
    OBVIOUS
  <1>2. \A x \in s : (\A y \in s : x >= y) => x = k
    OBVIOUS
  <1>. QED
    BY <1>1, <1>2 DEF Max

\* By induction on their bound.
LEMMA MaxOfMany ==
    ASSUME NEW n \in Nat, NEW s \in SUBSET (1..n), s # {}
    PROVE  Max(s) \in s
  <1> DEFINE S == {m \in Nat : \A t \in SUBSET (1..m) : t # {} => Max(t) \in t}
  <1>1. 0 \in S
    <2>1. 1..0 = {}
      OBVIOUS
    <2>. QED
      BY <2>1
  <1>2. ASSUME NEW m \in Nat, m \in S PROVE m + 1 \in S
    <2> SUFFICES ASSUME NEW t \in SUBSET (1..(m + 1)), t # {} PROVE Max(t) \in t
      OBVIOUS
    <2>1. CASE m + 1 \in t
      BY <2>1, MaxIs
    <2>2. CASE m + 1 \notin t
      <3>1. t \in SUBSET (1..m)
        BY <2>2
      <3>. QED
        BY <1>2, <3>1
    <2>. QED
      BY <2>1, <2>2
  <1>3. n \in S
    <2> HIDE DEF S
    <2>. QED
      BY <1>1, <1>2, Induction
  <1>. QED
    BY <1>3

\* g is the fold of F over v from a, on every set of positions up to n.
Folding(F, a, v, n, g) ==
    \A s \in SUBSET (1..n) :
        /\ s = {} => g[s] = a
        /\ s # {} => g[s] = F[<<g[s \ {Max(s)}], v[Max(s)]>>]

HasFold(F, a, v, n, T) == \E g \in [SUBSET (1..n) -> T] : Folding(F, a, v, n, g)

\* There is a fold of any length.
LEMMA FoldExists ==
    ASSUME NEW T, NEW U, NEW F \in [T \X U -> T], NEW a \in T, NEW n \in Nat,
           NEW v \in [1..n -> U]
    PROVE  HasFold(F, a, v, n, T)
  <1> DEFINE S == {m \in Nat : m <= n => HasFold(F, a, v, m, T)}
  <1>1. 0 \in S
    <2> DEFINE g == [s \in SUBSET (1..0) |-> a]
    <2>1. g \in [SUBSET (1..0) -> T]
      OBVIOUS
    <2>2. \A s \in SUBSET (1..0) : s = {}
      <3>1. 1..0 = {}
        OBVIOUS
      <3>. QED
        BY <3>1
    <2>3. \A s \in SUBSET (1..0) : g[s] = a
      OBVIOUS
    <2>4. Folding(F, a, v, 0, g)
      <3> HIDE DEF g
      <3>. QED
        BY <2>2, <2>3 DEF Folding
    <2> HIDE DEF g
    <2>. QED
      BY <2>1, <2>4 DEF HasFold
  <1>2. ASSUME NEW m \in Nat, m \in S PROVE m + 1 \in S
    <2> SUFFICES ASSUME m + 1 <= n
                 PROVE  HasFold(F, a, v, m + 1, T)
      OBVIOUS
    <2>1. PICK f \in [SUBSET (1..m) -> T] : Folding(F, a, v, m, f)
      <3>1. HasFold(F, a, v, m, T)
        BY <1>2
      <3>. QED
        BY <3>1 DEF HasFold
    <2> DEFINE g == [s \in SUBSET (1..(m + 1)) |->
                       IF m + 1 \in s THEN F[<<f[s \ {m + 1}], v[m + 1]>>] ELSE f[s]]
    <2>2. \A s \in SUBSET (1..(m + 1)) : s \ {m + 1} \in SUBSET (1..m)
      OBVIOUS
    <2>3. \A s \in SUBSET (1..(m + 1)) : m + 1 \notin s => s \in SUBSET (1..m)
      OBVIOUS
    <2>4. v[m + 1] \in U
      OBVIOUS
    <2>5. g \in [SUBSET (1..(m + 1)) -> T]
      <3> SUFFICES ASSUME NEW s \in SUBSET (1..(m + 1)) PROVE g[s] \in T
        OBVIOUS
      <3>1. CASE m + 1 \in s
        <4>1. f[s \ {m + 1}] \in T
          BY <2>2
        <4>. QED
          BY <2>4, <3>1, <4>1
      <3>2. CASE m + 1 \notin s
        BY <2>3, <3>2
      <3>. QED
        BY <3>1, <3>2
    <2>6. ASSUME NEW s \in SUBSET (1..(m + 1))
          PROVE  /\ s = {} => g[s] = a
                 /\ s # {} => g[s] = F[<<g[s \ {Max(s)}], v[Max(s)]>>]
      <3>1. CASE m + 1 \in s
        <4>1. Max(s) = m + 1
          BY <3>1, MaxIs
        <4>2. s \ {m + 1} \in SUBSET (1..(m + 1)) /\ m + 1 \notin s \ {m + 1}
          OBVIOUS
        <4>3. g[s \ {m + 1}] = f[s \ {m + 1}] /\ g[s] = F[<<f[s \ {m + 1}], v[m + 1]>>]
          BY <3>1, <4>2
        <4> HIDE DEF g
        <4>. QED
          BY <3>1, <4>1, <4>3
      <3>2. CASE m + 1 \notin s
        <4>1. s \in SUBSET (1..m)
          BY <2>3, <3>2
        <4>2. /\ s = {} => f[s] = a
              /\ s # {} => f[s] = F[<<f[s \ {Max(s)}], v[Max(s)]>>]
          BY <2>1, <4>1 DEF Folding
        <4>3. g[s] = f[s]
          BY <3>2
        <4>4. m + 1 \notin s \ {Max(s)} /\ s \ {Max(s)} \in SUBSET (1..(m + 1))
          BY <3>2
        <4>5. g[s \ {Max(s)}] = f[s \ {Max(s)}]
          BY <4>4
        <4> HIDE DEF g
        <4>. QED
          BY <4>2, <4>3, <4>5
      <3>. QED
        BY <3>1, <3>2
    <2>7. Folding(F, a, v, m + 1, g)
      <3> HIDE DEF g
      <3>. QED
        BY <2>6 DEF Folding
    <2> HIDE DEF g
    <2>. QED
      BY <2>5, <2>7 DEF HasFold
  <1>3. n \in S
    <2> HIDE DEF S
    <2>. QED
      BY <1>1, <1>2, Induction
  <1>. QED
    BY <1>3

\* The positions up to k.
LEMMA UpTo ==
    ASSUME NEW n \in Nat, NEW k \in 1..n
    PROVE  /\ 1..k \in SUBSET (1..n) /\ 1..k # {}
           /\ Max(1..k) = k /\ (1..k) \ {k} = 1..(k - 1)
  <1>1. 1..k \in SUBSET (1..k) /\ k \in 1..k /\ k \in Nat
    OBVIOUS
  <1>2. Max(1..k) = k
    BY <1>1, MaxIs
  <1>3. (1..k) \ {k} = 1..(k - 1)
    OBVIOUS
  <1>4. 1..k \in SUBSET (1..n)
    OBVIOUS
  <1>. QED
    BY <1>1, <1>2, <1>3, <1>4

\* What a fold is up to each position stays in T if each step does.
LEMMA FoldStays ==
    ASSUME NEW T, NEW n \in Nat, NEW p, p[0] \in T,
           \A k \in 1..n : p[k - 1] \in T => p[k] \in T
    PROVE  \A k \in 0..n : p[k] \in T
  <1> DEFINE S == {m \in Nat : m <= n => p[m] \in T}
  <1>1. 0 \in S
    OBVIOUS
  <1>2. ASSUME NEW m \in Nat, m \in S PROVE m + 1 \in S
    <2> SUFFICES ASSUME m + 1 <= n PROVE p[m + 1] \in T
      OBVIOUS
    <2>1. p[m] \in T /\ m + 1 \in 1..n /\ (m + 1) - 1 = m
      BY <1>2
    <2>. QED
      BY <2>1
  <1>3. \A m \in Nat : m \in S
    <2> HIDE DEF S
    <2>. QED
      BY <1>1, <1>2, Induction
  <1>. QED
    BY <1>3

-----------------------------------------------------------------------------
(* Arithmetic with errors.                                                 *)

\* A number other than zero is a private key, and its multiple of the generator
\* a point other than infinity.
Value == Scalar \cup {Err}
Point == 1..(Q - 1)

\* What is what.
LEMMA ErrIsNoScalar == Err \notin Scalar /\ Err \notin Point /\ Scalar \subseteq Int /\ 0 \in Scalar
                       /\ Point = Scalar \ {0} /\ Point \subseteq Int
  BY ErrAssumption, QIsNat DEF Scalar, Point

\* A sum is an error if a part is or if it is infinity.
LEMMA AddIs ==
    ASSUME NEW a \in Value, NEW b \in Value
    PROVE  /\ Add(a, b) \in Point \cup {Err} /\ Add(a, b) \in Value
           /\ a = Err \/ b = Err => Add(a, b) = Err
           /\ a # Err /\ b # Err =>
                /\ Add(a, b) = Err <=> Same(a + b, 0)
                /\ Add(a, b) # Err => Same(Add(a, b), a + b)
  <1>1. CASE a = Err \/ b = Err
    BY <1>1 DEF Add, Value
  <1>2. CASE a # Err /\ b # Err
    <2>1. a \in Int /\ b \in Int /\ a + b \in Int
      BY <1>2, ErrIsNoScalar DEF Value
    <2> DEFINE m == (a + b) % Q
    <2>2. m \in Scalar /\ Same(m, a + b) /\ Same(a + b, m)
      BY <2>1, SameMod
    <2>3. Add(a, b) = IF m = 0 THEN Err ELSE m
      BY <1>2 DEF Add, NonZero
    <2> HIDE DEF m
    <2>4. Same(a + b, 0) <=> m = 0
      <3>1. m \in Int /\ 0 \in Int
        BY <2>2, ErrIsNoScalar
      <3>2. m = 0 => Same(a + b, 0)
        BY <2>2
      <3>3. Same(a + b, 0) => Same(m, 0)
        BY <2>1, <2>2, <3>1, SameTrans
      <3>4. Same(m, 0) => m = 0
        BY <2>2, ErrIsNoScalar, SameScalar
      <3>. QED
        BY <3>2, <3>3, <3>4
    <2>. QED
      BY <1>2, <2>2, <2>3, <2>4, ErrIsNoScalar DEF Value
  <1>. QED
    BY <1>1, <1>2

\* A product of scalars other than zero is one.
LEMMA MulIs ==
    ASSUME NEW a \in Point \cup {Err}, NEW b \in Point \cup {Err}
    PROVE  /\ Mul(a, b) \in Point \cup {Err}
           /\ Mul(a, b) = Err <=> a = Err \/ b = Err
           /\ a # Err /\ b # Err => Same(Mul(a, b), a * b)
  <1>1. CASE a = Err \/ b = Err
    BY <1>1 DEF Mul
  <1>2. CASE a # Err /\ b # Err
    <2>1. a \in Int /\ b \in Int /\ a * b \in Int
      BY <1>2, ErrIsNoScalar
    <2> DEFINE m == (a * b) % Q
    <2>2. m \in Point
      BY <1>2, NoZeroDivisors DEF Point
    <2>3. Same(m, a * b)
      BY <2>1, SameMod
    <2>4. Mul(a, b) = IF m = 0 THEN Err ELSE m
      BY <1>2 DEF Mul, NonZero
    <2> HIDE DEF m
    <2>. QED
      BY <1>2, <2>2, <2>3, <2>4, ErrIsNoScalar
  <1>. QED
    BY <1>1, <1>2

\* The opposite of a point.
LEMMA NegIs ==
    ASSUME NEW a \in Point
    PROVE  Neg(a) \in Point /\ Same(Neg(a), -a) /\ Neg(a) = Q - a
  <1>1. a \in Int /\ -a \in Int /\ a # Err /\ a \in 1..(Q - 1)
    BY ErrIsNoScalar DEF Point
  <1>2. Neg(a) = (-a) % Q
    BY <1>1 DEF Neg
  <1>3. (-a) % Q \in Scalar /\ Same((-a) % Q, -a)
    BY <1>1, SameMod
  <1>4. Q - a \in Scalar /\ Q - a \in Point /\ Q - a \in Int
    BY <1>1, QIsNat DEF Scalar, Point
  <1>5. Same(-a, Q - a)
    <2>1. -a = (Q - a) + (-1) * Q
      BY <1>1, QIsNat
    <2>. QED
      BY <2>1 DEF Same
  <1>6. Same((-a) % Q, Q - a)
    BY <1>1, <1>3, <1>4, <1>5, ErrIsNoScalar, SameTrans
  <1>7. (-a) % Q = Q - a
    BY <1>3, <1>4, <1>6, SameScalar
  <1>. QED
    BY <1>2, <1>3, <1>4, <1>7

\* p[k] is what k terms of v add up to, from a on.
Adding(a, v, n, p) == p[0] = a /\ \A k \in 1..n : p[k] = Add(p[k - 1], v[k])

\* A fold of additions goes through what the first k terms add up to.
LEMMA AddFold ==
    ASSUME NEW n \in Nat, NEW a \in Value, NEW v \in [1..n -> Value]
    PROVE  \E p \in [0..n -> Value] : Adding(a, v, n, p) /\ FoldLeft(Add, a, v) = p[n]
  <1> DEFINE F == [x \in Value \X Value |-> Add(x[1], x[2])]
             Unfolded(g) == g = [s \in SUBSET (1..n) |-> IF s = {} THEN a
                                   ELSE Add(g[s \ {Max(s)}], v[Max(s)])]
             h == CHOOSE g : Unfolded(g)
             p == [k \in 0..n |-> h[1..k]]
  <1>1. \E g : Unfolded(g)
    <2>1. F \in [Value \X Value -> Value]
      BY AddIs
    <2>2. \A x, y \in Value : F[<<x, y>>] = Add(x, y)
      OBVIOUS
    <2> HIDE DEF F
    <2>3. HasFold(F, a, v, n, Value)
      BY <2>1, FoldExists
    <2>4. PICK g \in [SUBSET (1..n) -> Value] : Folding(F, a, v, n, g)
      BY <2>3 DEF HasFold
    <2>5. ASSUME NEW s \in SUBSET (1..n), s # {} PROVE g[s] = Add(g[s \ {Max(s)}], v[Max(s)])
      <3>1. Max(s) \in s
        BY <2>5, MaxOfMany
      <3>2. g[s \ {Max(s)}] \in Value /\ v[Max(s)] \in Value
        BY <3>1
      <3>. QED
        BY <2>2, <2>4, <2>5, <3>2 DEF Folding
    <2>6. \A s \in SUBSET (1..n) : s = {} => g[s] = a
      BY <2>4 DEF Folding
    <2>7. g = [s \in SUBSET (1..n) |-> g[s]]
      OBVIOUS
    <2>. QED
      BY <2>5, <2>6, <2>7
  <1>2. Unfolded(h)
    BY <1>1
  <1>3. FoldLeft(Add, a, v) = h[1..n]
    <2>1. DOMAIN v = 1..n
      OBVIOUS
    <2>. QED
      BY <2>1 DEF FoldLeft, MapThenFoldSet
  <1> HIDE DEF h
  <1>4. h[1..0] = a
    <2>1. 1..0 = {} /\ {} \in SUBSET (1..n)
      OBVIOUS
    <2>. QED
      BY <1>2, <2>1
  <1>5. ASSUME NEW k \in 1..n PROVE h[1..k] = Add(h[1..(k - 1)], v[k])
    <2> DEFINE s == 1..k
    <2>1. s \in SUBSET (1..n) /\ s # {} /\ Max(s) = k /\ s \ {k} = 1..(k - 1)
      BY UpTo
    <2> HIDE DEF s
    <2>2. h[s] = Add(h[s \ {Max(s)}], v[Max(s)])
      BY <1>2, <2>1
    <2>. QED
      BY <2>1, <2>2 DEF s
  <1>6. Adding(a, v, n, p) /\ FoldLeft(Add, a, v) = p[n]
    <2>1. p[0] = a /\ p[n] = h[1..n]
      BY <1>4
    <2>2. ASSUME NEW k \in 1..n PROVE p[k] = Add(p[k - 1], v[k])
      BY <1>5
    <2> HIDE DEF p
    <2>. QED
      BY <1>3, <2>1, <2>2 DEF Adding
  <1>7. \A k \in 0..n : p[k] \in Value
    <2> HIDE DEF p
    <2>1. \A k \in 1..n : p[k - 1] \in Value => p[k] \in Value
      BY <1>6, AddIs DEF Adding
    <2>. QED
      BY <1>6, <2>1, FoldStays DEF Adding
  <1>8. p \in [0..n -> Value]
    BY <1>7
  <1> HIDE DEF p
  <1>. QED
    BY <1>6, <1>8
-----------------------------------------------------------------------------
(* Sums.                                                                   *)

\* What the first elements of v add up to.
Partials(v, n) ==
    CHOOSE p \in [0..n -> Int] : p[0] = 0 /\ \A k \in 1..n : p[k] = p[k - 1] + v[k]
Sum(v, k) == Partials(v, Len(v))[k]

\* The partial sums exist, and each is one term more than the one before.
LEMMA SumSteps ==
    ASSUME NEW n \in Nat, NEW v \in [1..n -> Int]
    PROVE  /\ Sum(v, 0) = 0
           /\ \A k \in 1..n : Sum(v, k) = Sum(v, k - 1) + v[k]
           /\ \A k \in 0..n : Sum(v, k) \in Int
  <1> DEFINE F == [x \in Int \X Int |-> x[1] + x[2]]
             Right(p) == p[0] = 0 /\ \A k \in 1..n : p[k] = p[k - 1] + v[k]
  <1>1. F \in [Int \X Int -> Int] /\ \A x, y \in Int : F[<<x, y>>] = x + y
    OBVIOUS
  <1>2. HasFold(F, 0, v, n, Int)
    <2> DEFINE I == Int
    <2>1. F \in [I \X I -> I] /\ v \in [1..n -> I] /\ 0 \in I
      BY <1>1
    <2> HIDE DEF F, I
    <2>2. HasFold(F, 0, v, n, I)
      BY <2>1, FoldExists
    <2>. QED
      BY <2>2 DEF I
  <1>3. PICK g \in [SUBSET (1..n) -> Int] : Folding(F, 0, v, n, g)
    BY <1>2 DEF HasFold
  <1> HIDE DEF F
  <1> DEFINE p == [k \in 0..n |-> g[1..k]]
  <1>4. p \in [0..n -> Int]
    <2>1. \A k \in 0..n : 1..k \in SUBSET (1..n)
      OBVIOUS
    <2>. QED
      BY <2>1
  <1>5. p[0] = 0
    <2>1. 1..0 = {} /\ {} \in SUBSET (1..n)
      OBVIOUS
    <2>2. g[{}] = 0
      BY <1>3, <2>1 DEF Folding
    <2>3. p[0] = g[1..0]
      OBVIOUS
    <2> HIDE DEF p
    <2>. QED
      BY <2>1, <2>2, <2>3
  <1>6. ASSUME NEW k \in 1..n PROVE p[k] = p[k - 1] + v[k]
    <2> DEFINE s == 1..k
    <2>1. s \in SUBSET (1..n) /\ s # {} /\ Max(s) = k /\ s \ {k} = 1..(k - 1)
      BY UpTo
    <2> HIDE DEF s
    <2>2. g[s] = F[<<g[s \ {Max(s)}], v[Max(s)]>>]
      BY <1>3, <2>1 DEF Folding
    <2>3. g[s] = F[<<g[1..(k - 1)], v[k]>>]
      BY <2>1, <2>2
    <2>4. p[k] = g[s] /\ p[k - 1] = g[1..(k - 1)]
      BY DEF s
    <2>5. p[k - 1] \in Int /\ v[k] \in Int
      BY <1>4
    <2>. QED
      BY <1>1, <2>3, <2>4, <2>5
  <1> HIDE DEF p
  <1>7. Right(p)
    BY <1>5, <1>6
  <1> DEFINE q == CHOOSE f \in [0..n -> Int] : Right(f)
  <1>8. q \in [0..n -> Int] /\ Right(q)
    <2> HIDE DEF Right
    <2>. QED
      BY <1>4, <1>7
  <1>9. Len(v) = n
    OBVIOUS
  <1>10. ASSUME NEW k PROVE Sum(v, k) = q[k]
    BY <1>9 DEF Sum, Partials
  <1> HIDE DEF q
  <1>11. q[0] = 0 /\ (\A k \in 1..n : q[k] = q[k - 1] + v[k]) /\ \A k \in 0..n : q[k] \in Int
    BY <1>8
  <1>12. \A k \in 1..n : Sum(v, k) = q[k] /\ Sum(v, k - 1) = q[k - 1]
    BY <1>10
  <1>. QED
    BY <1>10, <1>11, <1>12

\* Induction over the elements of a sum.
LEMMA UpToAll ==
    ASSUME NEW n \in Nat, NEW S, 0 \in S, \A k \in 1..n : k - 1 \in S => k \in S
    PROVE  \A k \in 0..n : k \in S
  <1> DEFINE p == [k \in 0..n |-> k]
  <1>1. \A k \in 1..n : p[k - 1] \in S => p[k] \in S
    OBVIOUS
  <1>2. p[0] \in S
    OBVIOUS
  <1>3. \A k \in 0..n : p[k] \in S
    <2> HIDE DEF p
    <2>. QED
      BY <1>1, <1>2, FoldStays
  <1>. QED
    BY <1>3

\* Equal sequences have equal sums, and a part of one has those of the whole.
LEMMA SumOfPart ==
    ASSUME NEW n \in Nat, NEW v \in [1..n -> Int], NEW m \in 0..n, NEW u \in [1..m -> Int],
           \A k \in 1..m : u[k] = v[k]
    PROVE  \A k \in 0..m : Sum(u, k) = Sum(v, k)
  <1> DEFINE S == {k \in 0..m : Sum(u, k) = Sum(v, k)}
  <1>1. m \in Nat /\ \A k \in 1..m : k \in 1..n
    OBVIOUS
  <1>2. 0 \in S
    BY <1>1, SumSteps
  <1>3. ASSUME NEW k \in 1..m, k - 1 \in S PROVE k \in S
    <2>1. Sum(u, k) = Sum(u, k - 1) + u[k]
      BY <1>1, SumSteps
    <2>2. Sum(v, k) = Sum(v, k - 1) + v[k]
      BY <1>1, SumSteps
    <2>. QED
      BY <1>3, <2>1, <2>2
  <1>4. \A k \in 0..m : k \in S
    <2> HIDE DEF S
    <2>. QED
      BY <1>1, <1>2, <1>3, UpToAll
  <1>. QED
    BY <1>4

\* One more element in front.
LEMMA SumFront ==
    ASSUME NEW n \in Nat, NEW v \in [1..n -> Int], NEW w \in [1..(n + 1) -> Int],
           \A k \in 1..n : w[k + 1] = v[k]
    PROVE  \A k \in 0..n : Sum(w, k + 1) = w[1] + Sum(v, k)
  <1> DEFINE S == {k \in 0..n : Sum(w, k + 1) = w[1] + Sum(v, k)}
  <1>0. n + 1 \in Nat /\ w[1] \in Int
    OBVIOUS
  <1>1. \A k \in 0..n : Sum(w, k + 1) = Sum(w, k) + w[k + 1] /\ Sum(w, k) \in Int /\ Sum(w, k + 1) \in Int
    <2> SUFFICES ASSUME NEW k \in 0..n
                 PROVE  Sum(w, k + 1) = Sum(w, k) + w[k + 1] /\ Sum(w, k) \in Int /\ Sum(w, k + 1) \in Int
      OBVIOUS
    <2> DEFINE l == k + 1
    <2>1. l \in 1..(n + 1) /\ l \in 0..(n + 1) /\ k \in 0..(n + 1) /\ l - 1 = k
      OBVIOUS
    <2> HIDE DEF l
    <2>2. Sum(w, l) = Sum(w, l - 1) + w[l] /\ Sum(w, k) \in Int /\ Sum(w, l) \in Int
      BY <1>0, <2>1, SumSteps
    <2>. QED
      BY <2>1, <2>2 DEF l
  <1>2. 0 \in S
    <2>1. Sum(w, 0) = 0 /\ Sum(v, 0) = 0
      BY <1>0, SumSteps
    <2>2. Sum(w, 0 + 1) = Sum(w, 0) + w[0 + 1]
      BY <1>1
    <2>3. Sum(w, 0 + 1) = w[1] + Sum(v, 0)
      BY <1>0, <2>1, <2>2
    <2>. QED
      BY <2>3
  <1>3. ASSUME NEW k \in 1..n, k - 1 \in S PROVE k \in S
    <2>1. Sum(w, k + 1) = Sum(w, k) + w[k + 1] /\ w[k + 1] = v[k]
      BY <1>1
    <2>2. Sum(v, k) = Sum(v, k - 1) + v[k] /\ Sum(v, k - 1) \in Int /\ v[k] \in Int
      <3>1. k \in 1..n /\ k - 1 \in 0..n
        OBVIOUS
      <3>. QED
        BY <3>1, SumSteps
    <2>3. Sum(w, k) = w[1] + Sum(v, k - 1)
      BY <1>3
    <2>. QED
      BY <1>0, <2>1, <2>2, <2>3
  <1>4. \A k \in 0..n : k \in S
    <2> HIDE DEF S
    <2>. QED
      BY <1>2, <1>3, UpToAll
  <1>. QED
    BY <1>4

\* u is v without its i-th element.
Without(u, v, i, n) ==
    /\ \A k \in 1..(n - 1) : k < i => u[k] = v[k]
    /\ \A k \in 1..(n - 1) : k >= i => u[k] = v[k + 1]

\* What a party receives: everything but its own.
LEMMA FromOthersIs ==
    ASSUME NEW n \in Nat, NEW T, NEW v \in [1..n -> T], NEW i \in 1..n
    PROVE  /\ FromOthers(i, v) \in [1..(n - 1) -> T]
           /\ Without(FromOthers(i, v), v, i, n)
  <1> DEFINE a == SubSeq(v, 1, i - 1)
             b == SubSeq(v, i + 1, n)
             u == FromOthers(i, v)
  <1>1. v \in Seq(T) /\ Len(v) = n
    OBVIOUS
  <1>2. a \in Seq(T) /\ Len(a) = i - 1 /\ \A k \in 1..(i - 1) : a[k] = v[k]
    BY <1>1
  <1>3. b \in Seq(T) /\ Len(b) = n - i /\ \A k \in 1..(n - i) : b[k] = v[i + k]
    BY <1>1
  <1>4. u = a \o b
    BY <1>1 DEF FromOthers
  <1> HIDE DEF a, b, u
  <1>5. /\ u \in Seq(T) /\ Len(u) = Len(a) + Len(b)
        /\ \A k \in 1..(Len(a) + Len(b)) : u[k] = IF k <= Len(a) THEN a[k] ELSE b[k - Len(a)]
    BY <1>2, <1>3, <1>4, ConcatProperties
  <1>6. Len(u) = n - 1
    BY <1>2, <1>3, <1>5
  <1>7. u \in [1..(n - 1) -> T]
    BY <1>5, <1>6
  <1>8. ASSUME NEW k \in 1..(n - 1), k < i PROVE u[k] = v[k]
    BY <1>2, <1>3, <1>5, <1>8
  <1>9. ASSUME NEW k \in 1..(n - 1), k >= i PROVE u[k] = v[k + 1]
    <2>1. k - (i - 1) \in 1..(n - i) /\ i + (k - (i - 1)) = k + 1 /\ ~(k <= i - 1)
      BY <1>9
    <2>2. u[k] = b[k - (i - 1)]
      BY <1>2, <1>3, <1>5, <2>1
    <2>3. b[k - (i - 1)] = v[i + (k - (i - 1))]
      BY <1>3, <2>1
    <2>. QED
      BY <2>1, <2>2, <2>3
  <1>10. Without(u, v, i, n)
    BY <1>8, <1>9 DEF Without
  <1>. QED
    BY <1>7, <1>10 DEF u

\* In whatever order the own element is added.
LEMMA SumOfOthers ==
    ASSUME NEW n \in Nat, NEW v \in [1..n -> Int], NEW i \in 1..n
    PROVE  v[i] + Sum(FromOthers(i, v), n - 1) = Sum(v, n)
  <1> DEFINE u == FromOthers(i, v)
             S == {k \in 0..n : /\ k < i => Sum(u, k) = Sum(v, k)
                                /\ ~(k < i) => v[i] + Sum(u, k - 1) = Sum(v, k)}
  <1>0. n - 1 \in Nat /\ v[i] \in Int
    OBVIOUS
  <1>1. /\ u \in [1..(n - 1) -> Int]
        /\ \A k \in 1..(n - 1) : (k < i => u[k] = v[k]) /\ (k >= i => u[k] = v[k + 1])
    <2> DEFINE I == Int
    <2>1. v \in [1..n -> I]
      OBVIOUS
    <2> HIDE DEF I
    <2>2. u \in [1..(n - 1) -> I] /\ Without(u, v, i, n)
      BY <2>1, FromOthersIs
    <2>3. u \in [1..(n - 1) -> Int]
      BY <2>2 DEF I
    <2> HIDE DEF u
    <2>. QED
      BY <2>2, <2>3 DEF Without
  <1> HIDE DEF u
  <1>2. /\ Sum(u, 0) = 0 /\ \A k \in 0..(n - 1) : Sum(u, k) \in Int
        /\ \A k \in 1..(n - 1) : Sum(u, k) = Sum(u, k - 1) + u[k]
    BY <1>0, <1>1, SumSteps
  <1>3. /\ Sum(v, 0) = 0 /\ \A k \in 0..n : Sum(v, k) \in Int
        /\ \A k \in 1..n : Sum(v, k) = Sum(v, k - 1) + v[k]
    BY SumSteps
  <1>4. 0 \in S
    BY <1>2, <1>3
  <1>5. ASSUME NEW k \in 1..n, k - 1 \in S PROVE k \in S
    <2>1. CASE k < i
      <3>1. k \in 1..(n - 1) /\ k - 1 < i /\ u[k] = v[k]
        BY <1>1, <2>1
      <3>2. Sum(u, k) = Sum(u, k - 1) + u[k] /\ Sum(v, k) = Sum(v, k - 1) + v[k]
        BY <1>2, <1>3, <3>1
      <3>3. Sum(u, k - 1) = Sum(v, k - 1)
        BY <1>5, <3>1
      <3>. QED
        BY <2>1, <3>1, <3>2, <3>3
    <2>2. CASE k = i
      <3>1. Sum(u, k - 1) = Sum(v, k - 1)
        BY <1>5, <2>2
      <3>2. k - 1 \in 0..(n - 1) /\ Sum(u, k - 1) \in Int
        BY <1>2
      <3>3. Sum(v, k) = Sum(v, k - 1) + v[i]
        BY <1>3, <2>2
      <3>4. v[i] + Sum(u, k - 1) = Sum(v, k)
        BY <1>0, <3>1, <3>2, <3>3
      <3>. QED
        BY <2>2, <3>4
    <2>3. CASE k > i
      <3> DEFINE l == k - 1
      <3>1. l \in 1..(n - 1) /\ ~(l < i) /\ u[l] = v[k] /\ l \in 0..n /\ l - 1 \in 0..(n - 1)
        BY <1>1, <2>3
      <3>2. Sum(u, l) = Sum(u, l - 1) + u[l] /\ Sum(u, l - 1) \in Int /\ Sum(u, l) \in Int
        BY <1>2, <3>1
      <3>3. Sum(v, k) = Sum(v, l) + v[k]
        BY <1>3
      <3>4. v[i] + Sum(u, l - 1) = Sum(v, l)
        BY <1>5, <3>1
      <3>5. v[k] \in Int /\ v[i] + Sum(u, l) = Sum(v, k)
        BY <1>0, <3>1, <3>2, <3>3, <3>4
      <3>. QED
        BY <2>3, <3>5
    <2>. QED
      BY <2>1, <2>2, <2>3
  <1>6. n \in S
    <2>1. \A k \in 0..n : k \in S
      <3> HIDE DEF S
      <3>. QED
        BY <1>4, <1>5, UpToAll
    <2>. QED
      BY <2>1
  <1>. QED
    BY <1>6 DEF u
-----------------------------------------------------------------------------
(* Sums of scalars, as the parties and as the single signer form them.     *)

\* Congruent terms add up to congruent sums, in any linear combination.
LEMMA SumLinear ==
    ASSUME NEW n \in Nat, NEW w \in [1..n -> Int], NEW t \in [1..n -> Int],
           NEW u \in [1..n -> Int], NEW x \in Int, NEW y \in Int,
           \A k \in 1..n : Same(w[k], x * t[k] + y * u[k])
    PROVE  Same(Sum(w, n), x * Sum(t, n) + y * Sum(u, n))
  <1> DEFINE S == {k \in 0..n : Same(Sum(w, k), x * Sum(t, k) + y * Sum(u, k))}
  <1>1. /\ Sum(w, 0) = 0 /\ \A k \in 0..n : Sum(w, k) \in Int
        /\ \A k \in 1..n : Sum(w, k) = Sum(w, k - 1) + w[k]
    BY SumSteps
  <1>2. /\ Sum(t, 0) = 0 /\ \A k \in 0..n : Sum(t, k) \in Int
        /\ \A k \in 1..n : Sum(t, k) = Sum(t, k - 1) + t[k]
    BY SumSteps
  <1>3. /\ Sum(u, 0) = 0 /\ \A k \in 0..n : Sum(u, k) \in Int
        /\ \A k \in 1..n : Sum(u, k) = Sum(u, k - 1) + u[k]
    BY SumSteps
  <1>4. 0 \in S
    <2>1. x * 0 + y * 0 = 0
      OBVIOUS
    <2>2. Same(0, 0)
      BY SameSelf
    <2>. QED
      BY <1>1, <1>2, <1>3, <2>1, <2>2
  <1>5. ASSUME NEW k \in 1..n, k - 1 \in S PROVE k \in S
    <2> DEFINE W == Sum(w, k - 1)
               X == Sum(t, k - 1)
               Y == Sum(u, k - 1)
               wk == w[k]
               tk == t[k]
               uk == u[k]
    <2>1. k - 1 \in 0..n
      OBVIOUS
    <2>2. W \in Int /\ X \in Int /\ Y \in Int
      BY <1>1, <1>2, <1>3, <2>1
    <2>3. wk \in Int /\ tk \in Int /\ uk \in Int
      OBVIOUS
    <2>4. Sum(w, k) = W + wk /\ Sum(t, k) = X + tk /\ Sum(u, k) = Y + uk
      BY <1>1, <1>2, <1>3
    <2>5. Same(W, x * X + y * Y) /\ Same(wk, x * tk + y * uk)
      BY <1>5
    <2> HIDE DEF W, X, Y, wk, tk, uk
    <2>6. x * X + y * Y \in Int /\ x * tk + y * uk \in Int
      BY <2>2, <2>3
    <2>7. Same(W + wk, (x * X + y * Y) + (x * tk + y * uk))
      BY <2>2, <2>3, <2>5, <2>6, SameAdd
    <2>8. x * (X + tk) + y * (Y + uk) = (x * X + y * Y) + (x * tk + y * uk)
      BY <2>2, <2>3
    <2>9. Same(Sum(w, k), x * Sum(t, k) + y * Sum(u, k))
      BY <2>4, <2>7, <2>8
    <2>. QED
      BY <2>9
  <1>6. \A k \in 0..n : k \in S
    <2> HIDE DEF S
    <2>. QED
      BY <1>4, <1>5, UpToAll
  <1>. QED
    BY <1>6

\* Congruent terms have congruent sums.
LEMMA SumSame ==
    ASSUME NEW n \in Nat, NEW w \in [1..n -> Int], NEW t \in [1..n -> Int],
           \A k \in 1..n : Same(w[k], t[k])
    PROVE  Same(Sum(w, n), Sum(t, n))
  <1> DEFINE x == 1
             y == 0
  <1>1. /\ x \in Int /\ y \in Int
        /\ \A a \in Int : x * a + y * a = a
    OBVIOUS
  <1>2. Sum(t, n) \in Int /\ \A k \in 1..n : t[k] \in Int
    BY SumSteps
  <1> HIDE DEF x, y
  <1>3. \A k \in 1..n : Same(w[k], x * t[k] + y * t[k])
    BY <1>1, <1>2
  <1>4. Same(Sum(w, n), x * Sum(t, n) + y * Sum(t, n))
    BY <1>1, <1>3, SumLinear
  <1>. QED
    BY <1>1, <1>2, <1>4

\* What the parties add up, unless they meet infinity on the way.
LEMMA AddFoldIs ==
    ASSUME NEW n \in Nat, NEW a \in Scalar, NEW v \in [1..n -> Scalar]
    PROVE  LET total == FoldLeft(Add, a, v) IN
           /\ total \in Value
           /\ total = Err <=> \E k \in 1..n : Same(a + Sum(v, k), 0)
           /\ total # Err => Same(total, a + Sum(v, n))
           /\ total # Err /\ n > 0 => total \in Point
  <1>0. v \in [1..n -> Int] /\ v \in [1..n -> Value] /\ a \in Int /\ a \in Value /\ a # Err
    BY ErrIsNoScalar DEF Value
  <1>1. PICK p \in [0..n -> Value] : Adding(a, v, n, p) /\ FoldLeft(Add, a, v) = p[n]
    BY <1>0, AddFold
  <1> DEFINE Right(k) == /\ p[k] = Err <=> \E j \in 1..k : Same(a + Sum(v, j), 0)
                         /\ p[k] # Err => Same(p[k], a + Sum(v, k))
             S == {k \in 0..n : Right(k)}
  <1>2. /\ Sum(v, 0) = 0 /\ \A k \in 0..n : Sum(v, k) \in Int
        /\ \A k \in 1..n : Sum(v, k) = Sum(v, k - 1) + v[k]
    BY <1>0, SumSteps
  <1>3. 0 \in S
    <2>1. p[0] = a
      BY <1>1 DEF Adding
    <2>2. a + Sum(v, 0) = a
      BY <1>0, <1>2
    <2>3. Same(a, a)
      BY <1>0, SameSelf
    <2>. QED
      BY <1>0, <2>1, <2>2, <2>3
  <1>4. ASSUME NEW k \in 1..n, k - 1 \in S PROVE k \in S
    <2> DEFINE A == p[k - 1]
               B == p[k]
               V == v[k]
               X == a + Sum(v, k - 1)
               Y == a + Sum(v, k)
    <2>1. k - 1 \in 0..n /\ k \in 0..n
      OBVIOUS
    <2>2. A \in Value /\ B = Add(A, V) /\ V \in Value /\ V # Err /\ V \in Int
      BY <1>0, <1>1, <2>1, ErrIsNoScalar DEF Adding
    <2>3. X \in Int /\ Y \in Int /\ Y = X + V
      <3>1. Sum(v, k - 1) \in Int /\ Sum(v, k) \in Int /\ Sum(v, k) = Sum(v, k - 1) + v[k]
        BY <1>2, <2>1
      <3>. QED
        BY <1>0, <2>2, <3>1
    <2>4. /\ A = Err <=> \E j \in 1..(k - 1) : Same(a + Sum(v, j), 0)
          /\ A # Err => Same(A, X)
      BY <1>4
    <2>5. (\E j \in 1..k : Same(a + Sum(v, j), 0))
             <=> Same(Y, 0) \/ \E j \in 1..(k - 1) : Same(a + Sum(v, j), 0)
      OBVIOUS
    <2> HIDE DEF A, B, V, X, Y
    <2>6. CASE A = Err
      <3>1. B = Err
        BY <2>2, <2>6, AddIs
      <3>2. Right(k)
        BY <2>4, <2>5, <2>6, <3>1 DEF B
      <3>. QED
        BY <3>2
    <2>7. CASE A # Err
      <3>1. A \in Int /\ A + V \in Int
        BY <2>2, <2>7, ErrIsNoScalar DEF Value
      <3>2. /\ B = Err <=> Same(A + V, 0)
            /\ B # Err => Same(B, A + V)
        BY <2>2, <2>7, AddIs
      <3>3. Same(A + V, Y) /\ Same(Y, A + V)
        <4>1. Same(V, V)
          BY <2>2, SameSelf
        <4>2. Same(A + V, X + V)
          BY <2>2, <2>3, <2>4, <2>7, <3>1, <4>1, SameAdd
        <4>. QED
          BY <2>3, <3>1, <4>2, SameBack
      <3>4. 0 \in Int /\ (B # Err => B \in Int)
        <4>1. B \in Value
          BY <2>2, AddIs
        <4>. QED
          BY <4>1, ErrIsNoScalar DEF Value
      <3>5. B = Err <=> Same(Y, 0)
        BY <2>3, <3>1, <3>2, <3>3, <3>4, SameTrans
      <3>6. B # Err => Same(B, Y)
        BY <2>3, <3>1, <3>2, <3>3, <3>4, SameTrans
      <3>7. Right(k)
        BY <2>4, <2>5, <2>7, <3>5, <3>6 DEF B, Y
      <3>. QED
        BY <3>7
    <2>. QED
      BY <2>6, <2>7
  <1>5. n \in S
    <2>1. \A k \in 0..n : k \in S
      <3> HIDE DEF S
      <3>. QED
        BY <1>3, <1>4, UpToAll
    <2>. QED
      BY <2>1
  <1>6. n > 0 /\ p[n] # Err => p[n] \in Point
    <2> SUFFICES ASSUME n > 0, p[n] # Err PROVE p[n] \in Point
      OBVIOUS
    <2>1. n \in 1..n /\ n - 1 \in 0..n
      OBVIOUS
    <2>2. p[n] = Add(p[n - 1], v[n]) /\ p[n - 1] \in Value /\ v[n] \in Value
      BY <1>0, <1>1, <2>1 DEF Adding
    <2>. QED
      BY <2>2, AddIs
  <1>. QED
    BY <1>1, <1>5, <1>6

\* A sum over what is no scalar is an error.
LEMMA AddFoldErr ==
    ASSUME NEW n \in Nat, NEW a \in Value, NEW v \in [1..n -> Value],
           a = Err \/ \E k \in 1..n : v[k] = Err
    PROVE  FoldLeft(Add, a, v) = Err
  <1>1. PICK p \in [0..n -> Value] : Adding(a, v, n, p) /\ FoldLeft(Add, a, v) = p[n]
    BY AddFold
  <1> DEFINE S == {k \in 0..n : (a = Err \/ \E j \in 1..k : v[j] = Err) => p[k] = Err}
  <1>2. 0 \in S
    BY <1>1 DEF Adding
  <1>3. ASSUME NEW k \in 1..n, k - 1 \in S PROVE k \in S
    <2>1. p[k] = Add(p[k - 1], v[k]) /\ p[k - 1] \in Value /\ v[k] \in Value
      BY <1>1 DEF Adding
    <2>2. ASSUME a = Err \/ \E j \in 1..k : v[j] = Err PROVE p[k - 1] = Err \/ v[k] = Err
      BY <1>3, <2>2
    <2>. QED
      BY <2>1, <2>2, AddIs
  <1>4. n \in S
    <2>1. \A k \in 0..n : k \in S
      <3> HIDE DEF S
      <3>. QED
        BY <1>2, <1>3, UpToAll
    <2>. QED
      BY <2>1
  <1>. QED
    BY <1>1, <1>4

\* What the single signer adds up.
LEMMA ScalarSumIs ==
    ASSUME NEW n \in Nat, NEW v \in [1..n -> Int]
    PROVE  ScalarSum(v) = Sum(v, n) % Q
  <1> DEFINE Plus(a, b) == (a + b) % Q
             F == [x \in Scalar \X Int |-> Plus(x[1], x[2])]
             Unfolded(g) == g = [s \in SUBSET (1..n) |-> IF s = {} THEN 0
                                   ELSE Plus(g[s \ {Max(s)}], v[Max(s)])]
             h == CHOOSE g : Unfolded(g)
  <1>1. \A a \in Scalar, b \in Int : Plus(a, b) \in Scalar
    BY ErrIsNoScalar, SameMod
  <1>2. \E g : Unfolded(g)
    <2> DEFINE I == Int
    <2>1. F \in [Scalar \X I -> Scalar] /\ v \in [1..n -> I] /\ 0 \in Scalar
      BY <1>1, ErrIsNoScalar
    <2>2. \A x \in Scalar, y \in Int : F[<<x, y>>] = Plus(x, y)
      OBVIOUS
    <2> HIDE DEF F, I
    <2>3. HasFold(F, 0, v, n, Scalar)
      BY <2>1, FoldExists
    <2>4. PICK g \in [SUBSET (1..n) -> Scalar] : Folding(F, 0, v, n, g)
      BY <2>3 DEF HasFold
    <2> HIDE DEF Plus
    <2>5. ASSUME NEW s \in SUBSET (1..n), s # {} PROVE g[s] = Plus(g[s \ {Max(s)}], v[Max(s)])
      <3>1. Max(s) \in s
        BY <2>5, MaxOfMany
      <3>2. g[s \ {Max(s)}] \in Scalar /\ v[Max(s)] \in Int
        BY <3>1
      <3>. QED
        BY <2>2, <2>4, <2>5, <3>2 DEF Folding
    <2>6. \A s \in SUBSET (1..n) : s = {} => g[s] = 0
      BY <2>4 DEF Folding
    <2>7. g = [s \in SUBSET (1..n) |-> g[s]]
      OBVIOUS
    <2>. QED
      BY <2>5, <2>6, <2>7
  <1>3. Unfolded(h)
    BY <1>2
  <1>4. ScalarSum(v) = h[1..n]
    <2>1. DOMAIN v = 1..n
      OBVIOUS
    <2>. QED
      BY <2>1 DEF ScalarSum, FoldLeft, MapThenFoldSet
  <1> HIDE DEF h
  <1> DEFINE p == [k \in 0..n |-> h[1..k]]
  <1>5. p[0] = 0
    <2>1. 1..0 = {} /\ {} \in SUBSET (1..n)
      OBVIOUS
    <2>2. h[{}] = 0
      BY <1>3, <2>1
    <2>3. p[0] = h[1..0]
      OBVIOUS
    <2> HIDE DEF p
    <2>. QED
      BY <2>1, <2>2, <2>3
  <1>6. ASSUME NEW k \in 1..n PROVE p[k] = (p[k - 1] + v[k]) % Q
    <2> DEFINE s == 1..k
    <2>1. s \in SUBSET (1..n) /\ s # {} /\ Max(s) = k /\ s \ {k} = 1..(k - 1)
      BY UpTo
    <2> HIDE DEF s
    <2>2. h[s] = Plus(h[s \ {Max(s)}], v[Max(s)])
      BY <1>3, <2>1
    <2>3. h[s] = Plus(h[1..(k - 1)], v[k])
      BY <2>1, <2>2
    <2>4. p[k] = h[s] /\ p[k - 1] = h[1..(k - 1)]
      BY DEF s
    <2>. QED
      BY <2>3, <2>4
  <1>7. p[n] = h[1..n]
    OBVIOUS
  <1> HIDE DEF p
  <1> DEFINE S == {k \in 0..n : p[k] \in Scalar /\ Same(p[k], Sum(v, k))}
  <1>8. /\ Sum(v, 0) = 0 /\ \A k \in 0..n : Sum(v, k) \in Int
        /\ \A k \in 1..n : Sum(v, k) = Sum(v, k - 1) + v[k]
    BY SumSteps
  <1>9. 0 \in S
    BY <1>5, <1>8, ErrIsNoScalar, SameSelf
  <1>10. ASSUME NEW k \in 1..n, k - 1 \in S PROVE k \in S
    <2> DEFINE A == p[k - 1]
               V == v[k]
               X == Sum(v, k - 1)
    <2>0. V \in Int /\ X \in Int /\ A \in Scalar /\ Same(A, X)
      <3>1. k - 1 \in 0..n
        OBVIOUS
      <3>. QED
        BY <1>8, <1>10, <3>1
    <2>2. p[k] = (A + V) % Q /\ Sum(v, k) = X + V
      BY <1>6, <1>8
    <2> HIDE DEF A, V, X
    <2>1. A \in Int /\ A + V \in Int /\ X + V \in Int
      BY <2>0, ErrIsNoScalar
    <2>3. Same(V, V)
      BY <2>0, SameSelf
    <2>4. Same(A + V, X + V)
      BY <2>0, <2>1, <2>3, SameAdd
    <2>5. p[k] \in Scalar /\ Same(p[k], A + V)
      BY <2>1, <2>2, SameMod
    <2>6. Same(p[k], X + V)
      BY <2>1, <2>4, <2>5, ErrIsNoScalar, SameTrans
    <2>. QED
      BY <2>2, <2>5, <2>6
  <1>11. n \in S
    <2>1. \A k \in 0..n : k \in S
      <3> HIDE DEF S
      <3>. QED
        BY <1>9, <1>10, UpToAll
    <2>. QED
      BY <2>1
  <1>12. ScalarSum(v) \in Scalar /\ Same(ScalarSum(v), Sum(v, n)) /\ Sum(v, n) \in Int
    BY <1>4, <1>7, <1>8, <1>11
  <1>13. Sum(v, n) % Q \in Scalar /\ Same(Sum(v, n), Sum(v, n) % Q)
    BY <1>12, SameMod
  <1>14. Same(ScalarSum(v), Sum(v, n) % Q)
    BY <1>12, <1>13, ErrIsNoScalar, SameTrans
  <1>. QED
    BY <1>12, <1>13, <1>14, SameScalar
-----------------------------------------------------------------------------
(* Public keys as bytes: one encoding each, on every curve.                *)

KeyBytes == [tag : {TAG_PUBKEY_FULL}, x : 0..(Word - 1), y : 0..(Word - 1)]

\* The curve, point by point.
LEMMA OnTheCurve ==
    ASSUME NEW pt \in Point
    PROVE  /\ Coord[pt] = <<Coord[pt][1], Coord[pt][2]>>
           /\ Coord[pt][1] \in 0..(P - 1) /\ Coord[pt][2] \in 0..(P - 1)
           /\ OnCurve(Coord[pt][1], Coord[pt][2])
<1>1. Coord[pt] \in (0..(P - 1)) \X (0..(P - 1))
  BY CurveAssumption DEF Point
<1>2. (Coord[pt][2] * Coord[pt][2]) % P = (Coord[pt][1] ^ 3 + CurveB) % P
  BY CurveAssumption DEF Point
<1> QED  BY <1>1, <1>2 DEF OnCurve

\* A pair that satisfies the equation is one point, the one PointAt chooses.
LEMMA PointAtIsThePoint ==
    ASSUME NEW x \in 0..(P - 1), NEW y \in 0..(P - 1), OnCurve(x, y)
    PROVE  /\ PointAt(x, y) \in Point /\ Coord[PointAt(x, y)] = <<x, y>>
           /\ \A pt \in Point : Coord[pt] = <<x, y>> => pt = PointAt(x, y)
<1>1. \E pt \in Point : Coord[pt] = <<x, y>>
  BY CurveAssumption DEF OnCurve, Point
<1>2. PointAt(x, y) \in Point /\ Coord[PointAt(x, y)] = <<x, y>>
  BY <1>1 DEF PointAt, Point
<1>3. \A k, l \in Point : Coord[k] = Coord[l] => k = l
  BY CurveAssumption DEF Point
<1> QED  BY <1>2, <1>3

\* PublicKey::parse gives a point for its own serialized form and for no other
\* bytes with that tag: what an honest party sends comes back as its key, no two
\* byte strings stand for one key, and coordinates that are not reduced or not
\* on the curve are refused.
THEOREM OneEncoding ==
    ASSUME NEW pt \in Point, NEW b \in KeyBytes
    PROVE  ParsePublicKey(b) = pt <=> b = Serialize(pt)
<1> P \in Nat /\ b.x \in Nat /\ b.y \in Nat /\ pt \in Int
  BY CurveAssumption, WordAssumption DEF KeyBytes, Point
<1>1. ASSUME b = Serialize(pt) PROVE ParsePublicKey(b) = pt
  <2>1. b.x = Coord[pt][1] /\ b.y = Coord[pt][2]
    BY <1>1 DEF Serialize
  <2>2. b.x \in 0..(P - 1) /\ b.y \in 0..(P - 1) /\ OnCurve(b.x, b.y)
    BY <2>1, OnTheCurve
  <2>3. Coord[pt] = <<b.x, b.y>>
    BY <2>1, OnTheCurve
  <2>4. pt = PointAt(b.x, b.y)
    BY <2>2, <2>3, PointAtIsThePoint
  <2> QED  BY <2>2, <2>4 DEF ParsePublicKey
<1>2. ASSUME ParsePublicKey(b) = pt PROVE b = Serialize(pt)
  <2>1. pt # Err
    BY ErrAssumption
  <2>2. b.x < P /\ b.y < P /\ OnCurve(b.x, b.y) /\ pt = PointAt(b.x, b.y)
    BY <1>2, <2>1 DEF ParsePublicKey
  <2>3. b.x \in 0..(P - 1) /\ b.y \in 0..(P - 1)
    BY <2>2
  <2>4. Coord[pt] = <<b.x, b.y>>
    BY <2>2, <2>3, PointAtIsThePoint
  <2>5. Serialize(pt) = [tag |-> TAG_PUBKEY_FULL, x |-> b.x, y |-> b.y]
    BY <2>4 DEF Serialize
  <2>6. b = [tag |-> TAG_PUBKEY_FULL, x |-> b.x, y |-> b.y]
    BY DEF KeyBytes
  <2> QED  BY <2>5, <2>6
<1> QED  BY <1>1, <1>2

\* Any bytes are a point or an error, and a point comes back as itself.
LEMMA Parsed ==
    /\ \A b \in KeyBytes : ParsePublicKey(b) \in Point \cup {Err}
    /\ \A pt \in Point : Serialize(pt) \in KeyBytes /\ ParsePublicKey(Serialize(pt)) = pt
  <1>1. ASSUME NEW b \in KeyBytes, ParsePublicKey(b) # Err PROVE ParsePublicKey(b) \in Point
    <2>1. b.x < P /\ b.y < P /\ OnCurve(b.x, b.y) /\ ParsePublicKey(b) = PointAt(b.x, b.y)
      BY <1>1 DEF ParsePublicKey
    <2>2. b.x \in 0..(P - 1) /\ b.y \in 0..(P - 1)
      BY <2>1, QIsNat, WordAssumption DEF KeyBytes
    <2>. QED
      BY <2>1, <2>2, PointAtIsThePoint
  <1>2. ASSUME NEW pt \in Point PROVE Serialize(pt) \in KeyBytes
    <2>1. /\ Coord[pt][1] \in 0..(P - 1) /\ Coord[pt][2] \in 0..(P - 1)
      BY OnTheCurve
    <2>2. \A c \in 0..(P - 1) : c \in 0..(Word - 1)
      BY QIsNat, WordAssumption
    <2>. QED
      BY <2>1, <2>2 DEF Serialize, KeyBytes
  <1>. QED
    BY <1>1, <1>2, OneEncoding

\* What an honest party sends as a sequence of points arrives as that sequence.
LEMMA ConvertBack ==
    ASSUME NEW n \in Nat, NEW s \in [1..n -> Point]
    PROVE  ConvertFromVec([k \in 1..n |-> Serialize(s[k])]) = s
  <1> DEFINE v == [k \in 1..n |-> Serialize(s[k])]
             T == Seq(Point)
             F == [x \in T \X KeyBytes |-> PushParsed(x[1], x[2])]
             Unfolded(g) == g = [t \in SUBSET (1..n) |-> IF t = {} THEN << >>
                                   ELSE PushParsed(g[t \ {Max(t)}], v[Max(t)])]
             h == CHOOSE g : Unfolded(g)
  <1>1. v \in [1..n -> KeyBytes]
    BY Parsed
  <1>2. \A a \in T, b \in KeyBytes : PushParsed(a, b) \in T
    BY Parsed DEF PushParsed
  <1>3. \A k \in 1..n : ParsePublicKey(v[k]) = s[k] /\ s[k] # Err /\ s[k] \in Point
    BY Parsed, ErrIsNoScalar
  <1>4. << >> \in T
    OBVIOUS
  <1>5. ConvertFromVec(v) = h[1..n]
    <2>1. DOMAIN v = 1..n
      OBVIOUS
    <2> HIDE DEF v
    <2>. QED
      BY <2>1 DEF ConvertFromVec, FoldLeft, MapThenFoldSet
  <1> HIDE DEF v
  <1>6. \E g : Unfolded(g)
    <2>1. F \in [T \X KeyBytes -> T] /\ \A a \in T, b \in KeyBytes : F[<<a, b>>] = PushParsed(a, b)
      BY <1>2
    <2> HIDE DEF F, T
    <2>3. HasFold(F, << >>, v, n, T)
      BY <1>1, <1>4, <2>1, FoldExists
    <2>4. PICK g \in [SUBSET (1..n) -> T] : Folding(F, << >>, v, n, g)
      BY <2>3 DEF HasFold
    <2>5. ASSUME NEW t \in SUBSET (1..n), t # {} PROVE g[t] = PushParsed(g[t \ {Max(t)}], v[Max(t)])
      <3>1. Max(t) \in t
        BY <2>5, MaxOfMany
      <3>2. g[t \ {Max(t)}] \in T /\ v[Max(t)] \in KeyBytes
        BY <1>1, <3>1
      <3>. QED
        BY <2>1, <2>4, <2>5, <3>2 DEF Folding
    <2>6. \A t \in SUBSET (1..n) : t = {} => g[t] = << >>
      BY <2>4 DEF Folding
    <2>7. g = [t \in SUBSET (1..n) |-> g[t]]
      OBVIOUS
    <2>. QED
      BY <2>5, <2>6, <2>7
  <1>7. Unfolded(h)
    BY <1>6
  <1> HIDE DEF h, F, T
  <1>8. h[1..0] = << >>
    <2>1. 1..0 = {} /\ {} \in SUBSET (1..n)
      OBVIOUS
    <2>2. h[{}] = << >>
      BY <1>7, <2>1
    <2>. QED
      BY <2>1, <2>2
  <1> DEFINE S == {k \in 0..n : h[1..k] = [j \in 1..k |-> s[j]]}
  <1>9. 0 \in S
    <2>1. << >> = [j \in 1..0 |-> s[j]]
      OBVIOUS
    <2>. QED
      BY <1>8, <2>1
  <1>10. ASSUME NEW k \in 1..n, k - 1 \in S PROVE k \in S
    <2> DEFINE t == 1..k
               before == [j \in 1..(k - 1) |-> s[j]]
    <2>1. t \in SUBSET (1..n) /\ t # {} /\ Max(t) = k /\ t \ {k} = 1..(k - 1)
      BY UpTo
    <2> HIDE DEF t
    <2>2. h[t] = PushParsed(h[t \ {Max(t)}], v[Max(t)])
      BY <1>7, <2>1
    <2>3. h[t] = PushParsed(before, v[k])
      BY <1>10, <2>1, <2>2
    <2>4. h[t] = Append(before, s[k])
      BY <1>3, <2>3 DEF PushParsed
    <2>5. Append(before, s[k]) = [j \in 1..k |-> s[j]]
      OBVIOUS
    <2>. QED
      BY <2>4, <2>5 DEF t
  <1>11. n \in S
    <2>1. \A k \in 0..n : k \in S
      <3> HIDE DEF S
      <3>. QED
        BY <1>9, <1>10, UpToAll
    <2>. QED
      BY <2>1
  <1>12. ConvertFromVec(v) = s
    BY <1>5, <1>11
  <1>. QED
    BY <1>12 DEF v
-----------------------------------------------------------------------------
(* What a party hashes and receives.                                       *)

\* A hash is parsed as a private key, and is taken to be one.
HashIsScalar == \A s \in Seq(Scalar) : H(s) \in Point

\* A hash of scalars is one; a hash over an error is an error.
LEMMA HashIs ==
    ASSUME HashIsScalar, NEW s \in Seq(Value)
    PROVE  /\ Hash(s) \in Point \cup {Err}
           /\ Hash(s) = Err <=> \E k \in 1..Len(s) : s[k] = Err
  <1>1. DOMAIN s = 1..Len(s)
    OBVIOUS
  <1>2. CASE \E k \in 1..Len(s) : s[k] = Err
    BY <1>1, <1>2 DEF Hash, IsErr
  <1>3. CASE ~\E k \in 1..Len(s) : s[k] = Err
    <2>1. \A k \in 1..Len(s) : s[k] \in Scalar
      BY <1>3 DEF Value
    <2>2. s \in Seq(Scalar)
      BY <2>1
    <2>3. H(s) \in Point /\ Hash(s) = H(s)
      BY <1>1, <1>3, <2>2 DEF HashIsScalar, Hash, IsErr
    <2>. QED
      BY <1>3, <2>3, ErrIsNoScalar
  <1>. QED
    BY <1>2, <1>3

\* A private key has two nonces.
LEMMA EphemeralIs ==
    ASSUME HashIsScalar, NEW x \in Point
    PROVE  /\ Ephemeral(x) \in [1..2 -> Point] /\ Ephemeral(x) = <<Ephemeral(x)[1], Ephemeral(x)[2]>>
           /\ Ephemeral(x)[1] \in Point /\ Ephemeral(x)[2] \in Point
  <1>1. x \in Scalar /\ 0 \in Scalar /\ 1 \in Scalar
    BY QIsNat DEF Point, Scalar
  <1>2. ASSUME NEW j \in {0, 1} PROVE Hash(<<x, j>>) \in Point
    <2> DEFINE s == <<x, j>>
    <2>1. s \in Seq(Value) /\ Len(s) = 2 /\ s[1] # Err /\ s[2] # Err
      BY <1>1, ErrIsNoScalar DEF Value
    <2> HIDE DEF s
    <2>2. ~\E k \in 1..Len(s) : s[k] = Err
      BY <2>1
    <2>3. Hash(s) \in Point
      BY <2>1, <2>2, HashIs
    <2>. QED
      BY <2>3 DEF s
  <1>3. Hash(<<x, 0>>) \in Point /\ Hash(<<x, 1>>) \in Point
    BY <1>2
  <1>. QED
    BY <1>3 DEF Ephemeral

\* n parties with honest keys.
Keyed(n) == n \in Nat /\ n > 0 /\ keys \in [1..n -> Point]

\* Everybody has two.
LEMMA NoncesAre ==
    ASSUME HashIsScalar, NEW n, Keyed(n)
    PROVE  /\ Nonces \in [1..n -> [1..2 -> Point]] /\ Parties = 1..n
           /\ \A i \in 1..n : Nonces[i] = Ephemeral(keys[i])
  <1>1. Parties = 1..n
    BY DEF Keyed, Parties
  <1>2. \A i \in 1..n : keys[i] \in Point
    BY DEF Keyed
  <1>. QED
    BY <1>1, <1>2, EphemeralIs DEF Nonces

\* The messages the other parties sent, by slot.
Inbox(i) == FromOthers(i, [j \in Parties |-> MessageRound1(keys[j])])

\* The slots below the own index hold the parties of that index, the others the next one.
LEMMA InboxIs ==
    ASSUME NEW n, Keyed(n), NEW i \in 1..n
    PROVE  /\ Inbox(i) = [k \in 1..(n - 1) |-> Inbox(i)[k]]
           /\ \A k \in 1..(n - 1) : k < i => Inbox(i)[k] = MessageRound1(keys[k])
           /\ \A k \in 1..(n - 1) : k >= i => Inbox(i)[k] = MessageRound1(keys[k + 1])
  <1> DEFINE sent == [j \in Parties |-> MessageRound1(keys[j])]
             T == {MessageRound1(keys[j]) : j \in 1..n}
  <1>1. sent \in [1..n -> T] /\ \A j \in 1..n : sent[j] = MessageRound1(keys[j])
    BY DEF Keyed, Parties
  <1>2. Inbox(i) = FromOthers(i, sent) /\ n \in Nat
    BY DEF Inbox, Keyed
  <1> HIDE DEF sent, T
  <1>3. Inbox(i) \in [1..(n - 1) -> T] /\ Without(Inbox(i), sent, i, n)
    <2>1. FromOthers(i, sent) \in [1..(n - 1) -> T] /\ Without(FromOthers(i, sent), sent, i, n)
      BY <1>1, <1>2, FromOthersIs
    <2>. QED
      BY <1>2, <2>1
  <1>4. ASSUME NEW k \in 1..(n - 1), k < i PROVE Inbox(i)[k] = MessageRound1(keys[k])
    BY <1>1, <1>2, <1>3, <1>4 DEF Without
  <1>5. ASSUME NEW k \in 1..(n - 1), k >= i PROVE Inbox(i)[k] = MessageRound1(keys[k + 1])
    <2>1. k + 1 \in 1..n
      BY <1>2
    <2>. QED
      BY <1>1, <1>2, <1>3, <1>5, <2>1 DEF Without
  <1>. QED
    BY <1>3, <1>4, <1>5

\* The keys in some slots.
PubKeys(slots) == [k \in DOMAIN slots |-> slots[k].pubkey]

\* The keys of some parties' messages.
LEMMA KeysOfSlots ==
    ASSUME NEW T, NEW slots \in Seq(T), NEW s \in Seq(Point), Len(slots) = Len(s),
           \A k \in 1..Len(s) : slots[k] = MessageRound1(s[k])
    PROVE  ConvertFromVec(PubKeys(slots)) = s
  <1>1. DOMAIN slots = 1..Len(s) /\ Len(s) \in Nat /\ s \in [1..Len(s) -> Point]
    OBVIOUS
  <1>2. ASSUME NEW k \in 1..Len(s) PROVE slots[k].pubkey = Serialize(s[k])
    <2>1. slots[k] = MessageRound1(s[k])
      OBVIOUS
    <2>2. MessageRound1(s[k]).pubkey = Serialize(s[k])
      BY DEF MessageRound1
    <2>. QED
      BY <2>1, <2>2
  <1>3. PubKeys(slots) = [k \in 1..Len(s) |-> Serialize(s[k])]
    BY <1>1, <1>2 DEF PubKeys
  <1>. QED
    BY <1>1, <1>3, ConvertBack

\* Every party has all keys, in the order of the indices.
LEMMA ReceivedKeysAre ==
    ASSUME NEW n, Keyed(n), NEW i \in 1..n
    PROVE  ReceivedKeys(keys[i], i, Inbox(i)) = keys
  <1> DEFINE box == Inbox(i)
             T == {MessageRound1(keys[j]) : j \in 1..n}
             front == SubSeq(box, 1, i - 1)
             back == SubSeq(box, i, Len(box))
             s == [k \in 1..(i - 1) |-> keys[k]]
             t == [k \in 1..(n - i) |-> keys[i + k]]
  <1>0. n \in Nat /\ n > 0 /\ keys \in [1..n -> Point]
    BY DEF Keyed
  <1>1. /\ box = [k \in 1..(n - 1) |-> box[k]]
        /\ \A k \in 1..(n - 1) : k < i => box[k] = MessageRound1(keys[k])
        /\ \A k \in 1..(n - 1) : k >= i => box[k] = MessageRound1(keys[k + 1])
    BY InboxIs
  <1> HIDE DEF box
  <1>2. box \in Seq(T) /\ Len(box) = n - 1
    <2>1. \A k \in 1..(n - 1) : box[k] \in T
      <3> SUFFICES ASSUME NEW k \in 1..(n - 1) PROVE box[k] \in T
        OBVIOUS
      <3>1. k \in 1..n /\ k + 1 \in 1..n
        BY <1>0
      <3>2. CASE k < i
        BY <1>1, <3>1, <3>2
      <3>3. CASE k >= i
        BY <1>1, <3>1, <3>3
      <3>. QED
        BY <3>2, <3>3
    <2> HIDE DEF T
    <2>2. box \in [1..(n - 1) -> T] /\ n - 1 \in Nat
      BY <1>0, <1>1, <2>1
    <2>. QED
      BY <2>2
  <1> HIDE DEF T
  <1>3. front \in Seq(T) /\ Len(front) = i - 1 /\ \A k \in 1..(i - 1) : front[k] = box[k]
    BY <1>0, <1>2
  <1>4. back \in Seq(T) /\ Len(back) = n - i /\ \A k \in 1..(n - i) : back[k] = box[(i - 1) + k]
    BY <1>0, <1>2
  <1> HIDE DEF front, back
  <1>5. ConvertFromVec(PubKeys(front)) = s
    <2>1. s \in Seq(Point) /\ Len(s) = i - 1 /\ \A k \in 1..(i - 1) : s[k] = keys[k]
      BY <1>0
    <2> HIDE DEF s
    <2>2. ASSUME NEW k \in 1..(i - 1) PROVE front[k] = MessageRound1(s[k])
      <3>1. k \in 1..(n - 1) /\ k < i
        BY <1>0
      <3>. QED
        BY <1>1, <1>3, <2>1, <3>1
    <2>. QED
      BY <1>3, <2>1, <2>2, KeysOfSlots
  <1>6. ConvertFromVec(PubKeys(back)) = t
    <2>1. t \in Seq(Point) /\ Len(t) = n - i /\ \A k \in 1..(n - i) : t[k] = keys[i + k]
      BY <1>0
    <2> HIDE DEF t
    <2>2. ASSUME NEW k \in 1..(n - i) PROVE back[k] = MessageRound1(t[k])
      <3>1. (i - 1) + k \in 1..(n - 1) /\ (i - 1) + k >= i /\ ((i - 1) + k) + 1 = i + k
        BY <1>0
      <3>2. back[k] = MessageRound1(keys[i + k])
        BY <1>1, <1>4, <3>1
      <3>. QED
        BY <2>1, <3>2
    <2>. QED
      BY <1>4, <2>1, <2>2, KeysOfSlots
  <1>7. ReceivedKeys(keys[i], i, box) = s \o <<keys[i]>> \o t
    BY <1>5, <1>6 DEF ReceivedKeys, front, back, PubKeys
  <1>8. s \o <<keys[i]>> \o t = keys
    <2>1. s \in Seq(Point) /\ t \in Seq(Point) /\ Len(s) = i - 1 /\ Len(t) = n - i
      BY <1>0
    <2>2. <<keys[i]>> \in Seq(Point)
      BY <1>0
    <2> DEFINE own == <<keys[i]>>
               r == s \o own
               whole == r \o t
    <2>3. Len(own) = 1 /\ own[1] = keys[i]
      OBVIOUS
    <2>4. \A k \in 1..(i - 1) : s[k] = keys[k]
      OBVIOUS
    <2>5. \A k \in 1..(n - i) : t[k] = keys[i + k]
      OBVIOUS
    <2> HIDE DEF s, t, own
    <2>6. r \in Seq(Point) /\ Len(r) = Len(s) + Len(own)
          /\ \A k \in 1..(Len(s) + Len(own)) : r[k] = IF k <= Len(s) THEN s[k] ELSE own[k - Len(s)]
      BY <2>1, <2>2, ConcatProperties DEF own
    <2> HIDE DEF r
    <2>7. Len(r) = i /\ \A k \in 1..i : r[k] = keys[k]
      <3>1. Len(r) = i
        BY <2>1, <2>3, <2>6
      <3>2. ASSUME NEW k \in 1..i PROVE r[k] = keys[k]
        <4>1. CASE k <= i - 1
          BY <2>1, <2>3, <2>4, <2>6, <4>1
        <4>2. CASE k = i
          <5>1. k - Len(s) = 1 /\ ~(k <= Len(s)) /\ k \in 1..(Len(s) + Len(own))
            BY <2>1, <2>3, <4>2
          <5>. QED
            BY <2>3, <2>6, <4>2, <5>1
        <4>. QED
          BY <4>1, <4>2
      <3>. QED
        BY <3>1, <3>2
    <2>8. whole \in Seq(Point) /\ Len(whole) = Len(r) + Len(t)
          /\ \A k \in 1..(Len(r) + Len(t)) : whole[k] = IF k <= Len(r) THEN r[k] ELSE t[k - Len(r)]
      BY <2>1, <2>6, ConcatProperties
    <2> HIDE DEF whole
    <2>9. Len(whole) = n
      BY <1>0, <2>1, <2>7, <2>8
    <2>10. ASSUME NEW k \in 1..n PROVE whole[k] = keys[k]
      <3>1. CASE k <= i
        BY <2>1, <2>7, <2>8, <2>9, <3>1
      <3>2. CASE k > i
        <4>1. k - i \in 1..(n - i) /\ i + (k - i) = k
          BY <1>0, <3>2
        <4>2. whole[k] = t[k - i]
          BY <2>1, <2>7, <2>8, <2>9, <3>2
        <4>3. t[k - i] = keys[i + (k - i)]
          BY <2>5, <4>1
        <4>. QED
          BY <4>1, <4>2, <4>3
      <3>. QED
        BY <3>1, <3>2
    <2>11. whole = keys
      BY <1>0, <2>8, <2>9, <2>10
    <2>. QED
      BY <2>11 DEF whole, r, own
  <1>. QED
    BY <1>7, <1>8 DEF box

\* And the nonces of all others.
LEMMA ReceivedNoncesAre ==
    ASSUME HashIsScalar, NEW n, Keyed(n), NEW i \in 1..n
    PROVE  ReceivedNonces(Inbox(i)) = FromOthers(i, Nonces)
  <1> DEFINE box == Inbox(i)
             T == [1..2 -> Point]
             others == FromOthers(i, Nonces)
  <1>0. n \in Nat /\ keys \in [1..n -> Point]
    BY DEF Keyed
  <1>1. /\ box = [k \in 1..(n - 1) |-> box[k]]
        /\ \A k \in 1..(n - 1) : k < i => box[k] = MessageRound1(keys[k])
        /\ \A k \in 1..(n - 1) : k >= i => box[k] = MessageRound1(keys[k + 1])
    BY InboxIs
  <1>2. Nonces \in [1..n -> T] /\ \A j \in 1..n : Nonces[j] = Ephemeral(keys[j])
    BY NoncesAre
  <1> HIDE DEF T
  <1>3. others \in [1..(n - 1) -> T] /\ Without(others, Nonces, i, n)
    BY <1>0, <1>2, FromOthersIs
  <1> HIDE DEF box, others
  <1>4. ASSUME NEW j \in 1..n
        PROVE  ConvertFromVec(MessageRound1(keys[j]).ephemeral_keys) = Nonces[j]
    <2> DEFINE e == Ephemeral(keys[j])
    <2>1. e \in [1..2 -> Point] /\ e = Nonces[j] /\ DOMAIN e = 1..2
      BY <1>0, <1>2, EphemeralIs
    <2>2. MessageRound1(keys[j]).ephemeral_keys = ConvertToVec(e)
      BY DEF MessageRound1
    <2> HIDE DEF e
    <2>3. ConvertToVec(e) = [k \in 1..2 |-> Serialize(e[k])]
      BY <2>1 DEF ConvertToVec
    <2>4. ConvertFromVec(ConvertToVec(e)) = e
      BY <2>1, <2>3, ConvertBack
    <2>. QED
      BY <2>1, <2>2, <2>4
  <1>5. ASSUME NEW k \in 1..(n - 1) PROVE ConvertFromVec(box[k].ephemeral_keys) = others[k]
    <2>1. k \in 1..n /\ k + 1 \in 1..n
      BY <1>0
    <2>2. CASE k < i
      BY <1>1, <1>3, <1>4, <2>1, <2>2 DEF Without
    <2>3. CASE k >= i
      BY <1>1, <1>3, <1>4, <2>1, <2>3 DEF Without
    <2>. QED
      BY <2>2, <2>3
  <1>6. DOMAIN box = 1..(n - 1)
    BY <1>1
  <1>7. ReceivedNonces(box) = [k \in 1..(n - 1) |-> others[k]]
    BY <1>5, <1>6 DEF ReceivedNonces
  <1>8. others = [k \in 1..(n - 1) |-> others[k]]
    BY <1>3
  <1>. QED
    BY <1>7, <1>8 DEF box, others
-----------------------------------------------------------------------------
(* The edges of sums.                                                      *)

\* The first k elements.
LEMMA PartIs ==
    ASSUME NEW T, NEW n \in Nat, NEW v \in [1..n -> T], NEW k \in 1..n
    PROVE  SubSeq(v, 1, k) \in [1..k -> T] /\ \A j \in 1..k : SubSeq(v, 1, k)[j] = v[j]
  <1> DEFINE u == SubSeq(v, 1, k)
  <1>1. v \in Seq(T) /\ Len(v) = n
    OBVIOUS
  <1>2. u \in Seq(T) /\ Len(u) = k /\ \A j \in 1..k : u[j] = v[j]
    BY <1>1
  <1> HIDE DEF u
  <1>3. u \in [1..k -> T]
    BY <1>2
  <1>. QED
    BY <1>2, <1>3 DEF u

\* w is v with the term a in front of it.
InFront(w, a, v, n) == w[1] = a /\ \A k \in 1..n : w[k + 1] = v[k]

\* A term put in front.
LEMMA FrontIs ==
    ASSUME NEW T, NEW n \in Nat, NEW v \in [1..n -> T], NEW a \in T
    PROVE  <<a>> \o v \in [1..(n + 1) -> T] /\ InFront(<<a>> \o v, a, v, n)
  <1> DEFINE u == <<a>>
             w == u \o v
  <1>1. v \in Seq(T) /\ Len(v) = n /\ u \in Seq(T) /\ Len(u) = 1 /\ u[1] = a
    OBVIOUS
  <1> HIDE DEF u
  <1>2. /\ w \in Seq(T) /\ Len(w) = Len(u) + Len(v)
        /\ \A k \in 1..(Len(u) + Len(v)) : w[k] = IF k <= Len(u) THEN u[k] ELSE v[k - Len(u)]
    BY <1>1, ConcatProperties
  <1> HIDE DEF w
  <1>3. w \in [1..(n + 1) -> T] /\ w[1] = a
    BY <1>1, <1>2
  <1>4. ASSUME NEW k \in 1..n PROVE w[k + 1] = v[k]
    <2>1. k + 1 \in 1..(1 + n) /\ ~(k + 1 <= 1) /\ (k + 1) - 1 = k
      OBVIOUS
    <2>. QED
      BY <1>1, <1>2, <2>1
  <1>5. w = <<a>> \o v
    BY DEF w, u
  <1>. QED
    BY <1>3, <1>4, <1>5 DEF InFront

\* A sum that is zero on the way.
LEMMA HasZeroPrefixIs ==
    ASSUME NEW n \in Nat, NEW v \in [1..n -> Int]
    PROVE  HasZeroPrefix(v) <=> \E k \in 1..n : Same(Sum(v, k), 0)
  <1>1. ASSUME NEW k \in 1..n
        PROVE  ScalarSum(SubSeq(v, 1, k)) = 0 <=> Same(Sum(v, k), 0)
    <2> DEFINE u == SubSeq(v, 1, k)
    <2>1. u \in [1..k -> Int] /\ k \in Nat /\ k \in 0..n /\ \A j \in 1..k : u[j] = v[j]
      <3> DEFINE I == Int
      <3>1. v \in [1..n -> I]
        OBVIOUS
      <3> HIDE DEF I
      <3>2. u \in [1..k -> I] /\ \A j \in 1..k : u[j] = v[j]
        BY <3>1, PartIs
      <3> HIDE DEF u
      <3>. QED
        BY <3>2 DEF I
    <2> HIDE DEF u
    <2>2. Sum(u, k) = Sum(v, k)
      BY <2>1, SumOfPart
    <2>3. ScalarSum(u) = Sum(v, k) % Q
      BY <2>1, <2>2, ScalarSumIs
    <2>4. Sum(v, k) \in Int /\ 0 \in Int
      BY <2>1, SumSteps
    <2>5. 0 % Q = 0
      BY QIsNat
    <2>6. Sum(v, k) % Q = 0 % Q <=> Same(Sum(v, k), 0)
      BY <2>4, SameIsMod
    <2>. QED
      BY <2>3, <2>5, <2>6 DEF u
  <1>2. DOMAIN v = 1..n
    OBVIOUS
  <1>. QED
    BY <1>1, <1>2 DEF HasZeroPrefix

\* One more term in front.
LEMMA ZeroFront ==
    ASSUME NEW n \in Nat, NEW v \in [1..n -> Int], NEW a \in Int
    PROVE  /\ HasZeroPrefix(<<a>> \o v) <=> Same(a, 0) \/ \E k \in 1..n : Same(a + Sum(v, k), 0)
           /\ ScalarSum(<<a>> \o v) = (a + Sum(v, n)) % Q
  <1> DEFINE w == <<a>> \o v
  <1>1. w \in [1..(n + 1) -> Int] /\ w[1] = a /\ \A k \in 1..n : w[k + 1] = v[k]
    <2> DEFINE I == Int
    <2>1. v \in [1..n -> I] /\ a \in I
      OBVIOUS
    <2> HIDE DEF I
    <2>2. w \in [1..(n + 1) -> I] /\ InFront(w, a, v, n)
      BY <2>1, FrontIs
    <2> HIDE DEF w
    <2>. QED
      BY <2>2 DEF I, InFront
  <1> HIDE DEF w
  <1>2. \A k \in 0..n : Sum(w, k + 1) = a + Sum(v, k)
    BY <1>1, SumFront
  <1>3. Sum(v, 0) = 0 /\ n + 1 \in Nat
    BY SumSteps
  <1>4. HasZeroPrefix(w) <=> \E k \in 1..(n + 1) : Same(Sum(w, k), 0)
    BY <1>1, <1>3, HasZeroPrefixIs
  <1>5. (\E k \in 1..(n + 1) : Same(Sum(w, k), 0)) <=> \E k \in 0..n : Same(Sum(w, k + 1), 0)
    <2>1. ASSUME NEW k \in 1..(n + 1), Same(Sum(w, k), 0)
          PROVE  \E j \in 0..n : Same(Sum(w, j + 1), 0)
      <3>1. k - 1 \in 0..n /\ (k - 1) + 1 = k
        OBVIOUS
      <3>. QED
        BY <2>1, <3>1
    <2>2. ASSUME NEW k \in 0..n, Same(Sum(w, k + 1), 0)
          PROVE  \E j \in 1..(n + 1) : Same(Sum(w, j), 0)
      BY <2>2
    <2>. QED
      BY <2>1, <2>2
  <1>6. (\E k \in 0..n : Same(Sum(w, k + 1), 0)) <=> \E k \in 0..n : Same(a + Sum(v, k), 0)
    BY <1>2
  <1>7. (\E k \in 0..n : Same(a + Sum(v, k), 0))
           <=> Same(a, 0) \/ \E k \in 1..n : Same(a + Sum(v, k), 0)
    <2>1. a + Sum(v, 0) = a
      BY <1>3
    <2>2. \A k \in 0..n : k = 0 \/ k \in 1..n
      OBVIOUS
    <2>3. 0 \in 0..n /\ \A k \in 1..n : k \in 0..n
      OBVIOUS
    <2>. QED
      BY <2>1, <2>2, <2>3
  <1>8. ScalarSum(w) = (a + Sum(v, n)) % Q
    BY <1>1, <1>2, <1>3, ScalarSumIs
  <1>. QED
    BY <1>4, <1>5, <1>6, <1>7, <1>8 DEF w

\* A point is a scalar other than zero.
LEMMA PointIsNotZero == ASSUME NEW a \in Point PROVE ~Same(a, 0) /\ a \in Scalar /\ a \in Int /\ a # Err
  <1>1. a \in Scalar /\ 0 \in Scalar /\ a # 0 /\ a \in Int /\ a # Err
    BY ErrIsNoScalar
  <1>. QED
    BY <1>1, SameScalar

\* A sum of points: an error exactly if a sum on the way is zero, else the sum.
LEMMA AddAll ==
    ASSUME NEW n \in Nat, NEW v \in [1..n -> Point], NEW a \in Point
    PROVE  LET total == FoldLeft(Add, a, v) IN
           /\ total \in Point \cup {Err}
           /\ total = Err <=> HasZeroPrefix(<<a>> \o v)
           /\ total # Err => total = ScalarSum(<<a>> \o v)
  <1> DEFINE total == FoldLeft(Add, a, v)
  <1>1. v \in [1..n -> Int] /\ v \in [1..n -> Scalar] /\ a \in Scalar /\ a \in Int /\ ~Same(a, 0)
    BY ErrIsNoScalar, PointIsNotZero
  <1>2. /\ total \in Value
        /\ total = Err <=> \E k \in 1..n : Same(a + Sum(v, k), 0)
        /\ total # Err => Same(total, a + Sum(v, n))
        /\ total # Err /\ n > 0 => total \in Point
    BY <1>1, AddFoldIs
  <1>3. /\ HasZeroPrefix(<<a>> \o v) <=> \E k \in 1..n : Same(a + Sum(v, k), 0)
        /\ ScalarSum(<<a>> \o v) = (a + Sum(v, n)) % Q
    BY <1>1, ZeroFront
  <1>4. n = 0 => total = a
    <2> SUFFICES ASSUME n = 0 PROVE total = a
      OBVIOUS
    <2>0. v \in [1..n -> Value] /\ a \in Value
      BY <1>1 DEF Value
    <2>1. PICK p \in [0..n -> Value] : Adding(a, v, n, p) /\ total = p[n]
      BY <2>0, AddFold
    <2>. QED
      BY <2>1 DEF Adding
  <1> HIDE DEF total
  <1>5. total \in Point \cup {Err}
    BY <1>2, <1>4
  <1>6. ASSUME total # Err PROVE total = (a + Sum(v, n)) % Q
    <2>1. Sum(v, n) \in Int
      BY <1>1, SumSteps
    <2>2. a + Sum(v, n) \in Int /\ total \in Scalar /\ total \in Int
      BY <1>1, <1>2, <1>6, <2>1, ErrIsNoScalar DEF Value
    <2>3. (a + Sum(v, n)) % Q \in Scalar /\ Same(a + Sum(v, n), (a + Sum(v, n)) % Q)
      BY <2>2, SameMod
    <2>4. Same(total, (a + Sum(v, n)) % Q)
      BY <1>2, <1>6, <2>2, <2>3, ErrIsNoScalar, SameTrans
    <2>. QED
      BY <2>2, <2>3, <2>4, SameScalar
  <1>7. /\ total = Err <=> HasZeroPrefix(<<a>> \o v)
        /\ total # Err => total = ScalarSum(<<a>> \o v)
    BY <1>2, <1>3, <1>6
  <1>. QED
    BY <1>5, <1>7 DEF total
-----------------------------------------------------------------------------
(* The aggregated key and the sums of the nonces.                          *)

\* An x coordinate is a scalar or an error.
LEMMA XScalarIs ==
    ASSUME NEW pt \in Point \cup {Err}
    PROVE  /\ XScalar(pt) \in Value
           /\ pt = Err => XScalar(pt) = Err
           /\ pt # Err => (XScalar(pt) = Err <=> Coord[pt][1] >= Q)
           /\ XScalar(pt) # Err => pt # Err /\ XScalar(pt) = Coord[pt][1]
  <1>1. CASE pt = Err
    BY <1>1 DEF XScalar, Value
  <1>2. CASE pt # Err
    <2>1. Coord[pt][1] \in 0..(P - 1) /\ P \in Nat
      BY <1>2, OnTheCurve, QIsNat
    <2>2. XScalar(pt) = IF Coord[pt][1] < Q THEN Coord[pt][1] ELSE Err
      BY <1>2 DEF XScalar, Parse
    <2> DEFINE x == Coord[pt][1]
    <2> HIDE DEF x
    <2>3. x \in Nat /\ (x < Q => x \in Scalar) /\ (x < Q <=> ~(x >= Q))
      BY <2>1, QIsNat DEF x, Scalar
    <2>. QED
      BY <1>2, <2>2, <2>3, ErrIsNoScalar DEF x, Value
  <1>. QED
    BY <1>1, <1>2

\* A coefficient is an error exactly if a key has an x that is no scalar.
LEMMA CoefficientIs ==
    ASSUME HashIsScalar, NEW n, Keyed(n), NEW i \in 1..n
    PROVE  /\ KeyCoefficient(keys, i) \in Point \cup {Err}
           /\ KeyCoefficient(keys, i) = Err <=> TooLarge({keys[k] : k \in Parties})
  <1> DEFINE xs == [k \in 1..n |-> XScalar(keys[k])]
  <1>1. n \in Nat /\ keys \in [1..n -> Point] /\ DOMAIN keys = 1..n /\ Parties = 1..n
    BY DEF Keyed, Parties
  <1>2. /\ xs \in Seq(Value) /\ Len(xs) = n
        /\ \A k \in 1..n : xs[k] = Err <=> Coord[keys[k]][1] >= Q
    <2>1. \A k \in 1..n : keys[k] \in Point /\ keys[k] # Err
      BY <1>1, ErrIsNoScalar
    <2>2. \A k \in 1..n : xs[k] \in Value /\ (xs[k] = Err <=> Coord[keys[k]][1] >= Q)
      BY <2>1, XScalarIs
    <2>3. xs \in [1..n -> Value]
      BY <2>2
    <2>. QED
      BY <1>1, <2>2, <2>3
  <1>3. KeyCoefficient(keys, i) = Hash(<<1, xs[i]>> \o xs)
    BY <1>1 DEF KeyCoefficient
  <1> HIDE DEF xs
  <1> DEFINE two == <<1, xs[i]>>
             s == two \o xs
  <1>4. two \in Seq(Value) /\ Len(two) = 2 /\ two[1] = 1 /\ two[2] = xs[i] /\ 1 # Err
    <2>1. 1 \in Value /\ 1 # Err /\ xs[i] \in Value
      BY <1>2, QIsNat, ErrIsNoScalar DEF Value, Scalar
    <2>. QED
      BY <2>1
  <1> HIDE DEF two
  <1>5. /\ s \in Seq(Value) /\ Len(s) = Len(two) + Len(xs)
        /\ \A k \in 1..(Len(two) + Len(xs)) : s[k] = IF k <= Len(two) THEN two[k] ELSE xs[k - Len(two)]
    BY <1>2, <1>4, ConcatProperties
  <1>6. KeyCoefficient(keys, i) = Hash(s)
    BY <1>3 DEF two
  <1> HIDE DEF s
  <1>7. (\E k \in 1..Len(s) : s[k] = Err) <=> \E k \in 1..n : xs[k] = Err
    <2>1. ASSUME NEW k \in 1..Len(s), s[k] = Err PROVE \E j \in 1..n : xs[j] = Err
      <3>1. k \in 1..(2 + n) /\ s[k] = IF k <= 2 THEN two[k] ELSE xs[k - 2]
        BY <1>2, <1>4, <1>5
      <3>2. k = 1 \/ k = 2 \/ (k - 2 \in 1..n /\ ~(k <= 2))
        BY <1>1, <3>1
      <3>. QED
        BY <1>4, <2>1, <3>1, <3>2
    <2>2. ASSUME NEW k \in 1..n, xs[k] = Err PROVE \E j \in 1..Len(s) : s[j] = Err
      <3>1. k + 2 \in 1..(2 + n) /\ ~(k + 2 <= 2) /\ (k + 2) - 2 = k
        BY <1>1
      <3>2. s[k + 2] = xs[k] /\ k + 2 \in 1..Len(s)
        BY <1>2, <1>4, <1>5, <3>1
      <3>. QED
        BY <2>2, <3>2
    <2>. QED
      BY <2>1, <2>2
  <1>8. TooLarge({keys[k] : k \in Parties}) <=> \E k \in 1..n : xs[k] = Err
    BY <1>1, <1>2 DEF TooLarge
  <1>9. Hash(s) \in Point \cup {Err} /\ (Hash(s) = Err <=> \E k \in 1..Len(s) : s[k] = Err)
    BY <1>5, HashIs
  <1>. QED
    BY <1>6, <1>7, <1>8, <1>9

\* A sequence is its head in front of its tail.
LEMMA HeadTail ==
    ASSUME NEW T, NEW n \in Nat, n > 0, NEW v \in [1..n -> T]
    PROVE  /\ Head(v) \in T /\ Tail(v) \in [1..(n - 1) -> T] /\ n - 1 \in Nat
           /\ <<Head(v)>> \o Tail(v) = v
  <1>1. v \in Seq(T) /\ Len(v) = n /\ 1 \in 1..n /\ v # << >> /\ n - 1 \in Nat
    OBVIOUS
  <1>2. Head(v) = v[1] /\ v[1] \in T
    BY <1>1
  <1>3. Tail(v) \in Seq(T) /\ Len(Tail(v)) = n - 1 /\ \A k \in 1..(n - 1) : Tail(v)[k] = v[k + 1]
    BY <1>1
  <1> DEFINE u == Tail(v)
             a == Head(v)
             w == <<a>> \o u
  <1> HIDE DEF u, a
  <1>4. u \in [1..(n - 1) -> T] /\ a \in T
    <2>1. u \in Seq(T) /\ Len(u) = n - 1
      BY <1>3 DEF u
    <2>2. a \in T
      BY <1>2 DEF a
    <2>. QED
      BY <1>1, <2>1, <2>2
  <1>5. w \in [1..((n - 1) + 1) -> T] /\ InFront(w, a, u, n - 1)
    BY <1>1, <1>4, FrontIs
  <1> HIDE DEF w
  <1>6. w = v
    <2>1. (n - 1) + 1 = n /\ w \in [1..n -> T]
      BY <1>5
    <2>2. ASSUME NEW k \in 1..n PROVE w[k] = v[k]
      <3>1. CASE k = 1
        BY <1>2, <1>5, <3>1 DEF InFront, a
      <3>2. CASE k # 1
        <4>1. k - 1 \in 1..(n - 1) /\ (k - 1) + 1 = k
          BY <3>2
        <4>. QED
          BY <1>3, <1>5, <4>1 DEF InFront, u
      <3>. QED
        BY <3>1, <3>2
    <2>. QED
      BY <2>1, <2>2
  <1>7. <<Head(v)>> \o Tail(v) = v
    BY <1>6 DEF w, a, u
  <1>. QED
    BY <1>1, <1>2, <1>4, <1>7 DEF u

\* Congruent terms: the same sum, and the same zeros on the way.
LEMMA CongruentSums ==
    ASSUME NEW n \in Nat, NEW v \in [1..n -> Int], NEW w \in [1..n -> Int],
           \A k \in 1..n : Same(v[k], w[k])
    PROVE  /\ HasZeroPrefix(v) <=> HasZeroPrefix(w)
           /\ ScalarSum(v) = ScalarSum(w)
  <1>1. ASSUME NEW m \in 0..n PROVE Same(Sum(v, m), Sum(w, m))
    <2> DEFINE x == [k \in 1..m |-> v[k]]
               y == [k \in 1..m |-> w[k]]
    <2>1. /\ m \in Nat /\ x \in [1..m -> Int] /\ y \in [1..m -> Int]
          /\ \A k \in 1..m : x[k] = v[k] /\ y[k] = w[k] /\ Same(x[k], y[k])
      OBVIOUS
    <2> HIDE DEF x, y
    <2>2. Same(Sum(x, m), Sum(y, m))
      BY <2>1, SumSame
    <2>3. m \in 0..m
      BY <2>1
    <2>4. Sum(x, m) = Sum(v, m)
      BY <2>1, <2>3, SumOfPart
    <2>5. Sum(y, m) = Sum(w, m)
      BY <2>1, <2>3, SumOfPart
    <2>. QED
      BY <2>2, <2>4, <2>5
  <1>2. \A m \in 0..n : Sum(v, m) \in Int /\ Sum(w, m) \in Int
    BY SumSteps
  <1>3. 0 \in Int /\ n \in 0..n /\ \A m \in 1..n : m \in 0..n
    OBVIOUS
  <1>4. \A m \in 1..n : Same(Sum(v, m), 0) <=> Same(Sum(w, m), 0)
    <2> TAKE m \in 1..n
    <2> DEFINE a == Sum(v, m)
               b == Sum(w, m)
    <2>1. Same(a, b) /\ a \in Int /\ b \in Int
      BY <1>1, <1>2, <1>3
    <2> HIDE DEF a, b
    <2>2. Same(b, a)
      BY <2>1, SameBack
    <2>3. Same(a, 0) => Same(b, 0)
      BY <1>3, <2>1, <2>2, SameTrans
    <2>4. Same(b, 0) => Same(a, 0)
      BY <1>3, <2>1, SameTrans
    <2>. QED
      BY <2>3, <2>4 DEF a, b
  <1>5. HasZeroPrefix(v) <=> HasZeroPrefix(w)
    BY <1>4, HasZeroPrefixIs
  <1>6. Same(Sum(v, n), Sum(w, n)) /\ Sum(v, n) \in Int /\ Sum(w, n) \in Int
    BY <1>1, <1>2, <1>3
  <1>7. Sum(v, n) % Q = Sum(w, n) % Q
    BY <1>6, SameIsMod
  <1>. QED
    BY <1>5, <1>7, ScalarSumIs

\* The aggregated key: an error exactly if a key has an x that is no scalar or if
\* the terms come to infinity on the way.
LEMMA AggregateIs ==
    ASSUME HashIsScalar, NEW n, Keyed(n)
    PROVE  /\ AggregatedKey(keys) \in Point \cup {Err}
           /\ AggregatedKey(keys) = Err <=>
                TooLarge({keys[k] : k \in Parties}) \/ HasZeroPrefix(KeyTerms)
           /\ AggregatedKey(keys) # Err => AggregatedKey(keys) = ScalarSum(KeyTerms)
  <1> DEFINE large == TooLarge({keys[k] : k \in Parties})
             a(k) == KeyCoefficient(keys, k)
             term == [k \in 1..n |-> Mul(keys[k], a(k))]
             X == AggregatedKey(keys)
  <1>1. n \in Nat /\ n > 0 /\ keys \in [1..n -> Point] /\ DOMAIN keys = 1..n /\ Parties = 1..n
    BY DEF Keyed, Parties
  <1>2. X = FoldLeft(Add, Head(term), Tail(term))
    BY <1>1 DEF AggregatedKey
  <1>3. \A k \in 1..n : a(k) \in Point \cup {Err} /\ (a(k) = Err <=> large)
    BY CoefficientIs
  <1>4. KeyTerms = [k \in 1..n |-> a(k) * keys[k]]
    BY <1>1 DEF KeyTerms
  <1> HIDE DEF large, a, X
  <1>5. \A k \in 1..n : /\ Mul(keys[k], a(k)) \in Point \cup {Err}
                        /\ Mul(keys[k], a(k)) = Err <=> a(k) = Err
                        /\ a(k) # Err => Same(Mul(keys[k], a(k)), keys[k] * a(k))
    <2> TAKE k \in 1..n
    <2>1. keys[k] \in Point \cup {Err} /\ a(k) \in Point \cup {Err} /\ keys[k] # Err
      BY <1>1, <1>3, ErrIsNoScalar
    <2>. QED
      BY <2>1, MulIs
  <1>6. CASE large
    <2>1. term \in [1..n -> {Err}]
      BY <1>3, <1>5, <1>6
    <2> HIDE DEF term
    <2>2. Head(term) \in {Err} /\ Tail(term) \in [1..(n - 1) -> {Err}] /\ n - 1 \in Nat
      BY <1>1, <2>1, HeadTail
    <2>3. Head(term) = Err /\ Err \in Value /\ Tail(term) \in [1..(n - 1) -> Value]
      BY <2>2 DEF Value
    <2>4. X = Err
      BY <1>2, <2>2, <2>3, AddFoldErr
    <2>. QED
      BY <1>6, <2>4 DEF X, large
  <1>7. CASE ~large
    <2>1. /\ term \in [1..n -> Point]
          /\ \A k \in 1..n : Same(term[k], keys[k] * a(k)) /\ a(k) \in Int /\ keys[k] \in Int
      BY <1>1, <1>3, <1>5, <1>7, ErrIsNoScalar
    <2> HIDE DEF term
    <2>2. /\ Head(term) \in Point /\ Tail(term) \in [1..(n - 1) -> Point] /\ n - 1 \in Nat
          /\ <<Head(term)>> \o Tail(term) = term
      BY <1>1, <2>1, HeadTail
    <2>3. /\ X \in Point \cup {Err}
          /\ X = Err <=> HasZeroPrefix(term)
          /\ X # Err => X = ScalarSum(term)
      BY <1>2, <2>2, AddAll
    <2>4. \A k \in 1..n : keys[k] * a(k) = a(k) * keys[k] /\ a(k) * keys[k] \in Int
      BY <2>1
    <2>5. KeyTerms \in [1..n -> Int] /\ \A k \in 1..n : Same(term[k], KeyTerms[k])
      BY <1>4, <2>1, <2>4
    <2>6. term \in [1..n -> Int]
      BY <2>1, ErrIsNoScalar
    <2>7. (HasZeroPrefix(term) <=> HasZeroPrefix(KeyTerms)) /\ ScalarSum(term) = ScalarSum(KeyTerms)
      BY <1>1, <2>5, <2>6, CongruentSums
    <2>. QED
      BY <1>7, <2>3, <2>7 DEF X, large
  <1>. QED
    BY <1>6, <1>7

\* The sum of the nonces: whatever the order, the same for every party that does
\* not meet infinity on its way.
LEMMA NonceSumIs ==
    ASSUME HashIsScalar, NEW n, Keyed(n), NEW i \in 1..n, NEW j \in 1..2
    PROVE  LET total == NonceSum(Nonces[i], FromOthers(i, Nonces), j) IN
           /\ total \in Point \cup {Err}
           /\ total = Err <=> HasZeroPrefix(NonceTerms(i, j))
           /\ total # Err => total = NonceTotal(j)
  <1> DEFINE others == FromOthers(i, Nonces)
             rest == [k \in 1..(n - 1) |-> others[k][j]]
             col == [k \in 1..n |-> Nonces[k][j]]
             own == Nonces[i][j]
             total == NonceSum(Nonces[i], others, j)
  <1>1. n \in Nat /\ n > 0 /\ n - 1 \in Nat /\ Len(keys) = n /\ Parties = 1..n
    BY DEF Keyed, Parties
  <1>2. Nonces \in [1..n -> [1..2 -> Point]]
    BY NoncesAre
  <1>3. others \in [1..(n - 1) -> [1..2 -> Point]] /\ Without(others, Nonces, i, n)
    BY <1>1, <1>2, FromOthersIs
  <1>4. total = FoldLeft(Add, own, [k \in DOMAIN others |-> others[k][j]])
    BY DEF NonceSum
  <1>5. NonceTerms(i, j) = <<own>> \o [k \in 1..(Len(keys) - 1) |-> others[k][j]]
    BY DEF NonceTerms
  <1>6. NonceTotal(j) = ScalarSum([k \in Parties |-> Nonces[k][j]])
    BY DEF NonceTotal
  <1> HIDE DEF others
  <1>7. DOMAIN others = 1..(n - 1) /\ Len(keys) - 1 = n - 1
    BY <1>1, <1>3
  <1>8. total = FoldLeft(Add, own, rest) /\ NonceTerms(i, j) = <<own>> \o rest
    BY <1>4, <1>5, <1>7
  <1>9. NonceTotal(j) = ScalarSum(col)
    BY <1>1, <1>6
  <1>10. /\ rest \in [1..(n - 1) -> Point] /\ col \in [1..n -> Int] /\ own \in Point /\ col[i] = own
         /\ \A k \in 1..(n - 1) : rest[k] = others[k][j]
         /\ \A k \in 1..n : col[k] = Nonces[k][j]
    BY <1>2, <1>3, ErrIsNoScalar
  <1> HIDE DEF rest, col, own, total
  <1>11. /\ total \in Point \cup {Err}
         /\ total = Err <=> HasZeroPrefix(<<own>> \o rest)
         /\ total # Err => total = ScalarSum(<<own>> \o rest)
    BY <1>1, <1>8, <1>10, AddAll
  <1>12. rest \in [1..(n - 1) -> Int] /\ own \in Int
    BY <1>10, ErrIsNoScalar
  <1>13. ScalarSum(<<own>> \o rest) = (own + Sum(rest, n - 1)) % Q
    BY <1>1, <1>12, ZeroFront
  <1>14. rest = FromOthers(i, col)
    <2> DEFINE u == FromOthers(i, col)
               I == Int
    <2>1. col \in [1..n -> I]
      BY <1>10
    <2> HIDE DEF I
    <2>2. u \in [1..(n - 1) -> I] /\ Without(u, col, i, n)
      BY <1>1, <2>1, FromOthersIs
    <2> HIDE DEF u
    <2>3. ASSUME NEW k \in 1..(n - 1) PROVE rest[k] = u[k]
      <3>1. k \in 1..n /\ k + 1 \in 1..n /\ (k < i \/ k >= i)
        BY <1>1
      <3>2. CASE k < i
        <4>1. others[k] = Nonces[k]
          BY <1>3, <3>2 DEF Without
        <4>2. u[k] = col[k]
          BY <2>2, <3>2 DEF Without
        <4>. QED
          BY <1>10, <3>1, <4>1, <4>2
      <3>3. CASE k >= i
        <4>1. others[k] = Nonces[k + 1]
          BY <1>3, <3>3 DEF Without
        <4>2. u[k] = col[k + 1]
          BY <2>2, <3>3 DEF Without
        <4>. QED
          BY <1>10, <3>1, <4>1, <4>2
      <3>. QED
        BY <3>1, <3>2, <3>3
    <2>4. rest = u
      <3>1. rest = [k \in 1..(n - 1) |-> rest[k]] /\ u = [k \in 1..(n - 1) |-> u[k]]
        BY <1>10, <2>2
      <3>2. [k \in 1..(n - 1) |-> rest[k]] = [k \in 1..(n - 1) |-> u[k]]
        BY <2>3
      <3>. QED
        BY <3>1, <3>2
    <2>. QED
      BY <2>4 DEF u
  <1>15. own + Sum(rest, n - 1) = Sum(col, n)
    BY <1>1, <1>10, <1>14, SumOfOthers
  <1>16. ScalarSum(col) = Sum(col, n) % Q
    BY <1>1, <1>10, ScalarSumIs
  <1>17. total # Err => total = NonceTotal(j)
    BY <1>9, <1>11, <1>13, <1>15, <1>16
  <1>18. total = Err <=> HasZeroPrefix(NonceTerms(i, j))
    BY <1>8, <1>11
  <1>. QED
    BY <1>11, <1>17, <1>18 DEF total, others
-----------------------------------------------------------------------------
(* The parameters of a signing.                                            *)

KeyTotal == ScalarSum(KeyTerms)
SecondFactor == Factor(KeyTotal)
RTotal == (NonceTotal(1) + SecondFactor * NonceTotal(2)) % Q
TheChallenge == Challenge(Coord[RTotal][1], KeyTotal, message)

\* What party i computes.
Params(i) == GlobalParams(Nonces[i], message, keys, FromOthers(i, Nonces))

\* What can go wrong before the share.
BadSums(i) ==
    \/ TooLarge({keys[k] : k \in Parties}) \/ message >= Q
    \/ HasZeroPrefix(KeyTerms)
    \/ \E j \in 1..2 : HasZeroPrefix(NonceTerms(i, j))
    \/ TooLarge({KeyTotal, NonceTotal(1), NonceTotal(2)})
    \/ RTotal = 0
    \/ TooLarge({RTotal})

\* One of four is an error.
LEMMA ErrAmong ==
    ASSUME NEW a, NEW b, NEW c, NEW d
    PROVE  IsErr(<<a, b, c, d>>) <=> a = Err \/ b = Err \/ c = Err \/ d = Err
  <1> DEFINE s == <<a, b, c, d>>
  <1>1. DOMAIN s = 1..4 /\ s[1] = a /\ s[2] = b /\ s[3] = c /\ s[4] = d
    OBVIOUS
  <1>2. IsErr(s) <=> \E k \in DOMAIN s : s[k] = Err
    BY DEF IsErr
  <1> HIDE DEF s
  <1>3. \A k \in 1..4 : k = 1 \/ k = 2 \/ k = 3 \/ k = 4
    OBVIOUS
  <1>4. 1 \in 1..4 /\ 2 \in 1..4 /\ 3 \in 1..4 /\ 4 \in 1..4
    OBVIOUS
  <1>5. IsErr(s) <=> a = Err \/ b = Err \/ c = Err \/ d = Err
    BY <1>1, <1>2, <1>3, <1>4
  <1>. QED
    BY <1>5 DEF s

\* A hash over three values,
LEMMA HashOfThree ==
    ASSUME HashIsScalar, NEW a \in Value, NEW b \in Value, NEW c \in Value
    PROVE  /\ Hash(<<a, b, c>>) \in Point \cup {Err}
           /\ Hash(<<a, b, c>>) = Err <=> a = Err \/ b = Err \/ c = Err
  <1> DEFINE s == <<a, b, c>>
  <1>1. s \in Seq(Value) /\ Len(s) = 3 /\ s[1] = a /\ s[2] = b /\ s[3] = c
    OBVIOUS
  <1> HIDE DEF s
  <1>2. Hash(s) \in Point \cup {Err} /\ (Hash(s) = Err <=> \E k \in 1..3 : s[k] = Err)
    BY <1>1, HashIs
  <1>3. \A k \in 1..3 : k = 1 \/ k = 2 \/ k = 3
    OBVIOUS
  <1>4. 1 \in 1..3 /\ 2 \in 1..3 /\ 3 \in 1..3
    OBVIOUS
  <1>5. Hash(s) = Err <=> a = Err \/ b = Err \/ c = Err
    BY <1>1, <1>2, <1>3, <1>4
  <1>. QED
    BY <1>2, <1>5 DEF s

\* and one over four values and 1.
LEMMA HashOfFive ==
    ASSUME HashIsScalar, NEW a \in Value, NEW b \in Value, NEW c \in Value, NEW d \in Value
    PROVE  /\ Hash(<<a, b, c, d, 1>>) \in Point \cup {Err}
           /\ Hash(<<a, b, c, d, 1>>) = Err <=> a = Err \/ b = Err \/ c = Err \/ d = Err
           /\ Hash(<<a, b, c, d, 1>>) # Err => Hash(<<a, b, c, d, 1>>) = H(<<a, b, c, d, 1>>)
  <1> DEFINE s == <<a, b, c, d, 1>>
  <1>0. 1 \in Value /\ 1 # Err
    BY QIsNat, ErrIsNoScalar DEF Value, Scalar
  <1>1. s \in Seq(Value) /\ Len(s) = 5 /\ s[1] = a /\ s[2] = b /\ s[3] = c /\ s[4] = d /\ s[5] = 1
    BY <1>0
  <1> HIDE DEF s
  <1>2. Hash(s) \in Point \cup {Err} /\ (Hash(s) = Err <=> \E k \in 1..5 : s[k] = Err)
    BY <1>1, HashIs
  <1>3. \A k \in 1..5 : k = 1 \/ k = 2 \/ k = 3 \/ k = 4 \/ k = 5
    OBVIOUS
  <1>4. 1 \in 1..5 /\ 2 \in 1..5 /\ 3 \in 1..5 /\ 4 \in 1..5
    OBVIOUS
  <1>5. Hash(s) = Err <=> a = Err \/ b = Err \/ c = Err \/ d = Err
    BY <1>0, <1>1, <1>2, <1>3, <1>4
  <1>6. Hash(s) # Err => Hash(s) = H(s)
    BY DEF Hash
  <1>. QED
    BY <1>2, <1>5, <1>6 DEF s

\* R, for parties that have the same sums of the nonces.
LEMMA TwoNonces ==
    ASSUME NEW u \in Point, NEW v \in Point, NEW b \in Point
    PROVE  LET R == Add(Mul(u, 1), Mul(v, b))
               r == (u + b * v) % Q IN
           /\ r \in Scalar
           /\ R = Err <=> r = 0
           /\ R # Err => R = r /\ R \in Point
  <1> DEFINE w == Mul(v, b)
             R == Add(Mul(u, 1), w)
             r == (u + b * v) % Q
  <1>1. u \in Int /\ v \in Int /\ b \in Int /\ u # Err /\ v # Err /\ b # Err /\ u \in Scalar
    BY ErrIsNoScalar
  <1>2. 1 \in Point
    BY QIsNat DEF Point
  <1>3. Mul(u, 1) = u
    <2> DEFINE m == Mul(u, 1)
    <2>1. m \in Point /\ Same(m, u * 1)
      BY <1>1, <1>2, MulIs, ErrIsNoScalar
    <2> HIDE DEF m
    <2>2. m \in Scalar /\ u * 1 = u
      BY <1>1, <2>1, ErrIsNoScalar
    <2>. QED
      BY <1>1, <2>1, <2>2, SameScalar DEF m
  <1>4. w \in Point /\ w # Err /\ Same(w, v * b)
    BY <1>1, MulIs, ErrIsNoScalar
  <1>5. w \in Int /\ u \in Value /\ w \in Value
    BY <1>1, <1>4, ErrIsNoScalar DEF Value
  <1>6. R = Add(u, w)
    BY <1>3
  <1> HIDE DEF w
  <1>7. /\ R \in Point \cup {Err}
        /\ R = Err <=> Same(u + w, 0)
        /\ R # Err => Same(R, u + w)
    BY <1>1, <1>4, <1>5, <1>6, AddIs
  <1> HIDE DEF R
  <1> DEFINE t == u + b * v
             s == u + w
  <1>8. t \in Int /\ s \in Int /\ Same(s, t)
    <2> DEFINE vb == v * b
    <2>1. vb \in Int /\ b * v = vb
      BY <1>1
    <2>2. Same(w, vb)
      BY <1>4
    <2> HIDE DEF vb
    <2>3. Same(u + w, u + vb)
      BY <1>1, <1>5, <2>1, <2>2, SameSelf, SameAdd
    <2>. QED
      BY <1>1, <1>5, <2>1, <2>3
  <1>9. r = t % Q
    OBVIOUS
  <1> HIDE DEF t, s, r
  <1>10. r \in Scalar /\ Same(r, t) /\ Same(t, r) /\ r \in Int /\ 0 \in Int /\ 0 \in Scalar
    BY <1>8, <1>9, SameMod, ErrIsNoScalar
  <1>11. Same(s, r)
    BY <1>8, <1>10, SameTrans
  <1>12. Same(s, 0) <=> r = 0
    <2>1. Same(r, s)
      BY <1>8, <1>10, <1>11, SameBack
    <2>2. ASSUME Same(s, 0) PROVE r = 0
      <3>1. Same(r, 0)
        BY <1>8, <1>10, <2>1, <2>2, SameTrans
      <3>. QED
        BY <1>10, <3>1, SameScalar
    <2>. QED
      BY <1>11, <2>2
  <1>13. ASSUME R # Err PROVE R = r /\ R \in Point
    <2>1. R \in Point /\ Same(R, s)
      BY <1>7, <1>13 DEF s
    <2>2. R \in Int /\ R \in Scalar
      BY <2>1, ErrIsNoScalar
    <2>3. Same(R, r)
      BY <1>8, <1>10, <1>11, <2>1, <2>2, SameTrans
    <2>. QED
      BY <1>10, <2>1, <2>2, <2>3, SameScalar
  <1>14. R = Err <=> r = 0
    BY <1>7, <1>12 DEF s
  <1>. QED
    BY <1>10, <1>13, <1>14 DEF R, r, t, w

\* A party fails before its share exactly for these reasons, and otherwise has
\* the parameters everybody has.
LEMMA ParamsAre ==
    ASSUME HashIsScalar, NEW n, Keyed(n), NEW i \in 1..n, message \in Nat
    PROVE  LET g == Params(i)
               X == AggregatedKey(keys) IN
           /\ IsErr(<<X, g.R, g.b, g.c>>) <=> BadSums(i)
           /\ ~BadSums(i) =>
                /\ X = KeyTotal /\ X \in Point
                /\ g.R = RTotal /\ g.R \in Point
                /\ g.b = SecondFactor /\ g.b \in Point
                /\ g.c = TheChallenge /\ g.c \in Point
  <1> DEFINE X == AggregatedKey(keys)
             R1 == NonceSum(Nonces[i], FromOthers(i, Nonces), 1)
             R2 == NonceSum(Nonces[i], FromOthers(i, Nonces), 2)
             m == Parse(message)
             b == Hash(<<XScalar(X), XScalar(R1), XScalar(R2), m, 1>>)
             R == Add(Mul(R1, 1), Mul(R2, b))
             c == Challenge(XScalar(R), X, message)
             g == Params(i)
             largeKey == TooLarge({keys[k] : k \in Parties})
             zeroKey == HasZeroPrefix(KeyTerms)
             zero(j) == HasZeroPrefix(NonceTerms(i, j))
  <1>1. g.R = R /\ g.b = b /\ g.c = c
    BY DEF Params, GlobalParams
  <1>2. /\ X \in Point \cup {Err}
        /\ X = Err <=> largeKey \/ zeroKey
        /\ X # Err => X = KeyTotal
    BY AggregateIs DEF KeyTotal
  <1>3. /\ R1 \in Point \cup {Err}
        /\ R1 = Err <=> zero(1)
        /\ R1 # Err => R1 = NonceTotal(1)
    BY NonceSumIs
  <1>4. /\ R2 \in Point \cup {Err}
        /\ R2 = Err <=> zero(2)
        /\ R2 # Err => R2 = NonceTotal(2)
    BY NonceSumIs
  <1>5. BadSums(i) <=> \/ largeKey \/ message >= Q \/ zeroKey \/ zero(1) \/ zero(2)
                       \/ TooLarge({KeyTotal, NonceTotal(1), NonceTotal(2)})
                       \/ RTotal = 0 \/ TooLarge({RTotal})
    <2>1. (\E j \in 1..2 : zero(j)) <=> zero(1) \/ zero(2)
      <3>1. 1 \in 1..2 /\ 2 \in 1..2 /\ \A j \in 1..2 : j = 1 \/ j = 2
        OBVIOUS
      <3> HIDE DEF zero
      <3>. QED
        BY <3>1
    <2>. QED
      BY <2>1 DEF BadSums
  <1>6. m \in Value /\ (m = Err <=> message >= Q) /\ (m # Err => m = message /\ message \in Scalar)
    <2>1. (message < Q => message \in Scalar) /\ (message < Q <=> ~(message >= Q))
      BY QIsNat DEF Scalar
    <2>. QED
      BY <2>1, ErrIsNoScalar DEF Parse, Value
  <1> HIDE DEF X, R1, R2, m, g, largeKey, zeroKey, zero
  <1>7. /\ XScalar(X) \in Value /\ XScalar(R1) \in Value /\ XScalar(R2) \in Value
        /\ XScalar(X) # Err => X # Err /\ XScalar(X) = Coord[X][1]
        /\ XScalar(R1) # Err => R1 # Err /\ XScalar(R1) = Coord[R1][1]
        /\ XScalar(R2) # Err => R2 # Err /\ XScalar(R2) = Coord[R2][1]
        /\ X # Err => (XScalar(X) = Err <=> Coord[X][1] >= Q)
        /\ R1 # Err => (XScalar(R1) = Err <=> Coord[R1][1] >= Q)
        /\ R2 # Err => (XScalar(R2) = Err <=> Coord[R2][1] >= Q)
    BY <1>2, <1>3, <1>4, XScalarIs
  <1>8. /\ b \in Point \cup {Err}
        /\ b = Err <=> XScalar(X) = Err \/ XScalar(R1) = Err \/ XScalar(R2) = Err \/ m = Err
        /\ b # Err => b = H(<<XScalar(X), XScalar(R1), XScalar(R2), m, 1>>)
    BY <1>6, <1>7, HashOfFive
  <1>9. IsErr(<<X, g.R, g.b, g.c>>) <=> X = Err \/ R = Err \/ b = Err \/ c = Err
    BY <1>1, ErrAmong
  <1>10. TooLarge({KeyTotal, NonceTotal(1), NonceTotal(2)}) <=>
            Coord[KeyTotal][1] >= Q \/ Coord[NonceTotal(1)][1] >= Q \/ Coord[NonceTotal(2)][1] >= Q
    BY DEF TooLarge
  <1>11. TooLarge({RTotal}) <=> Coord[RTotal][1] >= Q
    BY DEF TooLarge
  <1>12. ASSUME X # Err, R1 # Err, R2 # Err, b # Err
         PROVE  /\ b = SecondFactor /\ b \in Point /\ X \in Point /\ X = KeyTotal
                /\ R1 \in Point /\ R2 \in Point /\ R1 = NonceTotal(1) /\ R2 = NonceTotal(2)
                /\ message \in Scalar
    <2>1. X \in Point /\ X = KeyTotal /\ R1 \in Point /\ R2 \in Point /\ R1 = NonceTotal(1) /\ R2 = NonceTotal(2)
      BY <1>2, <1>3, <1>4, <1>12
    <2>2. XScalar(X) = Coord[KeyTotal][1] /\ XScalar(R1) = Coord[NonceTotal(1)][1]
          /\ XScalar(R2) = Coord[NonceTotal(2)][1] /\ m = message /\ message \in Scalar
      BY <1>6, <1>7, <1>8, <1>12, <2>1
    <2>3. b = H(<<Coord[KeyTotal][1], Coord[NonceTotal(1)][1], Coord[NonceTotal(2)][1], message, 1>>)
      BY <1>8, <1>12, <2>2
    <2>4. b = SecondFactor
      BY <2>3 DEF SecondFactor, Factor
    <2>. QED
      BY <1>8, <1>12, <2>1, <2>2, <2>4
  <1> HIDE DEF b
  <1>13. CASE largeKey \/ zeroKey \/ zero(1) \/ zero(2) \/ message >= Q
              \/ TooLarge({KeyTotal, NonceTotal(1), NonceTotal(2)})
    <2>1. X = Err \/ b = Err
      BY <1>2, <1>3, <1>4, <1>6, <1>7, <1>8, <1>10, <1>13
    <2>. QED
      BY <1>5, <1>9, <1>13, <2>1 DEF X, g
  <1>14. CASE ~(largeKey \/ zeroKey \/ zero(1) \/ zero(2) \/ message >= Q
                \/ TooLarge({KeyTotal, NonceTotal(1), NonceTotal(2)}))
    <2>1. X # Err /\ R1 # Err /\ R2 # Err
      BY <1>2, <1>3, <1>4, <1>14
    <2>2. b # Err
      BY <1>2, <1>3, <1>4, <1>6, <1>7, <1>8, <1>10, <1>14, <2>1
    <2>3. /\ b = SecondFactor /\ b \in Point /\ X \in Point /\ X = KeyTotal
          /\ R1 \in Point /\ R2 \in Point /\ R1 = NonceTotal(1) /\ R2 = NonceTotal(2)
          /\ message \in Scalar
      BY <1>12, <2>1, <2>2
    <2>4. (R = Err <=> RTotal = 0) /\ (R # Err => R = RTotal /\ R \in Point)
      <3>1. RTotal = (R1 + b * R2) % Q
        BY <2>3 DEF RTotal
      <3>2. (R = Err <=> (R1 + b * R2) % Q = 0)
            /\ (R # Err => R = (R1 + b * R2) % Q /\ R \in Point)
        BY <2>3, TwoNonces
      <3>. QED
        BY <3>1, <3>2
    <2> HIDE DEF R
    <2>5. XScalar(R) \in Value
          /\ (R # Err => (XScalar(R) = Err <=> Coord[R][1] >= Q))
          /\ (XScalar(R) # Err => R # Err /\ XScalar(R) = Coord[R][1])
      BY <2>4, XScalarIs
    <2>6. XScalar(X) # Err
      BY <1>8, <2>2
    <2>7. c = Hash(<<XScalar(R), XScalar(X), message>>)
      BY DEF Challenge
    <2>8. message \in Value /\ message # Err
      BY <2>3, ErrIsNoScalar DEF Value
    <2>9. c \in Point \cup {Err} /\ (c = Err <=> XScalar(R) = Err)
      <3> DEFINE rx == XScalar(R)
                 x == XScalar(X)
                 h == Hash(<<rx, x, message>>)
      <3>1. rx \in Value /\ x \in Value /\ x # Err
        BY <1>7, <2>5, <2>6
      <3>2. c = h
        BY <2>7
      <3> HIDE DEF rx, x, c
      <3>3. h \in Point \cup {Err} /\ (h = Err <=> rx = Err \/ x = Err \/ message = Err)
        BY <2>8, <3>1, HashOfThree
      <3> HIDE DEF h
      <3>. QED
        BY <2>8, <3>1, <3>2, <3>3 DEF rx
    <2>10. R # Err /\ Coord[RTotal][1] < Q => c = TheChallenge
      <3> SUFFICES ASSUME R # Err, XScalar(R) # Err PROVE c = TheChallenge
        <4>1. ASSUME R # Err, Coord[RTotal][1] < Q PROVE XScalar(R) # Err
          <5>1. Coord[RTotal][1] \in 0..(P - 1)
            BY <2>4, <4>1, OnTheCurve
          <5>. QED
            BY <2>4, <2>5, <4>1, <5>1, QIsNat
        <4>. QED
          BY <4>1
      <3>1. XScalar(R) = Coord[RTotal][1]
        BY <2>4, <2>5
      <3>. QED
        BY <2>3, <3>1 DEF TheChallenge
    <2>11. RTotal \in Point => (Coord[RTotal][1] < Q <=> ~(Coord[RTotal][1] >= Q))
      <3>1. ASSUME RTotal \in Point PROVE Coord[RTotal][1] < Q <=> ~(Coord[RTotal][1] >= Q)
        <4>1. Coord[RTotal][1] \in 0..(P - 1)
          BY <3>1, OnTheCurve
        <4>. QED
          BY <4>1, QIsNat
      <3>. QED
        BY <3>1
    <2> HIDE DEF c
    <2>12. BadSums(i) <=> RTotal = 0 \/ Coord[RTotal][1] >= Q
      BY <1>5, <1>11, <1>14
    <2>13. R = Err => RTotal = 0
      BY <2>4
    <2>14. IsErr(<<X, g.R, g.b, g.c>>) <=> R = Err \/ c = Err
      BY <1>9, <2>1, <2>2
    <2>15. c = Err <=> (R = Err \/ Coord[RTotal][1] >= Q)
      BY <2>4, <2>5, <2>9
    <2>16. IsErr(<<X, g.R, g.b, g.c>>) <=> BadSums(i)
      BY <2>4, <2>12, <2>14, <2>15
    <2>17. ASSUME ~BadSums(i)
           PROVE  /\ X = KeyTotal /\ X \in Point
                  /\ g.R = RTotal /\ g.R \in Point
                  /\ g.b = SecondFactor /\ g.b \in Point
                  /\ g.c = TheChallenge /\ g.c \in Point
      BY <1>1, <2>3, <2>4, <2>9, <2>10, <2>11, <2>12, <2>15, <2>17
    <2>. QED
      BY <2>16, <2>17 DEF X, g
  <1>. QED
    BY <1>13, <1>14
-----------------------------------------------------------------------------
(* The share.                                                              *)

\* The partial sums of three terms.
LEMMA SumOfThree ==
    ASSUME NEW t \in [1..3 -> Int]
    PROVE  /\ Sum(t, 1) = t[1] /\ Sum(t, 2) = t[1] + t[2] /\ Sum(t, 3) = t[1] + t[2] + t[3]
           /\ HasZeroPrefix(t) <=> Same(t[1], 0) \/ Same(t[1] + t[2], 0) \/ Same(t[1] + t[2] + t[3], 0)
  <1>1. /\ Sum(t, 0) = 0 /\ 3 \in Nat
        /\ \A k \in 1..3 : Sum(t, k) = Sum(t, k - 1) + t[k]
    BY SumSteps
  <1>2. t[1] \in Int /\ t[2] \in Int /\ t[3] \in Int
    OBVIOUS
  <1>3. Sum(t, 1) = Sum(t, 0) + t[1] /\ Sum(t, 2) = Sum(t, 1) + t[2] /\ Sum(t, 3) = Sum(t, 2) + t[3]
    <2>1. 1 \in 1..3 /\ 2 \in 1..3 /\ 3 \in 1..3 /\ 1 - 1 = 0 /\ 2 - 1 = 1 /\ 3 - 1 = 2
      OBVIOUS
    <2>2. Sum(t, 1) = Sum(t, 1 - 1) + t[1] /\ Sum(t, 2) = Sum(t, 2 - 1) + t[2] /\ Sum(t, 3) = Sum(t, 3 - 1) + t[3]
      BY <1>1
    <2>. QED
      BY <2>1, <2>2
  <1>4. Sum(t, 1) = t[1] /\ Sum(t, 2) = t[1] + t[2] /\ Sum(t, 3) = t[1] + t[2] + t[3]
    BY <1>1, <1>2, <1>3
  <1>5. HasZeroPrefix(t) <=> \E k \in 1..3 : Same(Sum(t, k), 0)
    BY <1>1, HasZeroPrefixIs
  <1>6. (\E k \in 1..3 : Same(Sum(t, k), 0)) <=> Same(Sum(t, 1), 0) \/ Same(Sum(t, 2), 0) \/ Same(Sum(t, 3), 0)
    <2>1. \A k \in 1..3 : k = 1 \/ k = 2 \/ k = 3
      OBVIOUS
    <2>2. 1 \in 1..3 /\ 2 \in 1..3 /\ 3 \in 1..3
      OBVIOUS
    <2>. QED
      BY <2>1, <2>2
  <1>. QED
    BY <1>4, <1>5, <1>6

\* Two additions, of what is congruent to some terms.
LEMMA AddThree ==
    ASSUME NEW t \in [1..3 -> Int], NEW a \in Point, NEW b \in Point, NEW c \in Point,
           Same(a, t[1]), Same(b, t[2]), Same(c, t[3])
    PROVE  LET s == Add(Add(a, b), c) IN
           /\ s \in Point \cup {Err}
           /\ s = Err <=> HasZeroPrefix(t)
           /\ s # Err => Same(s, Sum(t, 3))
  <1> DEFINE d == Add(a, b)
             s == Add(d, c)
             x == t[1]
             y == t[2]
             z == t[3]
  <1>1. /\ a \in Int /\ b \in Int /\ c \in Int /\ x \in Int /\ y \in Int /\ z \in Int /\ 0 \in Int
        /\ a # Err /\ b # Err /\ c # Err /\ a \in Value /\ b \in Value /\ c \in Value
        /\ Same(a, x) /\ Same(b, y) /\ Same(c, z)
    BY ErrIsNoScalar DEF Value
  <1>2. /\ HasZeroPrefix(t) <=> Same(x, 0) \/ Same(x + y, 0) \/ Same(x + y + z, 0)
        /\ Sum(t, 3) = x + y + z
    BY SumOfThree
  <1>3. /\ d \in Point \cup {Err} /\ d \in Value
        /\ d = Err <=> Same(a + b, 0)
        /\ d # Err => Same(d, a + b)
    BY <1>1, AddIs
  <1>4. /\ s \in Point \cup {Err}
        /\ d = Err => s = Err
        /\ d # Err => (s = Err <=> Same(d + c, 0)) /\ (s # Err => Same(s, d + c))
    BY <1>1, <1>3, AddIs
  <1> HIDE DEF x, y, z
  <1>5. ~Same(x, 0)
    <2>1. ASSUME Same(x, 0) PROVE FALSE
      <3>1. Same(a, 0)
        BY <1>1, <2>1, SameTrans
      <3>. QED
        BY <3>1, PointIsNotZero
    <2>. QED
      BY <2>1
  <1>6. Same(a + b, x + y) /\ a + b \in Int /\ x + y \in Int /\ x + y + z \in Int
    BY <1>1, SameAdd
  <1>7. Same(a + b, 0) <=> Same(x + y, 0)
    <2>1. Same(x + y, a + b)
      BY <1>6, SameBack
    <2>2. Same(a + b, 0) => Same(x + y, 0)
      BY <1>1, <1>6, <2>1, SameTrans
    <2>3. Same(x + y, 0) => Same(a + b, 0)
      BY <1>1, <1>6, SameTrans
    <2>. QED
      BY <2>2, <2>3
  <1> HIDE DEF d
  <1>8. ASSUME d # Err
        PROVE  /\ d + c \in Int /\ Same(d + c, x + y + z) /\ Same(x + y + z, d + c)
    <2>1. d \in Int /\ Same(d, a + b)
      BY <1>3, <1>8, ErrIsNoScalar
    <2>2. Same(d, x + y)
      BY <1>6, <2>1, SameTrans
    <2> DEFINE u == x + y
    <2>3. u \in Int /\ Same(d, u) /\ x + y + z = u + z
      BY <1>1, <1>6, <2>2
    <2> HIDE DEF u
    <2>4. Same(d + c, u + z)
      BY <1>1, <2>1, <2>3, SameAdd
    <2>5. d + c \in Int /\ u + z \in Int
      BY <1>1, <2>1, <2>3
    <2>6. Same(u + z, d + c)
      BY <2>4, <2>5, SameBack
    <2>. QED
      BY <2>3, <2>4, <2>5, <2>6
  <1>9. s = Err <=> HasZeroPrefix(t)
    <2>1. CASE d = Err
      BY <1>2, <1>3, <1>4, <1>7, <2>1
    <2>2. CASE d # Err
      <3>1. Same(d + c, 0) <=> Same(x + y + z, 0)
        <4>1. Same(d + c, 0) => Same(x + y + z, 0)
          BY <1>1, <1>6, <1>8, <2>2, SameTrans
        <4>2. Same(x + y + z, 0) => Same(d + c, 0)
          BY <1>1, <1>6, <1>8, <2>2, SameTrans
        <4>. QED
          BY <4>1, <4>2
      <3>. QED
        BY <1>2, <1>3, <1>4, <1>5, <1>7, <2>2, <3>1
    <2>. QED
      BY <2>1, <2>2
  <1>10. ASSUME s # Err PROVE Same(s, Sum(t, 3))
    <2>1. d # Err /\ Same(s, d + c) /\ s \in Int
      BY <1>4, <1>10, ErrIsNoScalar
    <2>2. Same(s, x + y + z)
      BY <1>6, <1>8, <2>1, SameTrans
    <2>. QED
      BY <1>2, <2>2
  <1>. QED
    BY <1>4, <1>9, <1>10 DEF d

\* A nonce negated or not.
LEMMA SignedIs ==
    ASSUME NEW m \in Point, NEW t \in Int, Same(m, t), NEW odd
    PROVE  LET s == IF odd THEN Neg(m) ELSE m
               sign == IF odd THEN -1 ELSE 1 IN
           s \in Point /\ Same(s, sign * t)
  <1>1. CASE odd
    <2>1. Neg(m) \in Point /\ Same(Neg(m), -m)
      BY NegIs
    <2>2. m \in Int /\ Neg(m) \in Int /\ -m \in Int /\ -t \in Int
      <3>1. m \in Int /\ Neg(m) \in Int
        BY <2>1 DEF Point
      <3>. QED
        BY <3>1
    <2>3. Same(-m, -t)
      BY <2>2, SameNeg
    <2>4. Same(Neg(m), -t)
      BY <2>1, <2>2, <2>3, SameTrans
    <2>5. (-1) * t = -t
      OBVIOUS
    <2>. QED
      BY <1>1, <2>1, <2>4, <2>5
  <1>2. CASE ~odd
    <2>1. 1 * t = t
      OBVIOUS
    <2>. QED
      BY <1>2, <2>1
  <1>. QED
    BY <1>1, <1>2

TheShareTerms(i) == ShareTerms(i, RTotal, SecondFactor, TheChallenge)

Bad(i) == BadSums(i) \/ HasZeroPrefix(TheShareTerms(i))

\* What sign_prime gives party i.
PrimeOf(i) == SignPrime(keys[i], message, keys, FromOthers(i, Nonces), i)

Sign == IF IsOddY(RTotal) THEN -1 ELSE 1

\* A share is the sum of its three parts, if none of the sums on the way is zero.
LEMMA ShareIs ==
    ASSUME HashIsScalar, NEW n, Keyed(n), NEW i \in 1..n, message \in Nat, ~BadSums(i)
    PROVE  LET s == SignatureShare(Nonces[i], Params(i), keys[i], KeyCoefficient(keys, i)) IN
           /\ s \in Point \cup {Err}
           /\ s = Err <=> HasZeroPrefix(TheShareTerms(i))
           /\ s # Err => Same(s, Sum(TheShareTerms(i), 3))
           /\ TheShareTerms(i) \in [1..3 -> Int]
  <1> DEFINE g == Params(i)
             odd == IsOddY(g.R)
             x == keys[i]
             a == KeyCoefficient(keys, i)
             k1 == Nonces[i][1]
             k2 == Nonces[i][2]
             b == SecondFactor
             c == TheChallenge
             m1 == Mul(k1, 1)
             m2 == Mul(k2, b)
             m3 == Mul(Mul(c, x), a)
             s1 == IF odd THEN Neg(m1) ELSE m1
             s2 == IF odd THEN Neg(m2) ELSE m2
             e == IF odd THEN -1 ELSE 1
             t == <<e * k1, e * b * k2, c * x * a>>
             s == SignatureShare(Nonces[i], g, x, a)
  <1>1. /\ IsErr(<<AggregatedKey(keys), g.R, g.b, g.c>>) <=> BadSums(i)
        /\ g.R = RTotal /\ g.b = b /\ b \in Point /\ g.c = c /\ c \in Point
        /\ AggregatedKey(keys) \in Point
    BY ParamsAre
  <1>2. s = Add(Add(s1, s2), m3)
    BY <1>1 DEF SignatureShare
  <1>3. TheShareTerms(i) = t
    BY <1>1 DEF TheShareTerms, ShareTerms
  <1>4. x \in Point /\ k1 \in Point /\ k2 \in Point
    <2>1. Nonces[i] \in [1..2 -> Point] /\ keys[i] \in Point
      BY NoncesAre DEF Keyed
    <2>. QED
      BY <2>1
  <1>5. a \in Point
    <2>1. a \in Point \cup {Err} /\ (a = Err <=> TooLarge({keys[k] : k \in Parties}))
      BY CoefficientIs
    <2>. QED
      BY <2>1 DEF BadSums
  <1> HIDE DEF g, x, a, k1, k2, b, c
  <1>6. 1 \in Point /\ 1 # Err /\ k1 # Err /\ k2 # Err /\ b # Err /\ c # Err /\ x # Err /\ a # Err
    BY <1>1, <1>4, <1>5, QIsNat, ErrIsNoScalar DEF Point
  <1>7. m1 \in Point /\ Same(m1, k1 * 1)
    BY <1>4, <1>6, MulIs, ErrIsNoScalar
  <1>8. m2 \in Point /\ Same(m2, k2 * b)
    BY <1>1, <1>4, <1>6, MulIs, ErrIsNoScalar
  <1>9. m3 \in Point /\ Same(m3, c * x * a)
    <2> DEFINE d == Mul(c, x)
               cx == c * x
    <2>0. m3 = Mul(d, a)
      OBVIOUS
    <2>1. d \in Point /\ d # Err /\ Same(d, cx)
      BY <1>1, <1>4, <1>6, MulIs, ErrIsNoScalar
    <2>2. cx \in Int /\ a \in Int /\ d \in Int
      <3>1. c \in Int /\ x \in Int
        BY <1>1, <1>4, ErrIsNoScalar
      <3>2. cx \in Int
        BY <3>1
      <3>. QED
        BY <1>5, <2>1, <3>2, ErrIsNoScalar
    <2>3. c * x * a = cx * a
      OBVIOUS
    <2> HIDE DEF d, cx, m3
    <2>4. m3 \in Point /\ Same(m3, d * a)
      BY <1>5, <1>6, <2>0, <2>1, MulIs, ErrIsNoScalar
    <2>5. Same(d * a, cx * a)
      BY <2>1, <2>2, SameSelf, SameMul
    <2> DEFINE da == d * a
               ca == cx * a
    <2>6. da \in Int /\ ca \in Int /\ m3 \in Int
      BY <2>2, <2>4, ErrIsNoScalar
    <2>7. Same(m3, da) /\ Same(da, ca)
      BY <2>4, <2>5
    <2> HIDE DEF da, ca
    <2>8. Same(m3, ca)
      BY <2>6, <2>7, SameTrans
    <2>. QED
      BY <2>3, <2>4, <2>8 DEF ca
  <1> HIDE DEF m1, m2, m3
  <1> DEFINE u1 == k1 * 1
             u2 == k2 * b
             u3 == c * x * a
  <1>10. u1 \in Int /\ u2 \in Int /\ u3 \in Int
    <2>1. k1 \in Int /\ k2 \in Int /\ b \in Int /\ c \in Int /\ x \in Int /\ a \in Int
      BY <1>1, <1>4, <1>5, ErrIsNoScalar
    <2>. QED
      BY <2>1
  <1>11. e * k1 = e * u1 /\ e * b * k2 = e * u2 /\ e \in Int /\ e * u1 \in Int /\ e * u2 \in Int
    <2>1. k1 \in Int /\ k2 \in Int /\ b \in Int
      BY <1>1, <1>4, ErrIsNoScalar
    <2>2. CASE odd
      <3>1. e = -1
        BY <2>2
      <3>2. (-1) * b * k2 = (-1) * (k2 * b)
        BY <2>1
      <3>. QED
        BY <1>10, <2>1, <3>1, <3>2
    <2>3. CASE ~odd
      <3>1. e = 1
        BY <2>3
      <3>2. 1 * b * k2 = 1 * (k2 * b)
        BY <2>1
      <3>. QED
        BY <1>10, <2>1, <3>1, <3>2
    <2>. QED
      BY <2>2, <2>3
  <1>12. s1 \in Point /\ Same(s1, e * u1)
    <2>1. m1 \in Point /\ u1 \in Int /\ Same(m1, u1)
      BY <1>7, <1>10
    <2> HIDE DEF u1, odd
    <2>. QED
      BY <2>1, SignedIs
  <1>13. s2 \in Point /\ Same(s2, e * u2)
    <2>1. m2 \in Point /\ u2 \in Int /\ Same(m2, u2)
      BY <1>8, <1>10
    <2> HIDE DEF u2, odd
    <2>. QED
      BY <2>1, SignedIs
  <1>14. Same(m3, u3)
    BY <1>9
  <1> DEFINE v1 == e * u1
             v2 == e * u2
  <1>15. v1 \in Int /\ v2 \in Int /\ Same(s1, v1) /\ Same(s2, v2) /\ t = <<v1, v2, u3>>
    BY <1>11, <1>12, <1>13
  <1> HIDE DEF v1, v2, u1, u2, u3, s1, s2, t
  <1>16. t \in [1..3 -> Int] /\ t[1] = v1 /\ t[2] = v2 /\ t[3] = u3
    BY <1>10, <1>15
  <1>17. Same(s1, t[1]) /\ Same(s2, t[2]) /\ Same(m3, t[3])
    BY <1>14, <1>15, <1>16
  <1> HIDE DEF s
  <1>18. /\ s \in Point \cup {Err}
         /\ s = Err <=> HasZeroPrefix(t)
         /\ s # Err => Same(s, Sum(t, 3))
    BY <1>2, <1>9, <1>12, <1>13, <1>16, <1>17, AddThree
  <1>. QED
    BY <1>3, <1>16, <1>18 DEF s, g, x, a

Share(i) == SignatureShare(Nonces[i], Params(i), keys[i], KeyCoefficient(keys, i))

\* What sign_prime gives party i: an error for the reasons of Bad, or the common
\* parameters and its share.
LEMMA PrimeIs ==
    ASSUME HashIsScalar, NEW n, Keyed(n), NEW i \in 1..n, message \in Nat
    PROVE  /\ PrimeOf(i) = Err <=> Bad(i)
           /\ ~Bad(i) =>
                /\ PrimeOf(i) = [R |-> RTotal, c |-> TheChallenge, X_tilde |-> KeyTotal, s_i |-> Share(i)]
                /\ Share(i) \in Point /\ Same(Share(i), Sum(TheShareTerms(i), 3))
                /\ TheShareTerms(i) \in [1..3 -> Int]
                /\ KeyTotal \in Point /\ RTotal \in Point
                /\ SecondFactor \in Point /\ TheChallenge \in Point
  <1> DEFINE g == Params(i)
             X == AggregatedKey(keys)
             bad == IsErr(<<X, g.R, g.b, g.c>>)
             p == [R |-> g.R, c |-> g.c, X_tilde |-> X, s_i |-> Share(i)]
  <1>1. Nonces[i] = Ephemeral(keys[i])
    BY NoncesAre
  <1>2. PrimeOf(i) = IF bad THEN Err ELSE IF Share(i) = Err THEN Err ELSE p
    BY <1>1 DEF PrimeOf, SignPrime, KeyAgg, Params, Share
  <1>3. /\ bad <=> BadSums(i)
        /\ ~BadSums(i) => /\ X = KeyTotal /\ X \in Point
                          /\ g.R = RTotal /\ g.R \in Point
                          /\ g.b = SecondFactor /\ g.b \in Point
                          /\ g.c = TheChallenge /\ g.c \in Point
    BY ParamsAre
  <1>4. ~BadSums(i) => /\ Share(i) \in Point \cup {Err}
                       /\ Share(i) = Err <=> HasZeroPrefix(TheShareTerms(i))
                       /\ Share(i) # Err => Same(Share(i), Sum(TheShareTerms(i), 3))
                       /\ TheShareTerms(i) \in [1..3 -> Int]
    BY ShareIs DEF Share
  <1> HIDE DEF bad, X, g
  <1>5. CASE BadSums(i)
    BY <1>2, <1>3, <1>5 DEF Bad
  <1>6. CASE ~BadSums(i) /\ Share(i) = Err
    BY <1>2, <1>3, <1>4, <1>6 DEF Bad
  <1>7. CASE ~BadSums(i) /\ Share(i) # Err
    <2>1. ~Bad(i) /\ PrimeOf(i) = p /\ Share(i) \in Point
      BY <1>2, <1>3, <1>4, <1>7 DEF Bad
    <2>2. p \in [R : Scalar, c : Scalar, X_tilde : Scalar, s_i : Scalar]
      BY <1>3, <1>7, <2>1, ErrIsNoScalar
    <2>3. PrimeOf(i) # Err
      BY <2>1, <2>2, ErrAssumption
    <2>4. p = [R |-> RTotal, c |-> TheChallenge, X_tilde |-> KeyTotal, s_i |-> Share(i)]
      BY <1>3, <1>7
    <2> HIDE DEF p
    <2>. QED
      BY <1>3, <1>4, <1>7, <2>1, <2>3, <2>4
  <1>. QED
    BY <1>5, <1>6, <1>7
-----------------------------------------------------------------------------
(* The run.                                                                *)

\* What Round2 makes of the shares.
Shares == [i \in Parties |-> primes[i].s_i]
ParsedShares(i) == [k \in DOMAIN FromOthers(i, Shares) |-> Parse(FromOthers(i, Shares)[k])]

\* Honest keys, and what each round computes from them.
CryptoInv ==
    /\ \E n : Keyed(n)
    /\ message \in Nat
    /\ primes = << >> \/ primes = [i \in Parties |-> PrimeOf(i)]
    /\ \/ sums = << >>
       \/ /\ primes = [i \in Parties |-> PrimeOf(i)]
          /\ ~IsErr(primes)
          /\ sums = [i \in Parties |-> SumShares(Shares[i], ParsedShares(i))]

\* CryptoInv is inductive.
LEMMA InitCryptoInv == ASSUME Init PROVE CryptoInv
  <1>1. \E n \in 1..N : keys \in [1..n -> Keys]
    BY DEF Init
  <1>2. PICK n \in 1..N : keys \in [1..n -> Keys]
    BY <1>1
  <1>3. n \in Nat /\ n > 0
    BY RunAssumption
  <1>4. keys \in [1..n -> Point]
    BY <1>2, RunAssumption DEF Point
  <1>5. Keyed(n)
    BY <1>3, <1>4 DEF Keyed
  <1>6. message \in Nat /\ primes = << >> /\ sums = << >>
    BY RunAssumption, WordAssumption DEF Init
  <1>. QED
    BY <1>5, <1>6 DEF CryptoInv

\* Every party has all keys and everybody else's nonces.
LEMMA RoundOneIs ==
    ASSUME HashIsScalar, NEW n, Keyed(n), Round1
    PROVE  primes' = [i \in Parties |-> PrimeOf(i)] /\ UNCHANGED <<keys, message, sums>>
  <1>1. n \in Nat /\ n > 0 /\ Parties = 1..n
    BY DEF Keyed, Parties
  <1>2. ASSUME NEW i \in 1..n
        PROVE  SignPrime(keys[i], message, ReceivedKeys(keys[i], i, Inbox(i)),
                         ReceivedNonces(Inbox(i)), i) = PrimeOf(i)
    BY ReceivedKeysAre, ReceivedNoncesAre DEF PrimeOf
  <1>3. primes' = [i \in Parties |->
             SignPrime(keys[i], message, ReceivedKeys(keys[i], i, Inbox(i)),
                       ReceivedNonces(Inbox(i)), i)]
    BY DEF Round1, Inbox
  <1>. QED
    BY <1>1, <1>2, <1>3 DEF Round1

\* Each round computes what CryptoInv says.
LEMMA NextCryptoInv ==
    ASSUME HashIsScalar, CryptoInv, [Next]_crvars
    PROVE  CryptoInv'
  <1>1. PICK n : Keyed(n)
    BY DEF CryptoInv
  <1>2. ASSUME UNCHANGED keys, UNCHANGED message
        PROVE  /\ Keyed(n)' /\ message' \in Nat /\ Parties' = Parties
               /\ \A i : PrimeOf(i)' = PrimeOf(i)
    <2>1. Keyed(n)' /\ message' \in Nat /\ Parties' = Parties
      BY <1>1, <1>2 DEF Keyed, CryptoInv, Parties
    <2>2. Nonces' = Nonces
      BY <1>2, <2>1 DEF Nonces
    <2>3. \A i : FromOthers(i, Nonces)' = FromOthers(i, Nonces)
      BY <2>2 DEF FromOthers
    <2>4. \A i : PrimeOf(i)' = PrimeOf(i)
      BY <1>2, <2>3 DEF PrimeOf
    <2>. QED
      BY <2>1, <2>4
  <1>3. CASE Round1
    <2>1. primes' = [i \in Parties |-> PrimeOf(i)] /\ UNCHANGED <<keys, message, sums>> /\ primes = << >>
      BY <1>1, <1>3, RoundOneIs DEF Round1
    <2>2. primes' = [i \in Parties |-> PrimeOf(i)]'
      BY <1>2, <2>1
    <2>3. sums = << >>
      <3>1. sums = << >> \/ primes = [i \in Parties |-> PrimeOf(i)]
        BY DEF CryptoInv
      <3>2. ASSUME primes = [i \in Parties |-> PrimeOf(i)] PROVE FALSE
        <4>1. 1 \in Parties /\ DOMAIN primes = Parties
          BY <1>1, <3>2 DEF Keyed, Parties
        <4>2. DOMAIN << >> = {}
          OBVIOUS
        <4>. QED
          BY <2>1, <4>1, <4>2
      <3>. QED
        BY <3>1, <3>2
    <2>. QED
      BY <1>2, <2>1, <2>2, <2>3 DEF CryptoInv
  <1>4. CASE Round2
    <2>1. /\ UNCHANGED <<keys, message, primes>> /\ ~IsErr(primes) /\ primes # << >>
          /\ sums' = [i \in Parties |-> SumShares(Shares[i], ParsedShares(i))]
      BY <1>4 DEF Round2, Shares, ParsedShares
    <2>2. primes = [i \in Parties |-> PrimeOf(i)]
      BY <2>1 DEF CryptoInv
    <2>3. primes' = [i \in Parties |-> PrimeOf(i)]' /\ ~IsErr(primes)'
      BY <1>2, <2>1, <2>2 DEF IsErr
    <2>4. Shares' = Shares
      BY <1>2, <2>1 DEF Shares
    <2>5. \A i : ParsedShares(i)' = ParsedShares(i)
      BY <2>4 DEF ParsedShares, FromOthers, Parse
    <2>6. sums' = [i \in Parties |-> SumShares(Shares[i], ParsedShares(i))]'
      BY <1>2, <2>1, <2>4, <2>5 DEF SumShares
    <2>. QED
      BY <1>2, <2>1, <2>3, <2>6 DEF CryptoInv
  <1>5. CASE UNCHANGED crvars
    <2>1. UNCHANGED <<keys, message, primes, sums>>
      BY <1>5 DEF crvars
    <2>2. Shares' = Shares
      BY <1>2, <2>1 DEF Shares
    <2>3. \A i : ParsedShares(i)' = ParsedShares(i)
      BY <2>2 DEF ParsedShares, FromOthers, Parse
    <2>4. [i \in Parties |-> SumShares(Shares[i], ParsedShares(i))]' = [i \in Parties |-> SumShares(Shares[i], ParsedShares(i))]
      BY <1>2, <2>1, <2>2, <2>3 DEF SumShares
    <2>5. [i \in Parties |-> PrimeOf(i)]' = [i \in Parties |-> PrimeOf(i)]
      BY <1>2, <2>1
    <2>6. IsErr(primes)' <=> IsErr(primes)
      BY <2>1 DEF IsErr
    <2>. QED
      BY <1>2, <2>1, <2>4, <2>5, <2>6 DEF CryptoInv
  <1>. QED
    BY <1>3, <1>4, <1>5 DEF Next

\* So it always holds.
LEMMA AlwaysCryptoInv == ASSUME HashIsScalar PROVE Spec => []CryptoInv
  <1>1. Init => CryptoInv
    BY InitCryptoInv
  <1>2. CryptoInv /\ [Next]_crvars => CryptoInv'
    BY NextCryptoInv
  <1>. QED
    BY <1>1, <1>2, PTL DEF Spec

\* On every curve, with any number of parties, keys, message and hash: Round1 of a
\* party fails exactly when a sum it forms comes to infinity or zero on the way, or
\* a coordinate or the message is no scalar.
THEOREM OnlyEdgesFail ==
    ASSUME HashIsScalar
    PROVE  Spec => []FailsOnlyAtEdges
  <1>1. CryptoInv => FailsOnlyAtEdges
    <2> SUFFICES ASSUME CryptoInv, primes # << >>
                 PROVE  \A i \in Parties : primes[i] = Err <=> Bad(i)
      BY DEF FailsOnlyAtEdges, Bad, BadSums, TheShareTerms, TheChallenge, RTotal, SecondFactor, KeyTotal
    <2>1. PICK n : Keyed(n)
      BY DEF CryptoInv
    <2>2. primes = [i \in Parties |-> PrimeOf(i)] /\ message \in Nat /\ Parties = 1..n
      BY <2>1 DEF CryptoInv, Keyed, Parties
    <2>. QED
      BY <2>1, <2>2, PrimeIs
  <1>. QED
    BY <1>1, AlwaysCryptoInv, PTL
-----------------------------------------------------------------------------
(* The sum of the shares.                                                  *)

\* Every share is there.
AllShares(n) == Keyed(n) /\ message \in Nat /\ \A i \in 1..n : ~Bad(i)

\* Share(k) is this much of the two nonces together and of the key.
NonceParts == [k \in Parties |-> Nonces[k][1] + SecondFactor * Nonces[k][2]]
AllOfThem == [k \in Parties |-> Share(k)]

\* The shares of all, each congruent to its part of the nonces and of the key.
LEMMA SharesAre ==
    ASSUME HashIsScalar, NEW n, AllShares(n)
    PROVE  /\ AllOfThem \in [1..n -> Point] /\ n \in Nat /\ n > 0 /\ Parties = 1..n
           /\ NonceParts \in [1..n -> Int] /\ KeyTerms \in [1..n -> Int]
           /\ \A k \in 1..n : Same(AllOfThem[k], Sign * NonceParts[k] + TheChallenge * KeyTerms[k])
  <1>1. n \in Nat /\ n > 0 /\ Parties = 1..n /\ Keyed(n)
    BY DEF AllShares, Keyed, Parties
  <1>2. ASSUME NEW k \in 1..n
        PROVE  /\ AllOfThem[k] \in Point
               /\ NonceParts[k] \in Int /\ KeyTerms[k] \in Int
               /\ Same(AllOfThem[k], Sign * NonceParts[k] + TheChallenge * KeyTerms[k])
    <2> DEFINE x == keys[k]
               a == KeyCoefficient(keys, k)
               k1 == Nonces[k][1]
               k2 == Nonces[k][2]
               b == SecondFactor
               c == TheChallenge
               e == Sign
               t == TheShareTerms(k)
    <2>1. /\ Share(k) \in Point /\ Same(Share(k), Sum(t, 3)) /\ t \in [1..3 -> Int]
          /\ b \in Point /\ c \in Point
      BY <1>1, PrimeIs DEF AllShares
    <2>2. x \in Int /\ k1 \in Int /\ k2 \in Int /\ a \in Int /\ b \in Int /\ c \in Int /\ e \in Int
      <3>1. x \in Point /\ k1 \in Point /\ k2 \in Point
        <4>1. Nonces[k] \in [1..2 -> Point] /\ keys[k] \in Point
          BY <1>1, NoncesAre DEF Keyed
        <4>. QED
          BY <4>1
      <3>2. a \in Point
        <4>1. a \in Point \cup {Err} /\ (a = Err <=> TooLarge({keys[l] : l \in Parties}))
          BY <1>1, CoefficientIs
        <4>2. ~Bad(k)
          BY DEF AllShares
        <4>. QED
          BY <4>1, <4>2 DEF Bad, BadSums
      <3>3. e \in Int
        BY DEF Sign
      <3> HIDE DEF x, k1, k2, a, b, c, e
      <3>. QED
        BY <2>1, <3>1, <3>2, <3>3, ErrIsNoScalar
    <2>3. t[1] = e * k1 /\ t[2] = e * b * k2 /\ t[3] = c * x * a
      BY DEF TheShareTerms, ShareTerms, Sign
    <2>4. Sum(t, 3) = t[1] + t[2] + t[3]
      BY <2>1, SumOfThree
    <2>5. AllOfThem[k] = Share(k) /\ NonceParts[k] = k1 + b * k2 /\ KeyTerms[k] = a * x
      BY <1>1 DEF AllOfThem, NonceParts, KeyTerms
    <2> HIDE DEF x, k1, k2, a, b, c, e, t
    <2>6. e * k1 + e * b * k2 + c * x * a = e * (k1 + b * k2) + c * (a * x)
      <3> DEFINE u == b * k2
                 v == a * x
      <3>1. u \in Int /\ v \in Int
        BY <2>2
      <3>2. e * b * k2 = e * u /\ c * x * a = c * v
        BY <2>2
      <3>3. e * (k1 + b * k2) = e * (k1 + u) /\ c * (a * x) = c * v
        OBVIOUS
      <3> HIDE DEF u, v
      <3>4. e * (k1 + u) = e * k1 + e * u
        BY <2>2, <3>1
      <3> DEFINE eb == e * b * k2
                 cx == c * x * a
                 r1 == e * (k1 + b * k2)
                 r2 == c * (a * x)
      <3>5. eb = e * u /\ cx = c * v /\ r1 = e * (k1 + u) /\ r2 = c * v
        BY <3>2, <3>3
      <3> HIDE DEF eb, cx, r1, r2
      <3>6. e * k1 + eb + cx = r1 + r2
        BY <3>4, <3>5
      <3>. QED
        BY <3>6 DEF eb, cx, r1, r2
    <2>7. k1 + b * k2 \in Int /\ a * x \in Int
      BY <2>2
    <2>. QED
      BY <2>1, <2>3, <2>4, <2>5, <2>6, <2>7 DEF e, c
  <1>3. AllOfThem \in [1..n -> Point] /\ NonceParts \in [1..n -> Int] /\ KeyTerms \in [1..n -> Int]
    BY <1>1, <1>2 DEF AllOfThem, NonceParts, KeyTerms
  <1>. QED
    BY <1>1, <1>2, <1>3

\* The nonces of the single signer.
LEMMA NoncePartsAre ==
    ASSUME HashIsScalar, NEW n, AllShares(n)
    PROVE  Same(Sum(NonceParts, n), RTotal) /\ ScalarSum(NonceParts) = RTotal /\ RTotal \in Point
  <1> DEFINE c1 == [k \in Parties |-> Nonces[k][1]]
             c2 == [k \in Parties |-> Nonces[k][2]]
             b == SecondFactor
             x == 1
  <1>1. /\ n \in Nat /\ n > 0 /\ Parties = 1..n /\ Keyed(n) /\ 1 \in 1..n
        /\ NonceParts \in [1..n -> Int]
    BY SharesAre DEF AllShares
  <1>2. b \in Point /\ RTotal \in Point
    BY <1>1, PrimeIs DEF AllShares
  <1>3. c1 \in [1..n -> Int] /\ c2 \in [1..n -> Int]
        /\ \A k \in 1..n : c1[k] = Nonces[k][1] /\ c2[k] = Nonces[k][2]
    <2>1. ASSUME NEW k \in 1..n PROVE Nonces[k][1] \in Int /\ Nonces[k][2] \in Int
      <3>1. Nonces[k] \in [1..2 -> Point]
        BY <1>1, NoncesAre
      <3>2. Nonces[k][1] \in Point /\ Nonces[k][2] \in Point
        BY <3>1
      <3>. QED
        BY <3>2 DEF Point
    <2>. QED
      BY <1>1, <2>1
  <1>4. b \in Int /\ x \in Int /\ \A m \in Int : x * m = m
    BY <1>2, ErrIsNoScalar
  <1>5. NonceTotal(1) = ScalarSum(c1) /\ NonceTotal(2) = ScalarSum(c2)
    BY DEF NonceTotal
  <1>6. \A k \in 1..n : NonceParts[k] = Nonces[k][1] + b * Nonces[k][2]
    BY <1>1 DEF NonceParts
  <1>7. RTotal = (NonceTotal(1) + b * NonceTotal(2)) % Q
    BY DEF RTotal
  <1> HIDE DEF c1, c2, b, x
  <1>8. \A k \in 1..n : Same(NonceParts[k], x * c1[k] + b * c2[k])
    <2> TAKE k \in 1..n
    <2>1. c1[k] \in Int /\ NonceParts[k] \in Int
      BY <1>1, <1>3
    <2>2. x * c1[k] = c1[k]
      BY <1>4, <2>1
    <2>3. NonceParts[k] = x * c1[k] + b * c2[k]
      BY <1>3, <1>6, <2>2
    <2>. QED
      BY <2>1, <2>3, SameSelf
  <1> DEFINE S == Sum(NonceParts, n)
             S1 == Sum(c1, n)
             S2 == Sum(c2, n)
  <1>9. Same(S, x * S1 + b * S2)
    BY <1>1, <1>3, <1>4, <1>8, SumLinear
  <1>10. S \in Int /\ S1 \in Int /\ S2 \in Int
    <2>1. n \in 0..n
      BY <1>1
    <2>. QED
      BY <1>1, <1>3, <2>1, SumSteps
  <1>11. ScalarSum(NonceParts) = S % Q /\ NonceTotal(1) = S1 % Q /\ NonceTotal(2) = S2 % Q
    BY <1>1, <1>3, <1>5, ScalarSumIs
  <1> HIDE DEF S, S1, S2
  <1> DEFINE N1 == NonceTotal(1)
             N2 == NonceTotal(2)
             u == x * S1 + b * S2
             v == N1 + b * N2
  <1>12. N1 \in Int /\ N2 \in Int /\ Same(S1, N1) /\ Same(S2, N2)
    BY <1>10, <1>11, SameMod, ErrIsNoScalar
  <1>13. RTotal = v % Q
    BY <1>7
  <1> HIDE DEF N1, N2
  <1>14. Same(u, v) /\ u \in Int /\ v \in Int
    <2> DEFINE p == b * S2
               q == b * N2
    <2>1. Same(p, q)
      BY <1>4, <1>10, <1>12, SameSelf, SameMul
    <2>2. p \in Int /\ q \in Int /\ x * S1 = S1
      BY <1>4, <1>10, <1>12
    <2>3. u = S1 + p /\ v = N1 + q
      BY <2>2
    <2> HIDE DEF p, q, u, v
    <2>4. Same(S1 + p, N1 + q)
      BY <1>10, <1>12, <2>1, <2>2, SameAdd
    <2>5. S1 + p \in Int /\ N1 + q \in Int
      BY <1>10, <1>12, <2>2
    <2>. QED
      BY <2>3, <2>4, <2>5
  <1>15. Same(S, u)
    BY <1>9
  <1> HIDE DEF u, v
  <1>16. Same(S, v)
    BY <1>10, <1>14, <1>15, SameTrans
  <1>17. S % Q = v % Q
    BY <1>10, <1>14, <1>16, SameIsMod
  <1>18. Same(v, RTotal) /\ RTotal \in Int
    BY <1>13, <1>14, SameMod, ErrIsNoScalar
  <1>19. Same(S, RTotal)
    BY <1>10, <1>14, <1>16, <1>18, SameTrans
  <1>. QED
    BY <1>2, <1>11, <1>13, <1>17, <1>19 DEF S

\* What party i adds up, when everybody sends its share.
TotalOf(i) ==
    SumShares(AllOfThem[i], [k \in DOMAIN FromOthers(i, AllOfThem) |-> Parse(FromOthers(i, AllOfThem)[k])])

\* The signature over all of them.
TheSum == Sign * RTotal + TheChallenge * KeyTotal

\* Whatever order a party adds the shares in, it is the same sum.
LEMMA TotalIs ==
    ASSUME HashIsScalar, NEW n, AllShares(n), NEW i \in 1..n
    PROVE  /\ TheSum \in Int
           /\ TotalOf(i) \in Point \cup {Err}
           /\ TotalOf(i) # Err => TotalOf(i) = TheSum % Q
  <1> DEFINE v == AllOfThem
             others == FromOthers(i, v)
             own == v[i]
             total == TotalOf(i)
  <1>1. /\ v \in [1..n -> Point] /\ n \in Nat /\ n > 0 /\ Parties = 1..n /\ n - 1 \in Nat
        /\ NonceParts \in [1..n -> Int] /\ KeyTerms \in [1..n -> Int]
        /\ \A k \in 1..n : Same(v[k], Sign * NonceParts[k] + TheChallenge * KeyTerms[k])
    BY SharesAre
  <1>2. /\ KeyTotal \in Point /\ TheChallenge \in Point
    <2>1. 1 \in 1..n /\ Keyed(n) /\ message \in Nat /\ ~Bad(1)
      BY <1>1 DEF AllShares
    <2>. QED
      BY <2>1, PrimeIs
  <1>3. Same(Sum(NonceParts, n), RTotal) /\ RTotal \in Point
    BY NoncePartsAre
  <1>4. total = FoldLeft(Add, own, [k \in DOMAIN others |-> Parse(others[k])])
    BY DEF TotalOf, SumShares
  <1> HIDE DEF v, total
  <1>5. others \in [1..(n - 1) -> Point] /\ own \in Point
    BY <1>1, FromOthersIs
  <1> HIDE DEF others
  <1>6. [k \in DOMAIN others |-> Parse(others[k])] = others
    <2>1. ASSUME NEW k \in 1..(n - 1) PROVE Parse(others[k]) = others[k]
      <3>1. others[k] \in Point
        BY <1>5
      <3>2. others[k] < Q
        BY <3>1, QIsNat DEF Point
      <3>. QED
        BY <3>2 DEF Parse
    <2>2. DOMAIN others = 1..(n - 1) /\ others = [k \in 1..(n - 1) |-> others[k]]
      BY <1>5
    <2>. QED
      BY <2>1, <2>2
  <1>7. total = FoldLeft(Add, own, others)
    BY <1>4, <1>6
  <1> HIDE DEF own
  <1>8. total \in Point \cup {Err} /\ (total # Err => total = ScalarSum(<<own>> \o others))
    BY <1>1, <1>5, <1>7, AddAll
  <1> DEFINE S == Sum(v, n)
             SN == Sum(NonceParts, n)
             SK == Sum(KeyTerms, n)
             e == Sign
             c == TheChallenge
             R == RTotal
             X == KeyTotal
  <1>9. ScalarSum(<<own>> \o others) = S % Q
    <2>1. others \in [1..(n - 1) -> Int] /\ own \in Int /\ v \in [1..n -> Int]
      BY <1>1, <1>5, ErrIsNoScalar
    <2>2. ScalarSum(<<own>> \o others) = (own + Sum(others, n - 1)) % Q
      BY <1>1, <2>1, ZeroFront
    <2>3. v[i] + Sum(FromOthers(i, v), n - 1) = Sum(v, n)
      BY <1>1, <2>1, SumOfOthers
    <2>. QED
      BY <2>2, <2>3 DEF own, others
  <1>10. e \in Int /\ c \in Int /\ R \in Int /\ X \in Int
    <2>1. e \in Int
      BY DEF Sign
    <2> HIDE DEF e, c, R, X
    <2>2. c \in Point /\ R \in Point /\ X \in Point
      BY <1>2, <1>3 DEF c, R, X
    <2>. QED
      BY <2>1, <2>2, ErrIsNoScalar
  <1>11. S \in Int /\ SN \in Int /\ SK \in Int
    <2>0. Point \subseteq Int
      BY ErrIsNoScalar
    <2>2. v \in [1..n -> Point] /\ n \in 0..n
      BY <1>1
    <2>1. n \in 0..n /\ v \in [1..n -> Int]
      BY <2>0, <2>2
    <2>. QED
      BY <1>1, <2>1, SumSteps
  <1>12. Same(S, e * SN + c * SK)
    <2>1. v \in [1..n -> Int] /\ \A k \in 1..n : Same(v[k], e * NonceParts[k] + c * KeyTerms[k])
      BY <1>1, ErrIsNoScalar
    <2>2. e \in Int /\ c \in Int
      BY <1>10
    <2> HIDE DEF e, c
    <2>. QED
      BY <1>1, <2>1, <2>2, SumLinear
  <1>13. Same(SN, R) /\ Same(SK, X)
    <2>1. X = SK % Q
      BY <1>1, ScalarSumIs DEF KeyTotal
    <2>2. Same(SK, SK % Q)
      BY <1>11, SameMod
    <2>. QED
      BY <1>3, <2>1, <2>2
  <1>14. TheSum = e * R + c * X
    BY DEF TheSum
  <1> HIDE DEF S, SN, SK, e, c, R, X
  <1>15. Same(e * SN, e * R) /\ Same(c * SK, c * X)
    BY <1>10, <1>11, <1>13, SameSelf, SameMul
  <1>16. e * SN \in Int /\ e * R \in Int /\ c * SK \in Int /\ c * X \in Int
    BY <1>10, <1>11
  <1> DEFINE a1 == e * SN
             a2 == e * R
             b1 == c * SK
             b2 == c * X
  <1>17. /\ Same(a1, a2) /\ Same(b1, b2) /\ a1 \in Int /\ a2 \in Int /\ b1 \in Int /\ b2 \in Int
         /\ Same(S, a1 + b1) /\ TheSum = a2 + b2
    BY <1>12, <1>14, <1>15, <1>16
  <1> HIDE DEF a1, a2, b1, b2
  <1>18. Same(S, TheSum) /\ TheSum \in Int
    <2>1. Same(a1 + b1, a2 + b2)
      BY <1>17, SameAdd
    <2>2. a1 + b1 \in Int /\ a2 + b2 \in Int
      BY <1>17
    <2>. QED
      BY <1>11, <1>17, <2>1, <2>2, SameTrans
  <1>19. S % Q = TheSum % Q
    BY <1>11, <1>18, SameIsMod
  <1>. QED
    BY <1>8, <1>9, <1>18, <1>19 DEF total

\* Whoever has a signature: everybody sent a share, and it is the sum.
LEMMA SummedIs ==
    ASSUME HashIsScalar, CryptoInv, NEW i \in Summed
    PROVE  \E n : /\ AllShares(n) /\ i \in 1..n
                  /\ primes[i] = [R |-> RTotal, c |-> TheChallenge, X_tilde |-> KeyTotal, s_i |-> Share(i)]
                  /\ sums[i] = TheSum % Q
                  /\ KeyTotal \in Point /\ RTotal \in Point /\ TheChallenge \in Point
  <1>1. PICK n : Keyed(n)
    BY DEF CryptoInv
  <1>2. Parties = 1..n /\ message \in Nat /\ n \in Nat
    BY <1>1 DEF CryptoInv, Keyed, Parties
  <1>3. i \in DOMAIN sums /\ sums[i] # Err
    BY DEF Summed
  <1>4. sums # << >>
    <2>1. DOMAIN << >> = {}
      OBVIOUS
    <2>. QED
      BY <1>3, <2>1
  <1>5. /\ primes = [k \in 1..n |-> PrimeOf(k)] /\ ~IsErr(primes)
        /\ sums = [k \in 1..n |-> SumShares(Shares[k], ParsedShares(k))]
    BY <1>2, <1>4 DEF CryptoInv
  <1>6. i \in 1..n
    BY <1>3, <1>5
  <1>7. \A k \in 1..n : ~Bad(k)
    <2> TAKE k \in 1..n
    <2>1. primes[k] # Err
      BY <1>5 DEF IsErr
    <2>2. PrimeOf(k) # Err
      BY <1>5, <2>1
    <2>. QED
      BY <1>1, <1>2, <2>2, PrimeIs
  <1>8. AllShares(n)
    BY <1>1, <1>2, <1>7 DEF AllShares
  <1>9. \A k \in 1..n :
           primes[k] = [R |-> RTotal, c |-> TheChallenge, X_tilde |-> KeyTotal, s_i |-> Share(k)]
    BY <1>1, <1>2, <1>5, <1>7, PrimeIs
  <1>10. Shares = AllOfThem
    <2>1. ASSUME NEW k \in 1..n PROVE primes[k].s_i = Share(k)
      <3> DEFINE p == primes[k]
      <3>1. p = [R |-> RTotal, c |-> TheChallenge, X_tilde |-> KeyTotal, s_i |-> Share(k)]
        BY <1>9
      <3> HIDE DEF p
      <3>2. p.s_i = Share(k)
        BY <3>1
      <3>. QED
        BY <3>2 DEF p
    <2>2. [k \in 1..n |-> primes[k].s_i] = [k \in 1..n |-> Share(k)]
      BY <2>1
    <2>. QED
      BY <1>2, <2>2 DEF Shares, AllOfThem
  <1>11. sums[i] = TotalOf(i)
    <2>1. sums[i] = SumShares(Shares[i], ParsedShares(i))
      BY <1>5, <1>6
    <2>. QED
      BY <1>10, <2>1 DEF ParsedShares, TotalOf
  <1>12. sums[i] = TheSum % Q
    BY <1>3, <1>6, <1>8, <1>11, TotalIs
  <1>13. KeyTotal \in Point /\ RTotal \in Point /\ TheChallenge \in Point
    BY <1>1, <1>2, <1>6, <1>7, PrimeIs
  <1>. QED
    BY <1>6, <1>8, <1>9, <1>12, <1>13

\* On every curve, with any number of parties, keys, message and hash: every party
\* that gets through Round2 has the signature a single signer would make with the
\* aggregated key and the sum of all nonces.
THEOREM SignsAsOne ==
    ASSUME HashIsScalar
    PROVE  Spec => []OneSigner
  <1>1. ASSUME CryptoInv PROVE OneSigner
    <2> SUFFICES ASSUME NEW i \in Summed
                 PROVE  [R |-> primes[i].R, X_tilde |-> primes[i].X_tilde, s |-> sums[i]] = SingleSigner
      BY DEF OneSigner
    <2>1. PICK n : /\ AllShares(n) /\ i \in 1..n
                   /\ primes[i] = [R |-> RTotal, c |-> TheChallenge, X_tilde |-> KeyTotal, s_i |-> Share(i)]
                   /\ sums[i] = TheSum % Q
                   /\ KeyTotal \in Point /\ RTotal \in Point /\ TheChallenge \in Point
      BY <1>1, SummedIs
    <2>2. ScalarSum(NonceParts) = RTotal
      BY <2>1, NoncePartsAre
    <2>3. SingleSigner = [R |-> RTotal, X_tilde |-> KeyTotal,
                          s |-> ((IF IsOddY(RTotal) THEN -RTotal ELSE RTotal) + TheChallenge * KeyTotal) % Q]
      BY <2>2 DEF SingleSigner, NonceParts, KeyTotal, SecondFactor, TheChallenge
    <2>4. (IF IsOddY(RTotal) THEN -RTotal ELSE RTotal) = Sign * RTotal
      <3>1. RTotal \in Int
        BY <2>1, ErrIsNoScalar
      <3>. QED
        BY <3>1 DEF Sign
    <2>5. sums[i] = ((IF IsOddY(RTotal) THEN -RTotal ELSE RTotal) + TheChallenge * KeyTotal) % Q
      BY <2>1, <2>4 DEF TheSum
    <2>6. primes[i].R = RTotal /\ primes[i].X_tilde = KeyTotal
      BY <2>1
    <2>. QED
      BY <2>3, <2>5, <2>6
  <1>2. CryptoInv => OneSigner
    BY <1>1
  <1>. QED
    BY <1>2, AlwaysCryptoInv, PTL
-----------------------------------------------------------------------------
(* Verification.                                                           *)

\* The opposite point has the same x, and a y of the other parity.
LEMMA Opposite ==
    ASSUME NEW r \in Point
    PROVE  /\ Q - r \in Point
           /\ Coord[Q - r][1] = Coord[r][1]
           /\ IsOddY(Q - r) <=> ~IsOddY(r)
  <1> DEFINE o == Q - r
  <1>1. o \in Point /\ r \in 1..(Q - 1) /\ P \in Nat
    BY QIsNat DEF Point
  <1>2. Coord[r] = <<Coord[o][1], P - Coord[o][2]>>
    BY <1>1, CurveAssumption
  <1> HIDE DEF o
  <1>3. Coord[o][1] = Coord[r][1] /\ Coord[r][2] = P - Coord[o][2]
    BY <1>2
  <1> DEFINE y == Coord[o][2]
             z == Coord[r][2]
  <1>4. y \in 0..(P - 1) /\ z = P - y
    BY <1>1, <1>3, OnTheCurve
  <1>5. P % 2 = 1
    <2>1. 2 \in 2..(P - 1)
      BY Primes DEF Prime
    <2>2. P % 2 # 0
      BY <2>1, Primes DEF Prime
    <2>. QED
      BY <1>1, <2>2
  <1>6. IsOddY(o) <=> y % 2 = 1
    BY DEF IsOddY
  <1>7. IsOddY(r) <=> z % 2 = 1
    BY DEF IsOddY
  <1> HIDE DEF y, z
  <1>8. y % 2 = 1 <=> ~(z % 2 = 1)
    BY <1>1, <1>4, <1>5
  <1>. QED
    BY <1>1, <1>3, <1>6, <1>7, <1>8 DEF o

\* No two points with an even y have the same x.
LEMMA OneEvenPoint ==
    ASSUME NEW k \in Point, NEW l \in Point, Coord[k][1] = Coord[l][1], ~IsOddY(k), ~IsOddY(l)
    PROVE  k = l
  <1> DEFINE y == Coord[k][2]
             z == Coord[l][2]
             w == (Coord[k][1] ^ 3 + CurveB) % P
  <1>1. y \in 0..(P - 1) /\ z \in 0..(P - 1) /\ P \in Nat /\ P > 3 /\ Prime(P)
    BY OnTheCurve, QIsNat, Primes
  <1>2. (y * y) % P = w /\ (z * z) % P = w
    BY OnTheCurve DEF OnCurve
  <1>3. y % 2 # 1 /\ z % 2 # 1
    BY DEF IsOddY
  <1>4. Coord[k] = <<Coord[k][1], y>> /\ Coord[l] = <<Coord[l][1], z>>
    BY OnTheCurve
  <1> HIDE DEF y, z, w
  <1>5. y % 2 = 0 /\ z % 2 = 0 /\ P % 2 = 1
    <2>1. 2 \in 2..(P - 1)
      BY <1>1
    <2>2. P % 2 # 0
      BY <1>1, <2>1 DEF Prime
    <2>. QED
      BY <1>1, <1>3, <2>2
  <1>6. Divides(P, (y - z) * (y + z))
    <2> DEFINE yy == y * y
               zz == z * z
               u == yy \div P
               v == zz \div P
    <2>1. yy \in Int /\ zz \in Int /\ u \in Int /\ v \in Int
      BY <1>1
    <2>2. yy = P * u + (yy % P) /\ zz = P * v + (zz % P)
      BY <1>1, <2>1
    <2>3. yy % P = zz % P
      BY <1>2
    <2>4. (y - z) * (y + z) = yy - zz
      BY <1>1
    <2> HIDE DEF yy, zz, u, v
    <2>5. yy % P \in Int
      BY <1>1, <2>1
    <2>6. yy - zz = P * u - P * v
      <3> DEFINE p1 == P * u
                 p2 == P * v
                 m == yy % P
      <3>1. p1 \in Int /\ p2 \in Int /\ m \in Int /\ yy = p1 + m /\ zz = p2 + m
        BY <1>1, <2>1, <2>2, <2>3, <2>5
      <3> HIDE DEF p1, p2, m
      <3>2. yy - zz = p1 - p2
        BY <3>1
      <3>. QED
        BY <3>2 DEF p1, p2
    <2>7. P * u - P * v = (u - v) * P /\ u - v \in Int
      BY <1>1, <2>1
    <2>. QED
      BY <2>4, <2>6, <2>7 DEF Divides
  <1>7. y - z \in Int /\ y + z \in Int
    BY <1>1
  <1>8. Divides(P, y - z) \/ Divides(P, y + z)
    BY <1>1, <1>6, <1>7, PrimeDivides
  <1>9. \A j \in Int : j >= 1 => j * P >= P
    BY <1>1
  <1>10. \A j \in Int : j >= 2 => j * P >= 2 * P
    BY <1>1
  <1>11. \A j \in Int : j <= -1 => j * P <= -P
    <2> TAKE j \in Int
    <2> SUFFICES ASSUME j <= -1 PROVE j * P <= -P
      OBVIOUS
    <2>1. -j \in Int /\ -j >= 1
      OBVIOUS
    <2>2. (-j) * P >= P
      BY <1>9, <2>1
    <2>3. j * P = -((-j) * P) /\ (-j) * P \in Int
      BY <1>1
    <2>. QED
      BY <1>1, <2>2, <2>3
  <1>12. y = z
    <2>1. CASE Divides(P, y - z)
      <3>1. PICK j \in Int : y - z = j * P
        BY <2>1 DEF Divides
      <3> DEFINE jP == j * P
      <3>2. y - z = jP /\ (j >= 1 => jP >= P) /\ (j <= -1 => jP <= -P) /\ (j = 0 => jP = 0)
        BY <1>1, <1>9, <1>11, <3>1
      <3> HIDE DEF jP
      <3>3. ~(j >= 1) /\ ~(j <= -1)
        BY <1>1, <3>2
      <3>4. j = 0
        BY <3>3
      <3>. QED
        BY <1>1, <3>2, <3>4
    <2>2. CASE Divides(P, y + z)
      <3>1. PICK j \in Int : y + z = j * P
        BY <2>2 DEF Divides
      <3> DEFINE jP == j * P
      <3>2. y + z = jP /\ (j >= 2 => jP >= 2 * P) /\ (j <= -1 => jP <= -P)
            /\ (j = 0 => jP = 0) /\ (j = 1 => jP = P)
        BY <1>1, <1>10, <1>11, <3>1
      <3> HIDE DEF jP
      <3>3. ~(j >= 2) /\ ~(j <= -1)
        BY <1>1, <3>2
      <3>4. j # 1
        <4>1. (y + z) % 2 = 0
          BY <1>1, <1>5
        <4>. QED
          BY <1>1, <1>5, <3>2, <4>1
      <3>5. j = 0
        BY <3>3, <3>4
      <3>. QED
        BY <1>1, <3>2, <3>5
    <2>. QED
      BY <1>8, <2>1, <2>2
  <1>13. Coord[k] = Coord[l]
    BY <1>4, <1>12
  <1>. QED
    BY <1>13, CurveAssumption DEF Point

\* The equation of verify, solved for s.
LEMMA SolveForS ==
    ASSUME NEW s \in Scalar, NEW r \in Point, NEW p \in Int, NEW q \in Int, Same(q, r)
    PROVE  (s - p) % Q = r <=> s = (q + p) % Q
  <1>1. s \in Int /\ r \in Int /\ r \in Scalar /\ s - p \in Int /\ q + p \in Int /\ r + p \in Int
    <2>1. s \in Int /\ r \in Int /\ r \in Scalar
      BY ErrIsNoScalar
    <2>. QED
      BY <2>1
  <1> DEFINE m == (s - p) % Q
             t == (q + p) % Q
  <1>2. m \in Scalar /\ m \in Int /\ Same(m, s - p) /\ Same(s - p, m)
    BY <1>1, SameMod, ErrIsNoScalar
  <1>3. t \in Scalar /\ t \in Int /\ Same(t, q + p) /\ Same(q + p, t)
    BY <1>1, SameMod, ErrIsNoScalar
  <1> HIDE DEF m, t
  <1>4. Same(q + p, r + p) /\ Same(r + p, q + p)
    <2>1. Same(p, p) /\ Same(r, q)
      BY <1>1, SameSelf, SameBack
    <2>. QED
      BY <1>1, <2>1, SameAdd
  <1>5. ASSUME m = r PROVE s = t
    <2>1. Same(s - p, r) /\ Same(p, p)
      BY <1>2, <1>5, SameSelf
    <2>2. Same((s - p) + p, r + p)
      BY <1>1, <2>1, SameAdd
    <2>3. (s - p) + p = s
      BY <1>1
    <2>4. Same(s, r + p)
      BY <2>2, <2>3
    <2>5. Same(s, q + p)
      BY <1>1, <1>4, <2>4, SameTrans
    <2>6. Same(s, t)
      BY <1>1, <1>3, <2>5, SameTrans
    <2>. QED
      BY <1>3, <2>6, SameScalar
  <1>6. ASSUME s = t PROVE m = r
    <2>1. Same(s, q + p)
      BY <1>3, <1>6
    <2>2. Same(s, r + p)
      BY <1>1, <1>4, <2>1, SameTrans
    <2>3. Same(-p, -p) /\ -p \in Int
      BY SameSelf
    <2>4. Same(s + (-p), (r + p) + (-p))
      BY <1>1, <2>2, <2>3, SameAdd
    <2>5. s + (-p) = s - p /\ (r + p) + (-p) = r
      BY <1>1
    <2>6. Same(s - p, r)
      BY <2>4, <2>5
    <2>7. Same(m, r)
      BY <1>1, <1>2, <2>6, SameTrans
    <2>. QED
      BY <1>1, <1>2, <2>7, SameScalar
  <1>. QED
    BY <1>5, <1>6 DEF m, t

\* On every curve, with any number of parties, keys, message and hash: verify takes
\* the signature every party ends with, and with its R no other scalar.
THEOREM VerifiesTheSum ==
    ASSUME HashIsScalar
    PROVE  Spec => []OnlyTheSumVerifies
  <1>1. ASSUME CryptoInv PROVE OnlyTheSumVerifies
    <2> SUFFICES ASSUME NEW i \in Summed, NEW s \in Scalar
                 PROVE  Verify(XScalar(primes[i].R), s, message, primes[i].X_tilde) <=> s = sums[i]
      BY DEF OnlyTheSumVerifies
    <2>1. PICK n : /\ AllShares(n) /\ i \in 1..n
                   /\ primes[i] = [R |-> RTotal, c |-> TheChallenge, X_tilde |-> KeyTotal, s_i |-> Share(i)]
                   /\ sums[i] = TheSum % Q
                   /\ KeyTotal \in Point /\ RTotal \in Point /\ TheChallenge \in Point
      BY <1>1, SummedIs
    <2>2. primes[i].R = RTotal /\ primes[i].X_tilde = KeyTotal
      BY <2>1
    <2> DEFINE r == RTotal
               X == KeyTotal
               c == TheChallenge
               rx == XScalar(r)
               even == IF IsOddY(r) THEN Q - r ELSE r
               p == c * X
               q == Sign * r
               R == (s - p) % Q
    <2>3. r \in Point /\ X \in Point /\ c \in Point /\ c = Challenge(Coord[r][1], X, message)
      BY <2>1 DEF TheChallenge
    <2>4. rx = Coord[r][1] /\ rx # Err
      <3>1. ~(Coord[r][1] >= Q)
        BY <2>1 DEF AllShares, Bad, BadSums, TooLarge
      <3>2. r \in Point \cup {Err} /\ r # Err
        BY <2>3, ErrIsNoScalar
      <3>. QED
        BY <3>1, <3>2, XScalarIs
    <2>5. Verify(rx, s, message, X) <=> IsXCoor(rx) /\ R # 0 /\ ~IsOddY(R) /\ XScalar(R) = rx
      <3>1. Challenge(rx, X, message) = c
        BY <2>3, <2>4
      <3> HIDE DEF c, X, rx
      <3>. QED
        BY <3>1 DEF Verify
    <2>6. q = IF IsOddY(r) THEN -r ELSE r
      <3>1. r \in Int
        BY <2>3 DEF Point
      <3>. QED
        BY <3>1 DEF Sign
    <2>7. sums[i] = (q + p) % Q
      BY <2>1 DEF TheSum
    <2> HIDE DEF r, X, c, rx
    <2>8. /\ even \in Point /\ Coord[even][1] = Coord[r][1] /\ ~IsOddY(even)
          /\ p \in Int /\ q \in Int /\ Same(q, even)
      <3>1. r \in Int /\ X \in Int /\ c \in Int
        BY <2>3 DEF Point
      <3>2. p \in Int /\ q \in Int
        BY <2>6, <3>1
      <3>3. CASE IsOddY(r)
        <4>1. even = Q - r /\ q = -r
          BY <2>6, <3>3
        <4>2. even \in Point /\ Coord[even][1] = Coord[r][1] /\ ~IsOddY(even)
          BY <2>3, <3>3, <4>1, Opposite
        <4>3. Same(Neg(r), -r) /\ Neg(r) = Q - r /\ Neg(r) \in Int /\ -r \in Int
          <5>1. Same(Neg(r), -r) /\ Neg(r) = Q - r /\ Neg(r) \in Point
            BY <2>3, NegIs
          <5>. QED
            BY <3>1, <5>1 DEF Point
        <4>4. Same(-r, Neg(r))
          BY <4>3, SameBack
        <4>5. Same(q, even)
          BY <4>1, <4>3, <4>4
        <4>. QED
          BY <3>2, <4>2, <4>5
      <3>4. CASE ~IsOddY(r)
        <4>1. even = r /\ q = r
          BY <2>6, <3>4
        <4>2. Same(r, r)
          BY <3>1, SameSelf
        <4>. QED
          BY <2>3, <3>2, <3>4, <4>1, <4>2
      <3>. QED
        BY <3>3, <3>4
    <2> HIDE DEF even, p, q
    <2>9. R = even <=> s = sums[i]
      BY <2>7, <2>8, SolveForS
    <2>10. R \in Scalar
      <3>1. s - p \in Int
        BY <2>8, ErrIsNoScalar
      <3>. QED
        BY <3>1, SameMod
    <2> HIDE DEF R
    <2>11. ASSUME R = even PROVE Verify(rx, s, message, X)
      <3>1. IsXCoor(rx)
        BY <2>4, <2>8 DEF IsXCoor, Point
      <3>2. R \in Point /\ R # 0 /\ ~IsOddY(R) /\ Coord[R][1] = Coord[r][1]
        BY <2>8, <2>11, ErrIsNoScalar
      <3>3. XScalar(R) = rx
        <4>1. R # Err /\ r # Err
          BY <2>3, <3>2, ErrIsNoScalar
        <4>. QED
          BY <3>2, <4>1 DEF XScalar, rx
      <3>. QED
        BY <2>5, <3>1, <3>2, <3>3
    <2>12. ASSUME Verify(rx, s, message, X) PROVE R = even
      <3>1. R # 0 /\ ~IsOddY(R) /\ XScalar(R) = rx
        BY <2>5, <2>12
      <3>2. R \in Point
        BY <2>10, <3>1, ErrIsNoScalar
      <3>3. Coord[R][1] = Coord[r][1]
        <4>1. XScalar(R) # Err /\ R \in Point \cup {Err}
          BY <2>4, <3>1, <3>2
        <4>2. XScalar(R) = Coord[R][1]
          BY <4>1, XScalarIs
        <4>. QED
          BY <2>4, <3>1, <4>2
      <3>. QED
        BY <2>8, <3>1, <3>2, <3>3, OneEvenPoint
    <2>13. Verify(rx, s, message, X) <=> s = sums[i]
      BY <2>9, <2>11, <2>12
    <2>. QED
      BY <2>2, <2>13 DEF rx, r, X
  <1>2. CryptoInv => OnlyTheSumVerifies
    BY <1>1
  <1>. QED
    BY <1>2, AlwaysCryptoInv, PTL
=============================================================================
