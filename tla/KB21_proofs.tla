---------------------------- MODULE KB21_proofs -----------------------------
(***************************************************************************)
(* Proofs about KB21: for any prime order, any members and any number of   *)
(* members revoked at once, the published polynomial turns a witness that  *)
(* verifies into one that verifies after the revocation, and it refuses    *)
(* the revoked and nobody else.                                            *)
(***************************************************************************)
EXTENDS KB21, FiniteSetTheorems, WellFoundedInduction, TLAPS

-----------------------------------------------------------------------------
(* Congruence modulo the order of the group.                                *)
Cong(a, b) == \E k \in Int : a = b + k * R

(* The order is a number and zero is a scalar.                              *)
LEMMA ROrder == R \in Nat /\ R > 2 /\ Scalar \subseteq Int /\ Unit \subseteq Int /\ 0 \in Scalar
BY KB21Assumption DEF Scalar, Unit

(* A remainder is a scalar congruent to what it was taken of.               *)
LEMMA Remainder ==
  ASSUME NEW a \in Int
  PROVE  a % R \in Scalar /\ a % R \in Int /\ Cong(a % R, a) /\ \E k \in Int : a % R = a + k * R
<1>1. a % R \in 0 .. (R - 1) /\ a \div R \in Int /\ a = R * (a \div R) + (a % R)
  BY ROrder
<1>2. a % R = a + (-(a \div R)) * R /\ -(a \div R) \in Int
  BY <1>1, ROrder
<1> QED BY <1>1, <1>2 DEF Cong, Scalar

(* Congruence is symmetric ...                                              *)
LEMMA CongSym == ASSUME NEW a \in Int, NEW b \in Int, Cong(a, b) PROVE Cong(b, a)
<1>1. PICK k \in Int : a = b + k * R BY DEF Cong
<1>2. b = a + (-k) * R BY <1>1, ROrder
<1> QED BY <1>2 DEF Cong

(* ... and transitive.                                                      *)
LEMMA CongTrans ==
  ASSUME NEW a \in Int, NEW b \in Int, NEW c \in Int, Cong(a, b), Cong(b, c)
  PROVE  Cong(a, c)
<1>1. PICK k \in Int : a = b + k * R BY DEF Cong
<1>2. PICK l \in Int : b = c + l * R BY DEF Cong
<1>3. a = c + (k + l) * R BY <1>1, <1>2, ROrder
<1> QED BY <1>3 DEF Cong

(* The only multiple of N smaller than N in size is zero.                   *)
LEMMA SmallMultiple ==
  ASSUME NEW N \in Nat \ {0}, NEW k \in Int, -N < k*N, k*N < N
  PROVE  k = 0
<1>1. CASE k >= 1
  <2>1. k*N >= N BY <1>1
  <2> QED BY <2>1
<1>2. CASE k <= -1
  <2>1. k*N <= -N BY <1>2
  <2> QED BY <2>1
<1> QED BY <1>1, <1>2

(* Congruent scalars are equal.                                             *)
LEMMA CongScalar ==
  ASSUME NEW u \in Scalar, NEW v \in Scalar, Cong(u, v) PROVE u = v
<1>1. PICK k \in Int : u = v + k * R BY DEF Cong
<1>2. -R < k * R /\ k * R < R BY <1>1, ROrder DEF Scalar
<1>3. k = 0
  BY <1>2, SmallMultiple, ROrder
<1> QED BY <1>1, <1>3, ROrder DEF Scalar

(* The inverse of a scalar that is not zero.                                *)
LEMMA Inverse1 ==
  ASSUME NEW a \in Unit
  PROVE  inv[a] \in Unit /\ inv[a] \in Int /\ Cong(a * inv[a], 1)
<1>1. inv[a] = CHOOSE b \in Unit : (a * b) % R = 1
  BY DEF inv
<1>2. inv[a] \in Unit /\ (a * inv[a]) % R = 1
  BY <1>1, UnitsInvertible
<1>3. inv[a] \in Int /\ a \in Int
  BY <1>2, ROrder
<1> DEFINE p == a * inv[a]
<1>4. p \in Int /\ p % R = 1
  BY <1>2, <1>3
<1> HIDE DEF p
<1>5. Cong(p, 1)
  BY <1>4, Remainder, CongSym
<1> QED BY <1>2, <1>3, <1>5 DEF p

(* There are no divisors of zero.                                           *)
LEMMA NoZeroDivisors ==
  ASSUME NEW a \in Unit, NEW b \in Int, Cong(a * b, 0)
  PROVE  Cong(b, 0)
<1> DEFINE i == inv[a]
<1>1. i \in Int /\ a \in Int /\ Cong(a * i, 1)
  BY Inverse1, ROrder
<1> HIDE DEF i
<1>2. PICK k \in Int : a * i = 1 + k * R
  BY <1>1 DEF Cong
<1>3. PICK l \in Int : a * b = 0 + l * R
  BY DEF Cong
<1>4. b = 0 + (i * l - k * b) * R
  <2>1. (a * b) * i = (l * R) * i
    BY <1>1, <1>3, ROrder
  <2>2. (a * i) * b = b + (k * R) * b
    BY <1>1, <1>2, ROrder
  <2> QED BY <1>1, <2>1, <2>2, ROrder
<1>5. i * l - k * b \in Int
  BY <1>1
<1> QED BY <1>4, <1>5 DEF Cong

(* So products of units are units.                                          *)
LEMMA UnitProduct ==
  ASSUME NEW a \in Unit, NEW b \in Unit
  PROVE  (a * b) % R \in Unit
<1>1. a \in Int /\ b \in Int /\ a * b \in Int
  BY ROrder
<1> DEFINE p == a * b
<1>2. p \in Int
  BY <1>1
<1>3. ASSUME p % R = 0 PROVE FALSE
  <2> HIDE DEF p
  <2>1. Cong(p, 0)
    BY <1>2, <1>3, Remainder, CongSym
  <2> USE DEF p
  <2>2. Cong(b, 0)
    BY <1>1, <2>1, NoZeroDivisors
  <2>3. b \in Scalar /\ 0 \in Scalar
    BY ROrder DEF Unit, Scalar
  <2>4. b = 0
    BY <2>2, <2>3, CongScalar
  <2> QED BY <2>4 DEF Unit
<1> HIDE DEF p
<1>4. p % R \in Scalar
  BY <1>2, Remainder
<1> QED BY <1>3, <1>4 DEF p, Scalar, Unit

-----------------------------------------------------------------------------
(* Induction up to a bound, as a statement about the numbers it holds for.  *)
LEMMA UpTo ==
  ASSUME NEW N \in Nat, NEW S, 0 \in S, \A n \in 0 .. (N - 1) : n \in S => n + 1 \in S
  PROVE  \A n \in 0 .. N : n \in S
<1> DEFINE T == (0 .. N) \ S
<1> SUFFICES ASSUME T # {} PROVE FALSE
  OBVIOUS
<1> DEFINE less == OpToRel(<, Nat)
<1>1. IsWellFoundedOn(less, Nat)
  BY NatLessThanWellFounded
<1>2. \A a, b \in Nat : a < b => <<a, b>> \in less
  BY DEF OpToRel
<1>3. T \subseteq Nat /\ T # {}
  OBVIOUS
<1> HIDE DEF T, less
<1>4. PICK x \in T : \A y \in T : ~ (<<y, x>> \in less)
  BY <1>1, <1>3, WFMin
<1>5. x \in 0 .. N /\ x \notin S /\ x # 0
  BY <1>4 DEF T
<1>6. x - 1 \in 0 .. (N - 1) /\ x - 1 < x /\ x - 1 \in Nat /\ x \in Nat
  BY <1>5
<1>7. x - 1 \notin T
  BY <1>2, <1>4, <1>6
<1>8. x - 1 \in S
  BY <1>6, <1>7 DEF T
<1>9. (x - 1) + 1 \in S
  BY <1>6, <1>8
<1> QED BY <1>5, <1>6, <1>9

(* f starts at b and takes the step G up to N.                              *)
Steps(f, N, S, b, G) ==
  f \in [0 .. N -> S] /\ f[0] = b /\ \A n \in 1 .. N : f[n] = G[<<f[n - 1], n>>]

(* There is such a function, whatever the step.                             *)
LEMMA Recursion ==
  ASSUME NEW N \in Nat, NEW S, NEW b \in S, NEW G \in [S \X (1 .. N) -> S]
  PROVE  \E f : Steps(f, N, S, b, G)
<1> DEFINE T == { m \in 0 .. N : \E f : Steps(f, m, S, b, G) }
<1>1. 0 \in T
  <2>1. Steps([n \in 0 .. 0 |-> b], 0, S, b, G)
    BY DEF Steps
  <2> QED BY <2>1
<1>2. ASSUME NEW m \in 0 .. (N - 1), m \in T
      PROVE  m + 1 \in T
  <2>1. PICK f : Steps(f, m, S, b, G)
    BY <1>2
  <2> DEFINE g == [n \in 0 .. (m + 1) |-> IF n = m + 1 THEN G[<<f[m], m + 1>>] ELSE f[n]]
  <2>2. m \in Nat /\ m + 1 \in 1 .. N /\ m \in 0 .. m
    BY <1>2
  <2>3. G[<<f[m], m + 1>>] \in S
    BY <2>1, <2>2 DEF Steps
  <2>4. g \in [0 .. (m + 1) -> S]
    BY <2>1, <2>2, <2>3 DEF Steps
  <2>5. g[0] = b
    BY <2>1, <2>2 DEF Steps
  <2>6. ASSUME NEW n \in 1 .. (m + 1)
        PROVE  g[n] = G[<<g[n - 1], n>>]
    <3>1. CASE n = m + 1
      <4>1. n - 1 = m /\ m \in 0 .. (m + 1) /\ m # m + 1
        BY <2>2, <3>1
      <4>2. g[m] = f[m]
        BY <4>1
      <4> QED BY <3>1, <4>1, <4>2
    <3>2. CASE n # m + 1
      <4>1. n \in 1 .. m /\ g[n] = f[n] /\ g[n - 1] = f[n - 1]
        BY <2>2, <3>2
      <4> QED BY <2>1, <4>1 DEF Steps
    <3> QED BY <3>1, <3>2
  <2> HIDE DEF g
  <2>7. Steps(g, m + 1, S, b, G)
    BY <2>4, <2>5, <2>6 DEF Steps
  <2> QED BY <2>2, <2>7
<1> HIDE DEF T
<1>3. \A n \in 0 .. N : n \in T
  BY <1>1, <1>2, UpTo
<1>4. N \in T
  BY <1>3
<1> QED BY <1>4 DEF T

-----------------------------------------------------------------------------
(* What the recursive functions of the model compute, step by step.         *)

(* A product takes one factor after the other.                              *)
LEMMA ProductSteps ==
  ASSUME NEW f \in Seq(Int)
  PROVE  \E d \in [0 .. Len(f) -> Scalar] :
           /\ d[0] = 1 /\ ProductOf(f) = d[Len(f)]
           /\ \A n \in 1 .. Len(f) : d[n] = (d[n - 1] * f[n]) % R
<1> DEFINE N == Len(f)
           G == [q \in Scalar \X (1 .. N) |-> (q[1] * f[q[2]]) % R]
           IsRec(d) == d = [n \in 0 .. N |-> IF n = 0 THEN 1 ELSE (d[n - 1] * f[n]) % R]
<1>1. N \in Nat /\ 1 \in Scalar /\ \A n \in 1 .. N : f[n] \in Int
  BY ROrder DEF Scalar
<1>2. \A a \in Scalar, n \in 1 .. N : (a * f[n]) % R \in Scalar
  <2> SUFFICES ASSUME NEW a \in Scalar, NEW n \in 1 .. N PROVE (a * f[n]) % R \in Scalar
    OBVIOUS
  <2>1. a * f[n] \in Int
    BY <1>1, ROrder
  <2> QED BY <2>1, Remainder
<1>3. G \in [Scalar \X (1 .. N) -> Scalar]
  BY <1>2
<1>4. \A a \in Scalar, n \in 1 .. N : G[<<a, n>>] = (a * f[n]) % R
  OBVIOUS
<1> HIDE DEF G, N
<1>5. PICK g : Steps(g, N, Scalar, 1, G)
  BY <1>1, <1>3, Recursion
<1>6. IsRec(g)
  <2>1. g = [n \in 0 .. N |-> g[n]] /\ g[0] = 1
    BY <1>5 DEF Steps
  <2>2. \A n \in 0 .. N : n # 0 => n \in 1 .. N /\ n - 1 \in 0 .. N
    BY <1>1
  <2>3. \A n \in 0 .. N : n # 0 => g[n] = (g[n - 1] * f[n]) % R
    BY <1>4, <1>5, <2>2 DEF Steps
  <2>4. \A n \in 0 .. N : g[n] = IF n = 0 THEN 1 ELSE (g[n - 1] * f[n]) % R
    BY <2>1, <2>3
  <2> QED BY <2>1, <2>4
<1> DEFINE d == CHOOSE h : IsRec(h)
<1>7. IsRec(d)
  BY <1>6
<1>8. ProductOf(f) = d[N]
  BY DEF ProductOf, N
<1> HIDE DEF d
<1>9. d[0] = 1 /\ \A n \in 1 .. N : d[n] = (d[n - 1] * f[n]) % R
  BY <1>1, <1>7
<1>10. \A n \in 0 .. N : d[n] \in Scalar
  <2> DEFINE T == { n \in 0 .. N : d[n] \in Scalar }
  <2>1. 0 \in T
    BY <1>1, <1>9
  <2>2. \A n \in 0 .. (N - 1) : n \in T => n + 1 \in T
    <3> SUFFICES ASSUME NEW n \in 0 .. (N - 1), n \in T PROVE n + 1 \in T
      OBVIOUS
    <3>1. n + 1 \in 1 .. N /\ n + 1 \in 0 .. N /\ (n + 1) - 1 = n
      BY <1>1
    <3> QED BY <1>2, <1>9, <3>1
  <2> HIDE DEF T
  <2>3. \A n \in 0 .. N : n \in T
    BY <1>1, <2>1, <2>2, UpTo
  <2> QED BY <2>3 DEF T
<1>11. d \in [0 .. N -> Scalar]
  BY <1>7, <1>10
<1> QED BY <1>8, <1>9, <1>11 DEF N

(* A product of units is a unit.                                            *)
LEMMA ProductUnit ==
  ASSUME NEW f \in Seq(Int), \A n \in 1 .. Len(f) : f[n] \in Unit
  PROVE  ProductOf(f) \in Unit
<1>1. PICK d \in [0 .. Len(f) -> Scalar] :
        /\ d[0] = 1 /\ ProductOf(f) = d[Len(f)]
        /\ \A n \in 1 .. Len(f) : d[n] = (d[n - 1] * f[n]) % R
  BY ProductSteps
<1> DEFINE N == Len(f)
           T == { n \in 0 .. N : d[n] \in Unit }
<1>2. N \in Nat /\ 0 \in T
  BY <1>1, ROrder DEF Unit
<1>3. \A n \in 0 .. (N - 1) : n \in T => n + 1 \in T
  <2> SUFFICES ASSUME NEW n \in 0 .. (N - 1), n \in T PROVE n + 1 \in T
    OBVIOUS
  <2>1. n + 1 \in 1 .. N /\ n + 1 \in 0 .. N /\ (n + 1) - 1 = n
    BY <1>2
  <2>2. d[n + 1] = (d[n] * f[n + 1]) % R /\ f[n + 1] \in Unit /\ d[n] \in Unit
    BY <1>1, <2>1
  <2>3. d[n + 1] \in Unit
    BY <2>2, UnitProduct
  <2> QED BY <2>1, <2>3
<1> HIDE DEF T, N
<1>4. \A n \in 0 .. N : n \in T
  BY <1>2, <1>3, UpTo
<1>5. N \in T
  BY <1>2, <1>4
<1> QED BY <1>1, <1>5 DEF T, N

(* A product is zero only if a factor is.                                   *)
LEMMA ProductZero ==
  ASSUME NEW f \in Seq(Int)
  PROVE  ProductOf(f) = 0 <=> \E n \in 1 .. Len(f) : Cong(f[n], 0)
<1>1. PICK d \in [0 .. Len(f) -> Scalar] :
        /\ d[0] = 1 /\ ProductOf(f) = d[Len(f)]
        /\ \A n \in 1 .. Len(f) : d[n] = (d[n - 1] * f[n]) % R
  BY ProductSteps
<1> DEFINE N == Len(f)
           T == { n \in 0 .. N : d[n] = 0 <=> \E m \in 1 .. n : Cong(f[m], 0) }
<1>2. N \in Nat /\ 0 \in T
  BY <1>1
<1>3. ASSUME NEW n \in 0 .. (N - 1), n \in T
      PROVE  n + 1 \in T
  <2>1. n + 1 \in 1 .. N /\ n + 1 \in 0 .. N /\ (n + 1) - 1 = n /\ n \in Nat
    BY <1>2
  <2>2. d[n + 1] = (d[n] * f[n + 1]) % R /\ f[n + 1] \in Int /\ d[n] \in Scalar
    BY <1>1, <2>1
  <2> DEFINE p == d[n] * f[n + 1]
  <2>3. p \in Int /\ d[n + 1] = p % R
    BY <2>2, ROrder
  <2> HIDE DEF p
  <2>4. d[n + 1] = 0 <=> Cong(p, 0)
    <3>1. ASSUME d[n + 1] = 0 PROVE Cong(p, 0)
      BY <2>3, <3>1, Remainder, CongSym
    <3>2. ASSUME Cong(p, 0) PROVE d[n + 1] = 0
      <4>1. Cong(p % R, 0)
        BY <2>3, <3>2, Remainder, CongTrans
      <4>2. p % R \in Scalar /\ 0 \in Scalar
        BY <2>3, Remainder, ROrder
      <4> QED BY <2>3, <4>1, <4>2, CongScalar
    <3> QED BY <3>1, <3>2
  <2>5. Cong(p, 0) <=> d[n] = 0 \/ Cong(f[n + 1], 0)
    <3>1. ASSUME d[n] = 0 PROVE Cong(p, 0)
      <4>1. p = 0 + 0 * R
        BY <2>2, <3>1, ROrder DEF p
      <4> QED BY <4>1 DEF Cong
    <3>2. ASSUME Cong(f[n + 1], 0) PROVE Cong(p, 0)
      <4>1. PICK k \in Int : f[n + 1] = 0 + k * R
        BY <3>2 DEF Cong
      <4>2. d[n] \in Int
        BY <2>2, ROrder
      <4>3. p = 0 + (d[n] * k) * R /\ d[n] * k \in Int
        BY <4>1, <4>2, ROrder DEF p
      <4> QED BY <4>3 DEF Cong
    <3>3. ASSUME Cong(p, 0), d[n] # 0 PROVE Cong(f[n + 1], 0)
      <4>1. d[n] \in Unit
        BY <2>2, <3>3 DEF Scalar, Unit
      <4> QED BY <2>2, <3>3, <4>1, NoZeroDivisors DEF p
    <3> QED BY <3>1, <3>2, <3>3
  <2>6. d[n] = 0 <=> \E m \in 1 .. n : Cong(f[m], 0)
    BY <1>3
  <2>7. \A m : m \in 1 .. (n + 1) <=> m \in 1 .. n \/ m = n + 1
    BY <2>1
  <2>8. d[n + 1] = 0 <=> \E m \in 1 .. (n + 1) : Cong(f[m], 0)
    BY <2>4, <2>5, <2>6, <2>7
  <2> QED BY <2>1, <2>8
<1> HIDE DEF T, N
<1>4. \A n \in 0 .. N : n \in T
  BY <1>2, <1>3, UpTo
<1>5. N \in T
  BY <1>2, <1>4
<1> QED BY <1>1, <1>5 DEF T, N

(* What a sequence of scalars consists of.                                  *)
LEMMA Coefficients ==
  ASSUME NEW p \in Seq(Scalar)
  PROVE  /\ Len(p) \in Nat /\ DOMAIN p = 1 .. Len(p)
         /\ \A i \in 1 .. Len(p) : p[i] \in Scalar /\ p[i] \in Int
<1>1. Len(p) \in Nat /\ DOMAIN p = 1 .. Len(p) /\ \A i \in 1 .. Len(p) : p[i] \in Scalar
  OBVIOUS
<1> QED BY <1>1, ROrder

(* Horner's rule takes one coefficient after the other, from the highest.   *)
LEMMA HornerSteps ==
  ASSUME NEW p \in Seq(Scalar), NEW x \in Int
  PROVE  \E h \in [0 .. Len(p) -> Scalar] :
           /\ h[0] = 0 /\ Evaluate(p, x) = h[Len(p)]
           /\ \A n \in 1 .. Len(p) : h[n] = (p[Len(p) + 1 - n] + x * h[n - 1]) % R
<1> DEFINE N == Len(p)
           G == [q \in Scalar \X (1 .. N) |-> (p[N + 1 - q[2]] + x * q[1]) % R]
           IsRec(h) == h = [n \in 0 .. N |-> IF n = 0 THEN 0 ELSE (p[N + 1 - n] + x * h[n - 1]) % R]
<1>1. N \in Nat /\ 0 \in Scalar /\ \A n \in 1 .. N : p[N + 1 - n] \in Int
  <2>1. N \in Nat /\ 0 \in Scalar /\ \A i \in 1 .. N : p[i] \in Int
    BY Coefficients, ROrder
  <2> HIDE DEF N
  <2>2. \A n \in 1 .. N : N + 1 - n \in 1 .. N
    BY <2>1
  <2> QED BY <2>1, <2>2
<1>2. \A a \in Scalar, n \in 1 .. N : (p[N + 1 - n] + x * a) % R \in Scalar
  <2> SUFFICES ASSUME NEW a \in Scalar, NEW n \in 1 .. N
               PROVE  (p[N + 1 - n] + x * a) % R \in Scalar
    OBVIOUS
  <2>1. p[N + 1 - n] + x * a \in Int
    BY <1>1, ROrder
  <2> QED BY <2>1, Remainder
<1>3. G \in [Scalar \X (1 .. N) -> Scalar]
  BY <1>2
<1>4. \A a \in Scalar, n \in 1 .. N : G[<<a, n>>] = (p[N + 1 - n] + x * a) % R
  OBVIOUS
<1> HIDE DEF G, N
<1>5. PICK g : Steps(g, N, Scalar, 0, G)
  BY <1>1, <1>3, Recursion
<1>6. IsRec(g)
  <2>1. g = [n \in 0 .. N |-> g[n]] /\ g[0] = 0
    BY <1>5 DEF Steps
  <2>2. \A n \in 0 .. N : n # 0 => n \in 1 .. N /\ n - 1 \in 0 .. N
    BY <1>1
  <2>3. \A n \in 0 .. N : n # 0 => g[n] = (p[N + 1 - n] + x * g[n - 1]) % R
    BY <1>4, <1>5, <2>2 DEF Steps
  <2>4. \A n \in 0 .. N : g[n] = IF n = 0 THEN 0 ELSE (p[N + 1 - n] + x * g[n - 1]) % R
    BY <2>1, <2>3
  <2> QED BY <2>1, <2>4
<1> DEFINE h == CHOOSE k : IsRec(k)
<1>7. IsRec(h)
  BY <1>6
<1>8. Evaluate(p, x) = h[N]
  BY DEF Evaluate, N
<1> HIDE DEF h
<1>9. h[0] = 0 /\ \A n \in 1 .. N : h[n] = (p[N + 1 - n] + x * h[n - 1]) % R
  BY <1>1, <1>7
<1>10. \A n \in 0 .. N : h[n] \in Scalar
  <2> DEFINE T == { n \in 0 .. N : h[n] \in Scalar }
  <2>1. 0 \in T
    BY <1>1, <1>9
  <2>2. \A n \in 0 .. (N - 1) : n \in T => n + 1 \in T
    <3> SUFFICES ASSUME NEW n \in 0 .. (N - 1), n \in T PROVE n + 1 \in T
      OBVIOUS
    <3>1. n + 1 \in 1 .. N /\ n + 1 \in 0 .. N /\ (n + 1) - 1 = n
      BY <1>1
    <3>2. h[n + 1] = (p[N + 1 - (n + 1)] + x * h[n]) % R
      BY <1>9, <3>1
    <3>3. h[n + 1] \in Scalar
      BY <1>2, <3>1, <3>2
    <3> QED BY <3>1, <3>3
  <2> HIDE DEF T
  <2>3. \A n \in 0 .. N : n \in T
    BY <1>1, <2>1, <2>2, UpTo
  <2> QED BY <2>3 DEF T
<1>11. h \in [0 .. N -> Scalar]
  BY <1>7, <1>10
<1> QED BY <1>8, <1>9, <1>11 DEF N

(* The shape of the two operations on coefficients.                         *)
LEMMA MulLinearShape ==
  ASSUME NEW p \in Seq(Scalar), NEW y \in Int
  PROVE  /\ MulLinear(p, y) \in Seq(Scalar) /\ Len(MulLinear(p, y)) = Len(p) + 1
         /\ \A i \in 1 .. (Len(p) + 1) : \E k \in Int :
              MulLinear(p, y)[i] = (IF i <= Len(p) THEN y * p[i] ELSE 0)
                                     - (IF i > 1 THEN p[i - 1] ELSE 0) + k * R
<1> DEFINE N == Len(p)
           c(i) == (IF i <= N THEN y * p[i] ELSE 0) - (IF i > 1 THEN p[i - 1] ELSE 0)
           q == MulLinear(p, y)
<1>1. N \in Nat /\ N + 1 \in Nat /\ \A i \in 1 .. N : p[i] \in Int
  BY Coefficients
<1>2. \A i \in 1 .. (N + 1) : c(i) \in Int
  <2> SUFFICES ASSUME NEW i \in 1 .. (N + 1) PROVE c(i) \in Int
    OBVIOUS
  <2>1. i <= N => y * p[i] \in Int
    BY <1>1
  <2>2. i > 1 => p[i - 1] \in Int
    BY <1>1
  <2> QED BY <2>1, <2>2
<1>3. q = [i \in 1 .. (N + 1) |-> c(i) % R]
  BY DEF MulLinear
<1> HIDE DEF c, q, N
<1>4. \A i \in 1 .. (N + 1) : c(i) % R \in Scalar /\ \E k \in Int : c(i) % R = c(i) + k * R
  BY <1>2, Remainder
<1>5. q \in [1 .. (N + 1) -> Scalar]
  BY <1>3, <1>4
<1>6. q \in Seq(Scalar) /\ Len(q) = N + 1
  BY <1>1, <1>5
<1>7. \A i \in 1 .. (N + 1) : \E k \in Int : q[i] = c(i) + k * R
  BY <1>3, <1>4
<1> QED BY <1>6, <1>7 DEF c, q, N

(* The same of a sum.                                                       *)
LEMMA AddScaledShape ==
  ASSUME NEW p \in Seq(Scalar), NEW c \in Int, NEW q \in Seq(Scalar)
  PROVE  /\ AddScaled(p, c, q) \in Seq(Scalar) /\ Len(AddScaled(p, c, q)) = Len(q)
         /\ \A i \in 1 .. Len(q) : \E k \in Int :
              AddScaled(p, c, q)[i] = (IF i <= Len(p) THEN p[i] ELSE 0) + c * q[i] + k * R
<1> DEFINE N == Len(q)
           s(i) == (IF i <= Len(p) THEN p[i] ELSE 0) + c * q[i]
           r == AddScaled(p, c, q)
<1>1. N \in Nat /\ DOMAIN q = 1 .. N /\ \A i \in 1 .. N : q[i] \in Int
  BY Coefficients
<1>2. \A i \in 1 .. N : s(i) \in Int
  <2> SUFFICES ASSUME NEW i \in 1 .. N PROVE s(i) \in Int
    OBVIOUS
  <2>1. i <= Len(p) => p[i] \in Int
    BY <1>1, Coefficients
  <2>2. c * q[i] \in Int
    BY <1>1
  <2> QED BY <2>1, <2>2
<1>3. r = [i \in 1 .. N |-> s(i) % R]
  BY <1>1 DEF AddScaled
<1> HIDE DEF s, r, N
<1>4. \A i \in 1 .. N : s(i) % R \in Scalar /\ \E k \in Int : s(i) % R = s(i) + k * R
  BY <1>2, Remainder
<1>5. r \in [1 .. N -> Scalar]
  BY <1>3, <1>4
<1>6. r \in Seq(Scalar) /\ Len(r) = N
  BY <1>1, <1>5
<1>7. \A i \in 1 .. N : \E k \in Int : r[i] = s(i) + k * R
  BY <1>3, <1>4
<1> QED BY <1>6, <1>7 DEF s, r, N

-----------------------------------------------------------------------------
(* The value of a polynomial after each of the three operations.            *)

(* Adding multiples of R to the terms of a congruence changes nothing: the  *)
(* two ways of writing one step of Horner's rule for p(x) * (y - x).        *)
LEMMA MulLinearStep ==
  ASSUME NEW x \in Int, NEW y \in Int, NEW hp \in Int, NEW top \in Int, NEW below \in Int,
         NEW hq \in Int, NEW q \in Int, NEW hp1 \in Int, NEW hq1 \in Int,
         NEW k1 \in Int, hq = (y - x) * hp - top + k1 * R,
         NEW k2 \in Int, q = y * top - below + k2 * R,
         NEW k3 \in Int, hp1 = top + x * hp + k3 * R,
         NEW k4 \in Int, hq1 = q + x * hq + k4 * R
  PROVE  Cong(hq1, (y - x) * hp1 - below)
<1> DEFINE k == k4 + k2 + x * k1 - (y - x) * k3
<1>1. k \in Int
  OBVIOUS
<1>2. hq1 = ((y - x) * hp1 - below) + k * R
  BY ROrder
<1> QED BY <1>1, <1>2 DEF Cong

(* MulLinear multiplies by (y - x).                                         *)
LEMMA EvaluateMulLinear ==
  ASSUME NEW p \in Seq(Scalar), NEW y \in Int, NEW x \in Int
  PROVE  Cong(Evaluate(MulLinear(p, y), x), (y - x) * Evaluate(p, x))
<1> DEFINE N == Len(p)
           q == MulLinear(p, y)
           below(n) == IF n < N THEN p[N - n] ELSE 0
<1>1. /\ N \in Nat /\ q \in Seq(Scalar) /\ Len(q) = N + 1
      /\ \A i \in 1 .. N : p[i] \in Int
  BY Coefficients, MulLinearShape
<1>2. PICK hp \in [0 .. N -> Scalar] :
        /\ hp[0] = 0 /\ Evaluate(p, x) = hp[N]
        /\ \A n \in 1 .. N : hp[n] = (p[N + 1 - n] + x * hp[n - 1]) % R
  BY HornerSteps
<1>3. PICK hq \in [0 .. (N + 1) -> Scalar] :
        /\ hq[0] = 0 /\ Evaluate(q, x) = hq[N + 1]
        /\ \A n \in 1 .. (N + 1) : hq[n] = (q[N + 2 - n] + x * hq[n - 1]) % R
  <2>1. PICK h \in [0 .. Len(q) -> Scalar] :
          /\ h[0] = 0 /\ Evaluate(q, x) = h[Len(q)]
          /\ \A n \in 1 .. Len(q) : h[n] = (q[Len(q) + 1 - n] + x * h[n - 1]) % R
    BY <1>1, HornerSteps
  <2> HIDE DEF q, N
  <2>2. \A n \in 1 .. (N + 1) : (N + 1) + 1 - n = N + 2 - n
    BY <1>1
  <2> QED BY <1>1, <2>1, <2>2
<1>4. \A i \in 1 .. (N + 1) : q[i] \in Int /\
        \E k \in Int : q[i] = (IF i <= N THEN y * p[i] ELSE 0)
                                - (IF i > 1 THEN p[i - 1] ELSE 0) + k * R
  BY <1>1, MulLinearShape, Coefficients
<1>5. /\ \A n \in 0 .. N : hp[n] \in Int
      /\ \A n \in 0 .. (N + 1) : hq[n] \in Int
  BY <1>2, <1>3, ROrder
<1> HIDE DEF q, N
<1>6. \A n \in 0 .. N : below(n) \in Int
  BY <1>1
<1> DEFINE T == { n \in 0 .. N : Cong(hq[n + 1], (y - x) * hp[n] - below(n)) }
<1>7. 0 \in T
  <2>1. /\ hq[1] = (q[N + 1] + x * hq[0]) % R /\ hq[0] = 0 /\ hp[0] = 0
        /\ q[N + 1] \in Int /\ N + 1 \in 1 .. (N + 1)
    BY <1>1, <1>2, <1>3, <1>4
  <2>2. hq[1] = q[N + 1] % R
    BY <2>1
  <2>3. ASSUME NEW i \in 1 .. (N + 1), i = N + 1
        PROVE  \E k \in Int : q[i] = 0 - below(0) + k * R
    <3>1. PICK k \in Int : q[i] = (IF i <= N THEN y * p[i] ELSE 0)
                                    - (IF i > 1 THEN p[i - 1] ELSE 0) + k * R
      BY <1>4
    <3>2. ~(i <= N) /\ (IF i > 1 THEN p[i - 1] ELSE 0) = below(0)
      <4>1. (i > 1 <=> 0 < N) /\ i - 1 = N - 0
        BY <1>1, <2>3
      <4>2. ~(i <= N)
        BY <1>1, <2>3
      <4> QED BY <4>1, <4>2
    <3> QED BY <3>1, <3>2
  <2>4. PICK k \in Int : q[N + 1] = 0 - below(0) + k * R
    BY <2>1, <2>3
  <2>5. PICK l \in Int : hq[1] = q[N + 1] + l * R
    BY <2>1, <2>2, Remainder
  <2>6. hq[0 + 1] = ((y - x) * hp[0] - below(0)) + (k + l) * R
    BY <1>1, <1>6, <2>1, <2>4, <2>5, ROrder
  <2>7. Cong(hq[0 + 1], (y - x) * hp[0] - below(0))
    BY <2>6 DEF Cong
  <2> QED BY <1>1, <2>7
<1>8. ASSUME NEW n \in 0 .. (N - 1), n \in T
      PROVE  n + 1 \in T
  <2> DEFINE top == p[N - n]
  <2>1. /\ n \in 0 .. N /\ n + 1 \in 0 .. N /\ n + 1 \in 1 .. N /\ n + 2 \in 1 .. (N + 1)
        /\ N - n \in 1 .. N /\ N - n \in 1 .. (N + 1)
        /\ (n + 1) - 1 = n /\ (n + 2) - 1 = n + 1 /\ (n + 1) + 1 = n + 2
        /\ N + 1 - (n + 1) = N - n /\ N + 2 - (n + 2) = N - n
        /\ n + 1 \in 0 .. (N + 1) /\ n + 2 \in 0 .. (N + 1)
    BY <1>1
  <2>2. below(n) = top /\ top \in Int
    BY <1>1, <2>1
  <2>3. hp[n + 1] = (top + x * hp[n]) % R /\ hq[n + 2] = (q[N - n] + x * hq[n + 1]) % R
    BY <1>2, <1>3, <2>1
  <2>4. /\ hp[n] \in Int /\ hp[n + 1] \in Int /\ hq[n + 1] \in Int /\ hq[n + 2] \in Int
        /\ q[N - n] \in Int /\ below(n + 1) \in Int
    BY <1>4, <1>5, <1>6, <2>1
  <2>5. PICK k1 \in Int : hq[n + 1] = (y - x) * hp[n] - top + k1 * R
    BY <1>8, <2>2 DEF Cong
  <2>6. PICK k2 \in Int : q[N - n] = y * top - below(n + 1) + k2 * R
    <3>1. PICK k \in Int : q[N - n] = (IF N - n <= N THEN y * p[N - n] ELSE 0)
                                        - (IF N - n > 1 THEN p[N - n - 1] ELSE 0) + k * R
      BY <1>4, <2>1
    <3>2. N - n <= N
      BY <1>1, <2>1
    <3>3. (IF N - n > 1 THEN p[N - n - 1] ELSE 0) = below(n + 1)
      <4>1. (N - n > 1 <=> n + 1 < N) /\ N - n - 1 = N - (n + 1)
        BY <1>1, <2>1
      <4> QED BY <4>1
    <3> HIDE DEF below
    <3> QED BY <3>1, <3>2, <3>3
  <2> HIDE DEF below
  <2>7. PICK k3 \in Int : hp[n + 1] = top + x * hp[n] + k3 * R
    <3>1. top + x * hp[n] \in Int
      BY <2>2, <2>4
    <3> QED BY <2>3, <3>1, Remainder
  <2>8. PICK k4 \in Int : hq[n + 2] = q[N - n] + x * hq[n + 1] + k4 * R
    <3>1. q[N - n] + x * hq[n + 1] \in Int
      BY <2>4
    <3> QED BY <2>3, <3>1, Remainder
  <2> DEFINE u == hp[n]
             u1 == hp[n + 1]
             w == hq[n + 1]
             w1 == hq[n + 2]
             c == q[N - n]
             b == below(n + 1)
  <2>9. Cong(w1, (y - x) * u1 - b)
    <3>1. /\ u \in Int /\ u1 \in Int /\ w \in Int /\ w1 \in Int
          /\ c \in Int /\ b \in Int /\ top \in Int
      BY <2>2, <2>4
    <3>2. /\ w = (y - x) * u - top + k1 * R
          /\ c = y * top - b + k2 * R
          /\ u1 = top + x * u + k3 * R
          /\ w1 = c + x * w + k4 * R
      BY <2>5, <2>6, <2>7, <2>8
    <3> HIDE DEF u, u1, w, w1, c, b, top
    <3> QED BY <3>1, <3>2, MulLinearStep
  <2>10. Cong(hq[(n + 1) + 1], (y - x) * hp[n + 1] - below(n + 1))
    BY <2>1, <2>9
  <2> QED BY <2>1, <2>10
<1> HIDE DEF T
<1>9. \A n \in 0 .. N : n \in T
  BY <1>1, <1>7, <1>8, UpTo
<1>10. Cong(hq[N + 1], (y - x) * hp[N] - below(N)) /\ below(N) = 0
  BY <1>1, <1>9 DEF T
<1>11. (y - x) * hp[N] - 0 = (y - x) * hp[N]
  BY <1>1, <1>5
<1> QED BY <1>2, <1>3, <1>10, <1>11 DEF q

(* One step of Horner's rule for p(x) + c * q(x).                           *)
LEMMA AddScaledStep ==
  ASSUME NEW x \in Int, NEW c \in Int, NEW hp \in Int, NEW hq \in Int, NEW hr \in Int,
         NEW a \in Int, NEW b \in Int, NEW r \in Int,
         NEW hp1 \in Int, NEW hq1 \in Int, NEW hr1 \in Int,
         NEW k1 \in Int, hr = hp + c * hq + k1 * R,
         NEW k2 \in Int, r = a + c * b + k2 * R,
         NEW k3 \in Int, hp1 = a + x * hp + k3 * R,
         NEW k4 \in Int, hq1 = b + x * hq + k4 * R,
         NEW k5 \in Int, hr1 = r + x * hr + k5 * R
  PROVE  Cong(hr1, hp1 + c * hq1)
<1> DEFINE k == k5 + k2 + x * k1 - k3 - c * k4
<1>1. k \in Int
  OBVIOUS
<1>2. hr1 = (hp1 + c * hq1) + k * R
  BY ROrder
<1> QED BY <1>1, <1>2 DEF Cong

(* AddScaled adds c times the second polynomial, which has one coefficient  *)
(* more than the first.                                                     *)
LEMMA EvaluateAddScaled ==
  ASSUME NEW p \in Seq(Scalar), NEW c \in Int, NEW q \in Seq(Scalar),
         Len(q) = Len(p) + 1, NEW x \in Int
  PROVE  Cong(Evaluate(AddScaled(p, c, q), x), Evaluate(p, x) + c * Evaluate(q, x))
<1> DEFINE N == Len(p)
           r == AddScaled(p, c, q)
<1>1. /\ N \in Nat /\ r \in Seq(Scalar) /\ Len(r) = N + 1 /\ Len(q) = N + 1
      /\ \A i \in 1 .. N : p[i] \in Int
      /\ \A i \in 1 .. (N + 1) : q[i] \in Int /\ r[i] \in Int
  BY Coefficients, AddScaledShape
<1>2. PICK hp \in [0 .. N -> Scalar] :
        /\ hp[0] = 0 /\ Evaluate(p, x) = hp[N]
        /\ \A n \in 1 .. N : hp[n] = (p[N + 1 - n] + x * hp[n - 1]) % R
  BY HornerSteps
<1>3. ASSUME NEW s \in Seq(Scalar), Len(s) = N + 1
      PROVE  \E h \in [0 .. (N + 1) -> Scalar] :
               /\ h[0] = 0 /\ Evaluate(s, x) = h[N + 1]
               /\ \A n \in 1 .. (N + 1) : h[n] = (s[N + 2 - n] + x * h[n - 1]) % R
  <2>1. PICK h \in [0 .. Len(s) -> Scalar] :
          /\ h[0] = 0 /\ Evaluate(s, x) = h[Len(s)]
          /\ \A n \in 1 .. Len(s) : h[n] = (s[Len(s) + 1 - n] + x * h[n - 1]) % R
    BY HornerSteps
  <2> HIDE DEF N
  <2>2. \A n \in 1 .. (N + 1) : (N + 1) + 1 - n = N + 2 - n
    BY <1>1
  <2> QED BY <1>3, <2>1, <2>2
<1>4. PICK hq \in [0 .. (N + 1) -> Scalar] :
        /\ hq[0] = 0 /\ Evaluate(q, x) = hq[N + 1]
        /\ \A n \in 1 .. (N + 1) : hq[n] = (q[N + 2 - n] + x * hq[n - 1]) % R
  BY <1>1, <1>3
<1>5. PICK hr \in [0 .. (N + 1) -> Scalar] :
        /\ hr[0] = 0 /\ Evaluate(r, x) = hr[N + 1]
        /\ \A n \in 1 .. (N + 1) : hr[n] = (r[N + 2 - n] + x * hr[n - 1]) % R
  <2> HIDE DEF r, N
  <2> QED BY <1>1, <1>3
<1>6. \A i \in 1 .. (N + 1) :
        \E k \in Int : r[i] = (IF i <= N THEN p[i] ELSE 0) + c * q[i] + k * R
  BY <1>1, AddScaledShape
<1>7. /\ \A n \in 0 .. N : hp[n] \in Int
      /\ \A n \in 0 .. (N + 1) : hq[n] \in Int /\ hr[n] \in Int
  BY <1>2, <1>4, <1>5, ROrder
<1> HIDE DEF r, N
<1> DEFINE T == { n \in 0 .. N : Cong(hr[n + 1], hp[n] + c * hq[n + 1]) }
<1>8. 0 \in T
  <2>1. /\ N + 1 \in 1 .. (N + 1) /\ 1 \in 1 .. (N + 1) /\ 1 - 1 = 0 /\ N + 2 - 1 = N + 1
        /\ 1 \in 0 .. (N + 1)
    BY <1>1
  <2> DEFINE a == q[N + 1]
             b == r[N + 1]
             f == hq[1]
             g == hr[1]
  <2>2. a \in Int /\ b \in Int /\ f \in Int /\ g \in Int
    BY <1>1, <1>7, <2>1
  <2>3. f = a % R /\ g = b % R
    <3>1. f = (a + x * 0) % R /\ g = (b + x * 0) % R
      BY <1>4, <1>5, <2>1
    <3>2. a + x * 0 = a /\ b + x * 0 = b
      BY <2>2
    <3> QED BY <3>1, <3>2
  <2>4. ASSUME NEW i \in 1 .. (N + 1), i = N + 1
        PROVE  \E k \in Int : r[i] = c * q[i] + k * R
    <3>1. ~(i <= N) /\ q[i] \in Int /\ c * q[i] \in Int
      BY <1>1, <2>4
    <3>2. PICK k \in Int : r[i] = (IF i <= N THEN p[i] ELSE 0) + c * q[i] + k * R
      BY <1>6
    <3>3. r[i] = c * q[i] + k * R
      BY <3>1, <3>2
    <3> QED BY <3>3
  <2>5. PICK k1 \in Int : b = c * a + k1 * R
    BY <2>1, <2>4
  <2> HIDE DEF a, b, f, g
  <2>6. PICK k2 \in Int : f = a + k2 * R
    BY <2>2, <2>3, Remainder
  <2>7. PICK k3 \in Int : g = b + k3 * R
    BY <2>2, <2>3, Remainder
  <2>8. g = 0 + c * f + (k1 + k3 - c * k2) * R /\ k1 + k3 - c * k2 \in Int
    BY <2>2, <2>5, <2>6, <2>7, ROrder
  <2>9. Cong(g, 0 + c * f)
    BY <2>8 DEF Cong
  <2> QED BY <1>1, <1>2, <2>9 DEF f, g
<1>9. ASSUME NEW n \in 0 .. (N - 1), n \in T
      PROVE  n + 1 \in T
  <2>1. /\ n \in 0 .. N /\ n + 1 \in 0 .. N /\ n + 1 \in 1 .. N /\ n + 2 \in 1 .. (N + 1)
        /\ N - n \in 1 .. N /\ N - n \in 1 .. (N + 1) /\ N - n <= N
        /\ (n + 1) - 1 = n /\ (n + 2) - 1 = n + 1 /\ (n + 1) + 1 = n + 2
        /\ N + 1 - (n + 1) = N - n /\ N + 2 - (n + 2) = N - n
        /\ n + 1 \in 0 .. (N + 1) /\ n + 2 \in 0 .. (N + 1)
    BY <1>1
  <2> DEFINE a == p[N - n]
             b == q[N - n]
             d == r[N - n]
             u == hp[n]
             u1 == hp[n + 1]
             v == hq[n + 1]
             v1 == hq[n + 2]
             w == hr[n + 1]
             w1 == hr[n + 2]
  <2>2. /\ a \in Int /\ b \in Int /\ d \in Int /\ u \in Int /\ u1 \in Int
        /\ v \in Int /\ v1 \in Int /\ w \in Int /\ w1 \in Int
    BY <1>1, <1>7, <2>1
  <2>3. u1 = (a + x * u) % R /\ v1 = (b + x * v) % R /\ w1 = (d + x * w) % R
    BY <1>2, <1>4, <1>5, <2>1
  <2>4. PICK k1 \in Int : w = u + c * v + k1 * R
    BY <1>9 DEF Cong
  <2>5. PICK k2 \in Int : d = a + c * b + k2 * R
    BY <1>6, <2>1
  <2> HIDE DEF a, b, d, u, u1, v, v1, w, w1
  <2>6. PICK k3 \in Int : u1 = a + x * u + k3 * R
    <3>1. a + x * u \in Int BY <2>2
    <3> QED BY <2>3, <3>1, Remainder
  <2>7. PICK k4 \in Int : v1 = b + x * v + k4 * R
    <3>1. b + x * v \in Int BY <2>2
    <3> QED BY <2>3, <3>1, Remainder
  <2>8. PICK k5 \in Int : w1 = d + x * w + k5 * R
    <3>1. d + x * w \in Int BY <2>2
    <3> QED BY <2>3, <3>1, Remainder
  <2>9. Cong(w1, u1 + c * v1)
    BY <2>2, <2>4, <2>5, <2>6, <2>7, <2>8, AddScaledStep
  <2>10. Cong(hr[(n + 1) + 1], hp[n + 1] + c * hq[(n + 1) + 1])
    BY <2>1, <2>9 DEF w1, u1, v1
  <2> QED BY <2>1, <2>10
<1> HIDE DEF T
<1>10. \A n \in 0 .. N : n \in T
  BY <1>1, <1>8, <1>9, UpTo
<1>11. Cong(hr[N + 1], hp[N] + c * hq[N + 1])
  BY <1>1, <1>10 DEF T
<1> QED BY <1>2, <1>4, <1>5, <1>11 DEF r

(* Multiplying every coefficient multiplies the value.                      *)
LEMMA EvaluateScaled ==
  ASSUME NEW p \in Seq(Scalar), NEW c \in Int, NEW x \in Int
  PROVE  LET q == [i \in DOMAIN p |-> (p[i] * c) % R]
         IN  q \in Seq(Scalar) /\ Cong(Evaluate(q, x), Evaluate(p, x) * c)
<1> DEFINE N == Len(p)
           q == [i \in DOMAIN p |-> (p[i] * c) % R]
<1>1. N \in Nat /\ DOMAIN p = 1 .. N /\ \A i \in 1 .. N : p[i] \in Int
  BY Coefficients
<1>2. \A i \in 1 .. N : (p[i] * c) % R \in Scalar /\ \E k \in Int : (p[i] * c) % R = p[i] * c + k * R
  <2> SUFFICES ASSUME NEW i \in 1 .. N
               PROVE  (p[i] * c) % R \in Scalar /\ \E k \in Int : (p[i] * c) % R = p[i] * c + k * R
    OBVIOUS
  <2>1. p[i] * c \in Int
    BY <1>1
  <2> QED BY <2>1, Remainder
<1>3. q \in Seq(Scalar) /\ Len(q) = N /\ DOMAIN q = 1 .. N
  <2>1. q \in [1 .. N -> Scalar]
    BY <1>1, <1>2
  <2> HIDE DEF q, N
  <2> QED BY <1>1, <2>1
<1>4. \A i \in 1 .. N : q[i] \in Int /\ \E k \in Int : q[i] = p[i] * c + k * R
  BY <1>1, <1>2, ROrder
<1>5. PICK hp \in [0 .. N -> Scalar] :
        /\ hp[0] = 0 /\ Evaluate(p, x) = hp[N]
        /\ \A n \in 1 .. N : hp[n] = (p[N + 1 - n] + x * hp[n - 1]) % R
  BY HornerSteps
<1> HIDE DEF q, N
<1>6. PICK hq \in [0 .. N -> Scalar] :
        /\ hq[0] = 0 /\ Evaluate(q, x) = hq[N]
        /\ \A n \in 1 .. N : hq[n] = (q[N + 1 - n] + x * hq[n - 1]) % R
  BY <1>3, HornerSteps
<1>7. \A n \in 0 .. N : hp[n] \in Int /\ hq[n] \in Int
  BY <1>5, <1>6, ROrder
<1> DEFINE T == { n \in 0 .. N : Cong(hq[n], hp[n] * c) }
<1>8. 0 \in T
  <2>1. hq[0] = hp[0] * c + 0 * R
    BY <1>5, <1>6, ROrder
  <2>2. Cong(hq[0], hp[0] * c)
    BY <2>1 DEF Cong
  <2> QED BY <1>1, <2>2
<1>9. ASSUME NEW n \in 0 .. (N - 1), n \in T
      PROVE  n + 1 \in T
  <2>1. /\ n \in 0 .. N /\ n + 1 \in 0 .. N /\ n + 1 \in 1 .. N /\ N - n \in 1 .. N
        /\ (n + 1) - 1 = n /\ N + 1 - (n + 1) = N - n
    BY <1>1
  <2> DEFINE a == p[N - n]
             b == q[N - n]
             u == hp[n]
             u1 == hp[n + 1]
             v == hq[n]
             v1 == hq[n + 1]
  <2>2. a \in Int /\ b \in Int /\ u \in Int /\ u1 \in Int /\ v \in Int /\ v1 \in Int
    BY <1>1, <1>4, <1>7, <2>1
  <2>3. u1 = (a + x * u) % R /\ v1 = (b + x * v) % R
    BY <1>5, <1>6, <2>1
  <2>4. PICK k1 \in Int : v = u * c + k1 * R
    BY <1>9 DEF Cong
  <2>5. PICK k2 \in Int : b = a * c + k2 * R
    BY <1>4, <2>1
  <2> HIDE DEF a, b, u, u1, v, v1
  <2>6. PICK k3 \in Int : u1 = a + x * u + k3 * R
    <3>1. a + x * u \in Int BY <2>2
    <3> QED BY <2>3, <3>1, Remainder
  <2>7. PICK k4 \in Int : v1 = b + x * v + k4 * R
    <3>1. b + x * v \in Int BY <2>2
    <3> QED BY <2>3, <3>1, Remainder
  <2>8. v1 = u1 * c + (k4 + k2 + x * k1 - k3 * c) * R /\ k4 + k2 + x * k1 - k3 * c \in Int
    BY <2>2, <2>4, <2>5, <2>6, <2>7, ROrder
  <2>9. Cong(v1, u1 * c)
    BY <2>8 DEF Cong
  <2> QED BY <2>1, <2>9 DEF u1, v1
<1> HIDE DEF T
<1>10. \A n \in 0 .. N : n \in T
  BY <1>1, <1>8, <1>9, UpTo
<1>11. Cong(hq[N], hp[N] * c)
  BY <1>1, <1>10 DEF T
<1> QED BY <1>3, <1>5, <1>6, <1>11 DEF q

-----------------------------------------------------------------------------
(* The published polynomial.  What is revoked is in the form the            *)
(* construction accumulates, and not the negative of the key.               *)
Revocable(ys) ==
  ys \in Seq(Scalar) /\ \A i \in 1 .. Len(ys) : (ys[i] + Alpha) % R \in Unit

OmegaState == [den : Scalar, prod : Seq(Scalar), sum : Seq(Scalar)]
Start      == [den |-> 1, prod |-> << 1 >>, sum |-> << >>]

(* What one revoked member adds.                                            *)
LEMMA OmegaStepType ==
  ASSUME NEW t \in OmegaState, NEW y \in Scalar, (y + Alpha) % R \in Unit
  PROVE  LET i == inv[(y + Alpha) % R]
             s == OmegaStep(t, y)
         IN  /\ s \in OmegaState
             /\ i \in Unit
             /\ Cong((y + Alpha) * i, 1)
             /\ s.den = (t.den * i) % R
             /\ s.prod = MulLinear(t.prod, y)
             /\ s.sum = AddScaled(t.sum, s.den, t.prod)
<1> DEFINE i == inv[(y + Alpha) % R]
           den == (t.den * i) % R
           s == OmegaStep(t, y)
<1>1. t.den \in Scalar /\ t.prod \in Seq(Scalar) /\ t.sum \in Seq(Scalar)
  BY DEF OmegaState
<1>2. i \in Unit /\ i \in Int /\ Cong(((y + Alpha) % R) * i, 1)
  BY Inverse1
<1>3. y \in Int /\ Alpha \in Int /\ y + Alpha \in Int
  <2>1. y \in Int /\ Alpha \in Int
    BY ROrder, KB21Assumption
  <2> QED BY <2>1
<1>4. Cong((y + Alpha) * i, 1)
  <2> DEFINE a == y + Alpha
             b == a % R
  <2>1. PICK k \in Int : b = a + k * R
    BY <1>3, Remainder
  <2>2. PICK l \in Int : b * i = 1 + l * R
    BY <1>2 DEF Cong
  <2>3. a \in Int /\ b \in Int
    BY <1>3, Remainder
  <2> HIDE DEF a, b, i
  <2>4. a * i = 1 + (l - k * i) * R /\ l - k * i \in Int
    BY <1>2, <2>1, <2>2, <2>3, ROrder
  <2>5. Cong(a * i, 1)
    BY <2>4 DEF Cong
  <2> QED BY <2>5 DEF a
<1>5. den \in Scalar
  <2>1. t.den \in Int
    BY <1>1, ROrder
  <2> HIDE DEF i
  <2>2. t.den * i \in Int
    BY <1>2, <2>1
  <2> QED BY <2>2, Remainder
<1>6. s = [den |-> den, prod |-> MulLinear(t.prod, y), sum |-> AddScaled(t.sum, den, t.prod)]
  BY DEF OmegaStep
<1> HIDE DEF den, s, i
<1>7. MulLinear(t.prod, y) \in Seq(Scalar)
  BY <1>1, <1>3, MulLinearShape
<1>8. AddScaled(t.sum, den, t.prod) \in Seq(Scalar)
  <2>1. den \in Int
    BY <1>5, ROrder
  <2> QED BY <1>1, <2>1, AddScaledShape
<1>9. s \in OmegaState
  BY <1>5, <1>6, <1>7, <1>8 DEF OmegaState
<1> QED BY <1>2, <1>4, <1>6, <1>9 DEF i, s, den

(* The message is built up one revoked member after the other.              *)
LEMMA OmegaSteps ==
  ASSUME NEW ys, Revocable(ys)
  PROVE  \E t \in [0 .. Len(ys) -> OmegaState] :
           /\ t[0] = Start
           /\ \A n \in 1 .. Len(ys) : t[n] = OmegaStep(t[n - 1], ys[n])
           /\ \A old : Omega(ys, old) =
                         [i \in DOMAIN t[Len(ys)].sum |-> (t[Len(ys)].sum[i] * old) % R]
<1> DEFINE N == Len(ys)
           G == [q \in OmegaState \X (1 .. N) |-> OmegaStep(q[1], ys[q[2]])]
           IsRec(t) == t = [n \in 0 .. N |-> IF n = 0 THEN Start ELSE OmegaStep(t[n - 1], ys[n])]
<1>1. /\ N \in Nat
      /\ \A n \in 1 .. N : ys[n] \in Scalar /\ (ys[n] + Alpha) % R \in Unit
  BY Coefficients DEF Revocable
<1>2. Start \in OmegaState
  <2>1. 1 \in Scalar
    BY ROrder DEF Scalar
  <2> QED BY <2>1 DEF Start, OmegaState
<1>3. \A a \in OmegaState, n \in 1 .. N : OmegaStep(a, ys[n]) \in OmegaState
  BY <1>1, OmegaStepType
<1>4. G \in [OmegaState \X (1 .. N) -> OmegaState]
  BY <1>3
<1>5. \A a \in OmegaState, n \in 1 .. N : G[<<a, n>>] = OmegaStep(a, ys[n])
  OBVIOUS
<1> HIDE DEF G, N
<1>6. PICK g : Steps(g, N, OmegaState, Start, G)
  BY <1>1, <1>2, <1>4, Recursion
<1>7. IsRec(g)
  <2>1. g = [n \in 0 .. N |-> g[n]] /\ g[0] = Start
    BY <1>6 DEF Steps
  <2>2. \A n \in 0 .. N : n # 0 => n \in 1 .. N /\ n - 1 \in 0 .. N
    BY <1>1
  <2>3. \A n \in 0 .. N : n # 0 => g[n] = OmegaStep(g[n - 1], ys[n])
    BY <1>5, <1>6, <2>2 DEF Steps
  <2>4. \A n \in 0 .. N : g[n] = IF n = 0 THEN Start ELSE OmegaStep(g[n - 1], ys[n])
    BY <2>1, <2>3
  <2> QED BY <2>1, <2>4
<1> DEFINE t == CHOOSE h : IsRec(h)
<1>8. IsRec(t)
  BY <1>7
<1>9. \A old : Omega(ys, old) = [i \in DOMAIN t[N].sum |-> (t[N].sum[i] * old) % R]
  BY DEF Omega, Start, N
<1> HIDE DEF t
<1>10. t[0] = Start /\ \A n \in 1 .. N : t[n] = OmegaStep(t[n - 1], ys[n])
  BY <1>1, <1>8
<1>11. \A n \in 0 .. N : t[n] \in OmegaState
  <2> DEFINE T == { n \in 0 .. N : t[n] \in OmegaState }
  <2>1. 0 \in T
    BY <1>1, <1>2, <1>10
  <2>2. \A n \in 0 .. (N - 1) : n \in T => n + 1 \in T
    <3> SUFFICES ASSUME NEW n \in 0 .. (N - 1), n \in T PROVE n + 1 \in T
      OBVIOUS
    <3>1. n + 1 \in 1 .. N /\ n + 1 \in 0 .. N /\ (n + 1) - 1 = n
      BY <1>1
    <3>2. t[n + 1] \in OmegaState
      BY <1>3, <1>10, <3>1
    <3> QED BY <3>1, <3>2
  <2> HIDE DEF T
  <2>3. \A n \in 0 .. N : n \in T
    BY <1>1, <2>1, <2>2, UpTo
  <2> QED BY <2>3 DEF T
<1>12. t \in [0 .. N -> OmegaState]
  BY <1>8, <1>11
<1> QED BY <1>9, <1>10, <1>12 DEF N

(* The product of the inverses, which the value is multiplied by.           *)
Shrink(ys) == ProductOf([i \in DOMAIN ys |-> inv[(ys[i] + Alpha) % R]])

(* What one revoked member does to the sum: s, d and z are the sum, the     *)
(* discriminant and the denominator so far, those with a 1 the next.        *)
SumGrows(x, al, y, i, s, d, z, p, s1, d1, z1) ==
  ( /\ Cong(s * (x + al), 1 - d * z) /\ Cong(p, d) /\ Cong((y + al) * i, 1)
    /\ Cong(z1, z * i) /\ Cong(d1, d * (y - x)) /\ Cong(s1, s + z1 * p) )
  => Cong(s1 * (x + al), 1 - d1 * z1)

(* It keeps the equation between them.                                      *)
LEMMA SumStep ==
  ASSUME NEW x \in Int, NEW al \in Int, NEW y \in Int, NEW i \in Int,
         NEW s \in Int, NEW d \in Int, NEW z \in Int, NEW p \in Int,
         NEW s1 \in Int, NEW d1 \in Int, NEW z1 \in Int
  PROVE  SumGrows(x, al, y, i, s, d, z, p, s1, d1, z1)
<1> SUFFICES ASSUME Cong(s * (x + al), 1 - d * z), Cong(p, d), Cong((y + al) * i, 1),
                    Cong(z1, z * i), Cong(d1, d * (y - x)), Cong(s1, s + z1 * p)
             PROVE  Cong(s1 * (x + al), 1 - d1 * z1)
  BY DEF SumGrows
<1>a. PICK k1 \in Int : s * (x + al) = 1 - d * z + k1 * R
  BY DEF Cong
<1>b. PICK k2 \in Int : p = d + k2 * R
  BY DEF Cong
<1>c. PICK k3 \in Int : (y + al) * i = 1 + k3 * R
  BY DEF Cong
<1>d. PICK k4 \in Int : z1 = z * i + k4 * R
  BY DEF Cong
<1>e. PICK k5 \in Int : d1 = d * (y - x) + k5 * R
  BY DEF Cong
<1>f. PICK k6 \in Int : s1 = s + z1 * p + k6 * R
  BY DEF Cong
<1>1. s1 * (x + al) = s * (x + al) + z1 * d * (x + al) + (z1 * k2 + k6) * (x + al) * R
  BY <1>b, <1>f, ROrder
<1>2. s1 * (x + al) = 1 - d * z + z1 * d * (x + al) + (k1 + (z1 * k2 + k6) * (x + al)) * R
  BY <1>1, <1>a, ROrder
<1>3. z1 * (y + al) = z + (z * k3 + k4 * (y + al)) * R
  <2>1. z1 * (y + al) = z * ((y + al) * i) + (k4 * (y + al)) * R
    BY <1>d, ROrder
  <2> QED BY <1>c, <2>1, ROrder
<1>4. d1 * z1 = d * (z1 * (y + al)) - d * z1 * (x + al) + (k5 * z1) * R
  BY <1>e, ROrder
<1>5. d1 * z1 = d * z - z1 * d * (x + al) + (d * (z * k3 + k4 * (y + al)) + k5 * z1) * R
  BY <1>3, <1>4, ROrder
<1> DEFINE m == k1 + (z1 * k2 + k6) * (x + al) + (d * (z * k3 + k4 * (y + al)) + k5 * z1)
<1>6. m \in Int
  OBVIOUS
<1>7. s1 * (x + al) = (1 - d1 * z1) + m * R
  BY <1>2, <1>5, ROrder
<1> QED BY <1>6, <1>7 DEF Cong

(* The published polynomial at x, times x + Alpha, is one less the product  *)
(* of the discriminant and the factor the value shrinks by.                 *)
LEMMA OmegaEquation ==
  ASSUME NEW ys, Revocable(ys), NEW old \in Int, NEW x \in Int
  PROVE  /\ Omega(ys, old) \in Seq(Scalar)
         /\ Shrink(ys) \in Unit
         /\ Discriminant(ys, x) \in Scalar
         /\ \E e \in Int : /\ Cong(e * (x + Alpha), 1 - Discriminant(ys, x) * Shrink(ys))
                           /\ Cong(Evaluate(Omega(ys, old), x), e * old)
<1> DEFINE N == Len(ys)
           fd == [i \in DOMAIN ys |-> ys[i] - x]
           fz == [i \in DOMAIN ys |-> inv[(ys[i] + Alpha) % R]]
<1>1. /\ N \in Nat /\ DOMAIN ys = 1 .. N /\ Alpha \in Int
      /\ \A n \in 1 .. N : ys[n] \in Scalar /\ ys[n] \in Int /\ (ys[n] + Alpha) % R \in Unit
  BY Coefficients, KB21Assumption, ROrder DEF Revocable
<1>2. /\ fd \in Seq(Int) /\ Len(fd) = N /\ \A n \in 1 .. N : fd[n] = ys[n] - x
      /\ fz \in Seq(Int) /\ Len(fz) = N
      /\ \A n \in 1 .. N : fz[n] = inv[(ys[n] + Alpha) % R] /\ fz[n] \in Unit
  <2>1. \A n \in 1 .. N : inv[(ys[n] + Alpha) % R] \in Int /\ inv[(ys[n] + Alpha) % R] \in Unit
    BY <1>1, Inverse1
  <2>2. \A n \in 1 .. N : ys[n] - x \in Int
    BY <1>1
  <2>3. fd \in [1 .. N -> Int] /\ fz \in [1 .. N -> Int]
    BY <1>1, <2>1, <2>2
  <2>4. /\ \A n \in 1 .. N : fd[n] = ys[n] - x
        /\ \A n \in 1 .. N : fz[n] = inv[(ys[n] + Alpha) % R]
    BY <1>1
  <2> HIDE DEF N, fd, fz
  <2>5. fd \in Seq(Int) /\ Len(fd) = N
    BY <1>1, <2>3
  <2>6. fz \in Seq(Int) /\ Len(fz) = N
    BY <1>1, <2>3
  <2> QED BY <2>1, <2>4, <2>5, <2>6
<1>3. Discriminant(ys, x) = ProductOf(fd) /\ Shrink(ys) = ProductOf(fz)
  BY DEF Discriminant, Shrink
<1> HIDE DEF N, fd, fz
<1>4. PICK d \in [0 .. N -> Scalar] :
        /\ d[0] = 1 /\ ProductOf(fd) = d[N]
        /\ \A n \in 1 .. N : d[n] = (d[n - 1] * fd[n]) % R
  <2>1. \E d \in [0 .. Len(fd) -> Scalar] :
          /\ d[0] = 1 /\ ProductOf(fd) = d[Len(fd)]
          /\ \A n \in 1 .. Len(fd) : d[n] = (d[n - 1] * fd[n]) % R
    BY <1>2, ProductSteps
  <2> QED BY <1>2, <2>1
<1>5. PICK z \in [0 .. N -> Scalar] :
        /\ z[0] = 1 /\ ProductOf(fz) = z[N]
        /\ \A n \in 1 .. N : z[n] = (z[n - 1] * fz[n]) % R
  <2>1. \E z \in [0 .. Len(fz) -> Scalar] :
          /\ z[0] = 1 /\ ProductOf(fz) = z[Len(fz)]
          /\ \A n \in 1 .. Len(fz) : z[n] = (z[n - 1] * fz[n]) % R
    BY <1>2, ProductSteps
  <2> QED BY <1>2, <2>1
<1>6. PICK t \in [0 .. N -> OmegaState] :
        /\ t[0] = Start
        /\ \A n \in 1 .. N : t[n] = OmegaStep(t[n - 1], ys[n])
        /\ \A o : Omega(ys, o) = [i \in DOMAIN t[N].sum |-> (t[N].sum[i] * o) % R]
  BY OmegaSteps DEF N
<1>7. Shrink(ys) \in Unit
  BY <1>2, <1>3, ProductUnit
<1> DEFINE E(p) == Evaluate(p, x)
           Good(n) == /\ Len(t[n].prod) = n + 1 /\ Len(t[n].sum) = n
                      /\ t[n].den = z[n]
                      /\ Cong(E(t[n].prod), d[n])
                      /\ Cong(E(t[n].sum) * (x + Alpha), 1 - d[n] * z[n])
           T == { n \in 0 .. N : Good(n) }
<1>8. \A p \in Seq(Scalar) : E(p) \in Int
  <2> SUFFICES ASSUME NEW p \in Seq(Scalar) PROVE E(p) \in Int
    OBVIOUS
  <2>1. PICK h \in [0 .. Len(p) -> Scalar] :
          /\ h[0] = 0 /\ Evaluate(p, x) = h[Len(p)]
          /\ \A n \in 1 .. Len(p) : h[n] = (p[Len(p) + 1 - n] + x * h[n - 1]) % R
    BY HornerSteps
  <2> QED BY <2>1, ROrder, Coefficients
<1>9. 0 \in T
  <2>1. t[0].den = 1 /\ t[0].prod = << 1 >> /\ t[0].sum = << >>
    BY <1>6 DEF Start
  <2>2. d[0] = 1 /\ z[0] = 1 /\ 0 \in 0 .. N
    BY <1>1, <1>4, <1>5
  <2>3. << 1 >> \in Seq(Scalar) /\ << >> \in Seq(Scalar)
    BY ROrder DEF Scalar
  <2>4. E(<< >>) = 0
    BY <2>3, HornerSteps
  <2>5. Cong(E(<< 1 >>), 1)
    <3>1. PICK h \in [0 .. 1 -> Scalar] :
            h[0] = 0 /\ E(<< 1 >>) = h[1] /\ h[1] = (<< 1 >>[1 + 1 - 1] + x * h[1 - 1]) % R
      <4>1. Len(<< 1 >>) = 1 /\ 1 \in 1 .. 1
        OBVIOUS
      <4> QED BY <2>3, <4>1, HornerSteps
    <3>2. h[1] = (1 + x * 0) % R
      BY <3>1
    <3>3. 1 + x * 0 = 1
      OBVIOUS
    <3> QED BY <3>1, <3>2, <3>3, Remainder
  <2>6. Cong(E(<< >>) * (x + Alpha), 1 - d[0] * z[0])
    <3>1. E(<< >>) * (x + Alpha) = (1 - d[0] * z[0]) + 0 * R
      BY <1>1, <2>2, <2>4, ROrder
    <3> QED BY <3>1 DEF Cong
  <2>7. Good(0)
    BY <2>1, <2>2, <2>5, <2>6
  <2> QED BY <2>2, <2>7
<1>10. ASSUME NEW n \in 0 .. (N - 1), n \in T
       PROVE  n + 1 \in T
  <2>1. n + 1 \in 1 .. N /\ n + 1 \in 0 .. N /\ n \in 0 .. N /\ (n + 1) - 1 = n /\ n \in Nat
    BY <1>1
  <2> DEFINE y == ys[n + 1]
             i == inv[(y + Alpha) % R]
             s == t[n]
             s1 == t[n + 1]
  <2>2. y \in Scalar /\ y \in Int /\ (y + Alpha) % R \in Unit /\ s \in OmegaState
    BY <1>1, <1>6, <2>1
  <2>3. s1 = OmegaStep(s, y)
    BY <1>6, <2>1
  <2>4. /\ s1 \in OmegaState /\ i \in Int /\ Cong((y + Alpha) * i, 1)
        /\ s1.den = (s.den * i) % R
        /\ s1.prod = MulLinear(s.prod, y)
        /\ s1.sum = AddScaled(s.sum, s1.den, s.prod)
    <3> HIDE DEF y, s, s1
    <3> QED BY <2>2, <2>3, OmegaStepType, ROrder
  <2>5. d[n + 1] = (d[n] * (y - x)) % R /\ z[n + 1] = (z[n] * i) % R
    BY <1>2, <1>4, <1>5, <2>1
  <2>6. /\ s.prod \in Seq(Scalar) /\ s.sum \in Seq(Scalar)
        /\ s1.prod \in Seq(Scalar) /\ s1.sum \in Seq(Scalar) /\ s1.den \in Int
    BY <2>2, <2>4, ROrder DEF OmegaState
  <2>7. Good(n)
    BY <1>10
  <2>8. /\ d[n] \in Int /\ z[n] \in Int /\ d[n + 1] \in Int /\ z[n + 1] \in Int
    BY <1>4, <1>5, <2>1, ROrder
  <2> DEFINE es == E(s.sum)
             ep == E(s.prod)
             es1 == E(s1.sum)
             ep1 == E(s1.prod)
             dn == d[n]
             zn == z[n]
             dn1 == d[n + 1]
             zn1 == z[n + 1]
  <2>9. es \in Int /\ ep \in Int /\ es1 \in Int /\ ep1 \in Int
    BY <1>8, <2>6
  <2>10. /\ Cong(ep1, (y - x) * ep) /\ Cong(es1, es + s1.den * ep)
         /\ Len(s1.prod) = n + 2 /\ Len(s1.sum) = n + 1
    <3>1. Len(s.prod) = n + 1 /\ Len(s.sum) = n
      BY <2>7
    <3> HIDE DEF y, s, s1
    <3>2. Cong(ep1, (y - x) * ep)
      BY <2>2, <2>4, <2>6, EvaluateMulLinear
    <3>4. Len(s1.prod) = n + 2
      <4>1. Len(s1.prod) = Len(s.prod) + 1
        <5> DEFINE q == s.prod
        <5>1. q \in Seq(Scalar) /\ s1.prod = MulLinear(q, y)
          BY <2>4, <2>6
        <5> HIDE DEF q
        <5>2. Len(s1.prod) = Len(q) + 1
          BY <2>2, <5>1, MulLinearShape
        <5> QED BY <5>2 DEF q
      <4> QED BY <2>1, <3>1, <4>1
    <3>3. Cong(es1, es + s1.den * ep) /\ Len(s1.sum) = n + 1
      BY <2>1, <2>4, <2>6, <3>1, EvaluateAddScaled, AddScaledShape
    <3> QED BY <3>2, <3>3, <3>4
  <2>11. s1.den = zn1
    BY <2>4, <2>5, <2>7
  <2>12. dn \in Int /\ zn \in Int /\ dn1 \in Int /\ zn1 \in Int
    BY <2>8
  <2>13. dn1 = (dn * (y - x)) % R /\ zn1 = (zn * i) % R
    BY <2>5
  <2>14. Cong(es * (x + Alpha), 1 - dn * zn) /\ Cong(ep, dn)
    BY <2>7
  <2>15. Cong(es1, es + zn1 * ep)
    BY <2>10, <2>11
  <2> HIDE DEF es, ep, es1, ep1, dn, zn, dn1, zn1, y, i, s, s1
  <2>19. Cong(zn1, zn * i)
    <3>1. zn * i \in Int BY <2>4, <2>12
    <3> QED BY <2>13, <3>1, Remainder
  <2>20. Cong(dn1, dn * (y - x))
    <3>1. dn * (y - x) \in Int BY <2>2, <2>12
    <3> QED BY <2>13, <3>1, Remainder
  <2>21. Cong(es1 * (x + Alpha), 1 - dn1 * zn1)
    <3>1. SumGrows(x, Alpha, y, i, es, dn, zn, ep, es1, dn1, zn1)
      BY <1>1, <2>2, <2>4, <2>9, <2>12, SumStep
    <3> QED BY <2>4, <2>14, <2>15, <2>19, <2>20, <3>1 DEF SumGrows
  <2>22. Cong(ep1, dn1)
    <3>1. PICK k2 \in Int : ep = dn + k2 * R
      BY <2>14 DEF Cong
    <3>2. PICK k5 \in Int : dn1 = dn * (y - x) + k5 * R
      BY <2>20 DEF Cong
    <3>3. PICK k7 \in Int : ep1 = (y - x) * ep + k7 * R
      BY <2>10 DEF Cong
    <3>4. ep1 = dn1 + ((y - x) * k2 + k7 - k5) * R /\ (y - x) * k2 + k7 - k5 \in Int
      BY <2>2, <2>9, <2>12, <3>1, <3>2, <3>3, ROrder
    <3> QED BY <3>4 DEF Cong
  <2>23. Good(n + 1)
    <3>1. (n + 1) + 1 = n + 2
      BY <2>1
    <3> QED BY <2>10, <2>11, <2>21, <2>22, <3>1 DEF es1, ep1, dn1, zn1, s1
  <2> QED BY <2>1, <2>23
<1> HIDE DEF T, Good
<1>11. \A n \in 0 .. N : n \in T
  BY <1>1, <1>9, <1>10, UpTo
<1>12. Good(N) /\ N \in 0 .. N
  BY <1>1, <1>11 DEF T
<1> DEFINE sum == t[N].sum
<1>13. sum \in Seq(Scalar)
  BY <1>6, <1>12 DEF OmegaState
<1>14. Omega(ys, old) = [i \in DOMAIN sum |-> (sum[i] * old) % R]
  BY <1>6
<1>15. Cong(E(sum) * (x + Alpha), 1 - Discriminant(ys, x) * Shrink(ys))
  BY <1>3, <1>4, <1>5, <1>12 DEF Good
<1>16. Discriminant(ys, x) \in Scalar
  BY <1>3, <1>4, <1>12
<1> HIDE DEF sum, E
<1>17. Omega(ys, old) \in Seq(Scalar) /\ Cong(E(Omega(ys, old)), E(sum) * old)
  BY <1>13, <1>14, EvaluateScaled DEF E
<1>18. E(sum) \in Int
  BY <1>8, <1>13
<1> QED BY <1>7, <1>15, <1>16, <1>17, <1>18 DEF E

-----------------------------------------------------------------------------
(* What the message does to a witness.                                      *)

(* The holder's division in Updated, as an equation: w verifies for v, e    *)
(* times v is the published polynomial, i the inverse of the discriminant d.*)
UpdateShrinks(w, a, v, m, e, d, z, i, w1) ==
  ( /\ Cong(w * a, v) /\ Cong(m, e * v) /\ Cong(e * a, 1 - d * z)
    /\ Cong(d * i, 1) /\ Cong(w1, (w - m) * i) )
  => Cong(w1 * a, v * z)

(* The revoked members' share is taken off, and what is left is divisible.  *)
LEMMA UpdateStep ==
  ASSUME NEW w \in Int, NEW a \in Int, NEW v \in Int, NEW m \in Int, NEW e \in Int,
         NEW d \in Int, NEW z \in Int, NEW i \in Int, NEW w1 \in Int
  PROVE  UpdateShrinks(w, a, v, m, e, d, z, i, w1)
<1> SUFFICES ASSUME Cong(w * a, v), Cong(m, e * v), Cong(e * a, 1 - d * z),
                    Cong(d * i, 1), Cong(w1, (w - m) * i)
             PROVE  Cong(w1 * a, v * z)
  BY DEF UpdateShrinks
<1>a. PICK k1 \in Int : w * a = v + k1 * R
  BY DEF Cong
<1>b. PICK k2 \in Int : m = e * v + k2 * R
  BY DEF Cong
<1>c. PICK k3 \in Int : e * a = 1 - d * z + k3 * R
  BY DEF Cong
<1>d. PICK k4 \in Int : d * i = 1 + k4 * R
  BY DEF Cong
<1>e. PICK k5 \in Int : w1 = (w - m) * i + k5 * R
  BY DEF Cong
<1>1. m * a = v * (e * a) + (k2 * a) * R
  BY <1>b, ROrder
<1>2. m * a = v - v * (d * z) + (v * k3 + k2 * a) * R
  BY <1>1, <1>c, ROrder
<1>3. (w - m) * a = v * (d * z) + (k1 - v * k3 - k2 * a) * R
  <2>1. (w - m) * a = w * a - m * a
    OBVIOUS
  <2> QED BY <1>2, <1>a, <2>1, ROrder
<1>4. v * (d * z) * i = v * z + (v * z * k4) * R
  <2>1. v * (d * z) * i = (v * z) * (d * i)
    OBVIOUS
  <2> QED BY <1>d, <2>1, ROrder
<1>5. w1 * a = ((w - m) * a) * i + (k5 * a) * R
  BY <1>e, ROrder
<1> DEFINE l == k1 - v * k3 - k2 * a
<1>6. l \in Int
  OBVIOUS
<1>7. ((w - m) * a) * i = v * (d * z) * i + (l * i) * R
  <2>1. (w - m) * a = v * (d * z) + l * R
    BY <1>3
  <2> HIDE DEF l
  <2> QED BY <1>6, <2>1, ROrder
<1> HIDE DEF l
<1>8. w1 * a = v * z + (v * z * k4 + l * i + k5 * a) * R
  <2>1. w1 * a = v * z + (v * z * k4) * R + (l * i) * R + (k5 * a) * R
    BY <1>4, <1>5, <1>7
  <2> QED BY <1>6, <2>1, ROrder
<1>9. v * z * k4 + l * i + k5 * a \in Int
  BY <1>6
<1> QED BY <1>8, <1>9 DEF Cong

(* The discriminant is zero at the revoked members and nowhere else.        *)
LEMMA DiscriminantZero ==
  ASSUME NEW ys \in Seq(Scalar), NEW x \in Scalar
  PROVE  Discriminant(ys, x) = 0 <=> \E n \in 1 .. Len(ys) : ys[n] = x
<1> DEFINE N == Len(ys)
           f == [i \in DOMAIN ys |-> ys[i] - x]
<1>1. /\ N \in Nat /\ DOMAIN ys = 1 .. N /\ x \in Int
      /\ \A n \in 1 .. N : ys[n] \in Scalar /\ ys[n] \in Int
  BY Coefficients, ROrder
<1>2. f \in Seq(Int) /\ Len(f) = N /\ \A n \in 1 .. N : f[n] = ys[n] - x
  <2>1. f \in [1 .. N -> Int] /\ \A n \in 1 .. N : f[n] = ys[n] - x
    BY <1>1
  <2> HIDE DEF N, f
  <2> QED BY <1>1, <2>1
<1>3. Discriminant(ys, x) = ProductOf(f)
  BY DEF Discriminant
<1> HIDE DEF N, f
<1>4. ProductOf(f) = 0 <=> \E n \in 1 .. N : Cong(f[n], 0)
  BY <1>2, ProductZero
<1>5. ASSUME NEW n \in 1 .. N PROVE Cong(f[n], 0) <=> ys[n] = x
  <2> DEFINE y == ys[n]
  <2>1. y \in Scalar /\ y \in Int /\ f[n] = y - x
    BY <1>1, <1>2
  <2> HIDE DEF y
  <2>2. ASSUME Cong(y - x, 0) PROVE y = x
    <3>1. PICK k \in Int : y - x = 0 + k * R
      BY <2>2 DEF Cong
    <3>2. k * R \in Int
      BY ROrder
    <3>3. y = x + k * R
      BY <1>1, <2>1, <3>1, <3>2
    <3> QED BY <2>1, <3>3, CongScalar DEF Cong
  <2>3. ASSUME y = x PROVE Cong(y - x, 0)
    <3>1. y - x = 0 + 0 * R
      BY <1>1, <2>3, ROrder
    <3> QED BY <3>1 DEF Cong
  <2> QED BY <2>1, <2>2, <2>3 DEF y
<1> QED BY <1>3, <1>4, <1>5 DEF N

(* The new value, and the witness of a holder that is not revoked.          *)
LEMMA UpdateVerifies ==
  ASSUME NEW ys, Revocable(ys), NEW v \in Unit
  PROVE  /\ divided(ys, v) \in Unit
         /\ \A x \in Scalar, w \in Scalar :
              (w * (x + Alpha)) % R = v /\ Discriminant(ys, x) # 0 =>
                LET w1 == ((w - Evaluate(Omega(ys, v), x)) * inv[Discriminant(ys, x)]) % R
                IN  w1 \in Scalar /\ w1 # 0 /\ (w1 * (x + Alpha)) % R = divided(ys, v)
<1> DEFINE z == Shrink(ys)
           v1 == divided(ys, v)
<1>1. v \in Int /\ v \in Scalar /\ z \in Unit /\ z \in Int /\ Alpha \in Int
  BY OmegaEquation, ROrder, KB21Assumption DEF Unit, Scalar
<1>2. v1 = (v * z) % R
  BY DEF divided, Shrink
<1> HIDE DEF z, v1
<1>3. v1 \in Unit
  BY <1>1, <1>2, UnitProduct
<1>4. ASSUME NEW x \in Scalar, NEW w \in Scalar,
             (w * (x + Alpha)) % R = v, Discriminant(ys, x) # 0,
             NEW w1, w1 = ((w - Evaluate(Omega(ys, v), x)) * inv[Discriminant(ys, x)]) % R
      PROVE  w1 \in Scalar /\ w1 # 0 /\ (w1 * (x + Alpha)) % R = v1
  <2> DEFINE d == Discriminant(ys, x)
             i == inv[d]
             m == Evaluate(Omega(ys, v), x)
             a == x + Alpha
  <2>1. w \in Int /\ x \in Int /\ a \in Int
    <3>1. w \in Int /\ x \in Int
      BY ROrder
    <3> QED BY <1>1, <3>1
  <2>2. /\ Omega(ys, v) \in Seq(Scalar) /\ d \in Scalar
        /\ \E e \in Int : Cong(e * (x + Alpha), 1 - d * z) /\ Cong(m, e * v)
    BY <1>1, <2>1, OmegaEquation DEF z
  <2>3. PICK e \in Int : Cong(e * a, 1 - d * z) /\ Cong(m, e * v)
    BY <2>2
  <2>4. d \in Unit /\ d \in Int
    BY <1>4, <2>2, ROrder DEF Scalar, Unit
  <2>5. i \in Int /\ Cong(d * i, 1)
    BY <2>4, Inverse1
  <2>6. m \in Int
    <3>1. PICK k \in Int : m = e * v + k * R
      BY <2>3 DEF Cong
    <3> QED BY <1>1, <3>1, ROrder
  <2> HIDE DEF d, i, m, a
  <2>7. w1 = ((w - m) * i) % R
    BY <1>4 DEF d, i, m
  <2>8. w1 \in Scalar /\ w1 \in Int /\ Cong(w1, (w - m) * i)
    <3>1. (w - m) * i \in Int
      BY <2>1, <2>5, <2>6
    <3> QED BY <2>7, <3>1, Remainder
  <2>9. Cong(w * a, v)
    <3>1. w * a \in Int /\ (w * a) % R = v
      BY <1>4, <2>1 DEF a
    <3> QED BY <1>1, <3>1, Remainder, CongSym
  <2>10. Cong(w1 * a, v * z)
    <3>1. UpdateShrinks(w, a, v, m, e, d, z, i, w1)
      BY <1>1, <2>1, <2>4, <2>5, <2>6, <2>8, UpdateStep
    <3> QED BY <2>3, <2>5, <2>8, <2>9, <3>1 DEF UpdateShrinks
  <2>11. (w1 * a) % R = v1
    <3> DEFINE p == w1 * a
               q == v * z
    <3>1. p \in Int /\ q \in Int /\ Cong(p, q)
      BY <1>1, <2>1, <2>8, <2>10
    <3> HIDE DEF p, q
    <3>2. /\ p % R \in Scalar /\ p % R \in Int /\ Cong(p % R, p)
          /\ q % R \in Scalar /\ q % R \in Int /\ Cong(q % R, q)
      BY <3>1, Remainder
    <3>3. Cong(p % R, q)
      BY <3>1, <3>2, CongTrans
    <3>4. Cong(q, q % R)
      BY <3>1, <3>2, CongSym
    <3>5. Cong(p % R, q % R)
      BY <3>1, <3>2, <3>3, <3>4, CongTrans
    <3>6. p % R = q % R
      BY <3>2, <3>5, CongScalar
    <3> QED BY <1>2, <3>6 DEF p, q
  <2>12. w1 # 0
    <3>1. ASSUME w1 = 0 PROVE FALSE
      <4>1. w1 * a = 0
        BY <2>1, <3>1
      <4>2. v1 = 0
        BY <2>11, <4>1, ROrder
      <4> QED BY <1>3, <4>2 DEF Unit
    <3> QED BY <3>1
  <2> QED BY <2>8, <2>11, <2>12 DEF a
<1> QED BY <1>3, <1>4 DEF v1

-----------------------------------------------------------------------------
(* The inductive invariant.  The value is never zero, and every step leaves *)
(* the variables what they are meant to be ...                              *)
Message == [revoked : Seq(Elements), ys : Seq(Scalar), omega : Seq(Scalar)]

KTypes ==
  /\ kind \in {"adaptive", "non_adaptive"}
  /\ state \subseteq Elements
  /\ values \in Seq(Unit) /\ published \in Seq(Message)
  /\ Len(values) = Len(published) + 1
  /\ witness \in [Elements -> Scalar]
  /\ at \in [Elements -> 0 .. Len(values)]

(* ... a message belongs to the two values it stands between ...            *)
Announces(msg, old, new) ==
  /\ Len(msg.ys) = Len(msg.revoked)
  /\ \A j \in 1 .. Len(msg.ys) : msg.ys[j] = accumulator_member(msg.revoked[j])
  /\ msg.omega = Omega(msg.ys, old)
  /\ new = divided(msg.ys, old)

KPublished == \A i \in 1 .. Len(published) : Announces(published[i], values[i], values[i + 1])

(* ... and a holder that is up to date with an epoch has a witness that     *)
(* verifies against the value of that epoch.                                *)
KGood == \A e \in Elements : at[e] # 0 => verify(e, witness[e], values[at[e]])

KInv == KTypes /\ KPublished /\ KGood

(* What is accumulated for a member: a scalar that is not the negative of   *)
(* the key, and another one for every member.                               *)
LEMMA Accumulated ==
  ASSUME kind \in {"adaptive", "non_adaptive"}
  PROVE  \A e \in Elements :
           /\ accumulator_member(e) \in Scalar
           /\ (accumulator_member(e) + Alpha) % R \in Unit
           /\ \A f \in Elements : accumulator_member(e) = accumulator_member(f) => e = f
<1> SUFFICES ASSUME NEW e \in Elements
             PROVE  /\ accumulator_member(e) \in Scalar
                    /\ (accumulator_member(e) + Alpha) % R \in Unit
                    /\ \A f \in Elements : accumulator_member(e) = accumulator_member(f) => e = f
  OBVIOUS
<1>1. accumulator_member(e) \in Scalar /\ (accumulator_member(e) + Alpha) % R # 0
  BY KB21Assumption DEF accumulator_member
<1>2. (accumulator_member(e) + Alpha) % R \in Scalar
  <2>1. accumulator_member(e) \in Int /\ Alpha \in Int
    BY <1>1, KB21Assumption, ROrder
  <2>2. accumulator_member(e) + Alpha \in Int
    BY <2>1
  <2> QED BY <2>2, Remainder
<1>3. \A f \in Elements : accumulator_member(e) = accumulator_member(f) => e = f
  BY NoCollision DEF accumulator_member
<1> QED BY <1>1, <1>2, <1>3 DEF Scalar, Unit

(* A message as revoke_batch makes it is one OmegaEquation speaks of.       *)
LEMMA MessageRevocable ==
  ASSUME kind \in {"adaptive", "non_adaptive"}, NEW ys \in Seq(Scalar),
         NEW revoked \in Seq(Elements), Len(ys) = Len(revoked),
         \A j \in 1 .. Len(ys) : ys[j] = accumulator_member(revoked[j])
  PROVE  Revocable(ys)
<1>1. \A j \in 1 .. Len(ys) : revoked[j] \in Elements
  OBVIOUS
<1> QED BY <1>1, Accumulated DEF Revocable

(* Handing out a witness for the current value.                             *)
LEMMA HandVerifies ==
  ASSUME kind \in {"adaptive", "non_adaptive"}, NEW e \in Elements, NEW v \in Unit
  PROVE  membership_witness(e, v) \in Scalar /\ verify(e, membership_witness(e, v), v)
<1> DEFINE y == accumulator_member(e)
           b == (y + Alpha) % R
           i == inv[b]
           w == (v * i) % R
<1>1. b \in Unit /\ y \in Int /\ Alpha \in Int /\ v \in Int /\ v \in Scalar
  BY Accumulated, ROrder, KB21Assumption DEF Unit, Scalar
<1>2. i \in Unit /\ i \in Int /\ Cong(b * i, 1) /\ b \in Int
  BY <1>1, Inverse1, ROrder
<1> DEFINE a == y + Alpha
<1>3. a \in Int
  BY <1>1
<1>4. PICK k1 \in Int : b = a + k1 * R
  BY <1>3, Remainder
<1> HIDE DEF y
<1>5. membership_witness(e, v) = w
  BY DEF membership_witness, y
<1> HIDE DEF b, i
<1>6. w \in Unit /\ w \in Int /\ w \in Scalar
  <2>1. w \in Unit
    BY <1>2, UnitProduct
  <2> HIDE DEF w
  <2> QED BY <2>1, ROrder DEF Unit, Scalar
<1>7. PICK k2 \in Int : w = v * i + k2 * R
  <2>1. v * i \in Int
    BY <1>1, <1>2
  <2> QED BY <2>1, Remainder
<1>8. PICK k3 \in Int : b * i = 1 + k3 * R
  BY <1>2 DEF Cong
<1> HIDE DEF a, w
<1>9. Cong(w * a, v)
  <2>1. w * a = v * (i * a) + (k2 * a) * R
    BY <1>1, <1>2, <1>3, <1>7, ROrder
  <2>2. i * a = 1 + (k3 - k1 * i) * R
    BY <1>2, <1>3, <1>4, <1>8, ROrder
  <2>3. w * a = v + (v * (k3 - k1 * i) + k2 * a) * R /\ v * (k3 - k1 * i) + k2 * a \in Int
    BY <1>1, <1>2, <1>3, <2>1, <2>2, ROrder
  <2> QED BY <2>3 DEF Cong
<1>10. (w * a) % R = v
  <2> DEFINE p == w * a
  <2>1. p \in Int /\ Cong(p, v)
    BY <1>3, <1>6, <1>9
  <2> HIDE DEF p
  <2>2. p % R \in Scalar /\ p % R \in Int /\ Cong(p % R, p)
    BY <2>1, Remainder
  <2>3. Cong(p % R, v)
    BY <1>1, <2>1, <2>2, CongTrans
  <2>4. p % R = v
    BY <1>1, <2>2, <2>3, CongScalar
  <2> QED BY <2>4 DEF p
<1>11. w # NoWitness
  BY <1>6 DEF NoWitness, Unit
<1> QED BY <1>5, <1>6, <1>10, <1>11 DEF verify, a, y

(* The initial value is the first epoch's, and nobody has a witness.        *)
LEMMA KInit == Init => KInv
<1> SUFFICES ASSUME Init PROVE KInv
  OBVIOUS
<1>1. KTypes
  <2>1. InitialValue \in Unit /\ 0 \in Scalar
    BY KB21Assumption, ROrder
  <2>2. << InitialValue >> \in Seq(Unit) /\ Len(<< InitialValue >>) = 1
    BY <2>1
  <2>3. << >> \in Seq(Message) /\ Len(<< >>) = 0
    OBVIOUS
  <2> QED BY <2>1, <2>2, <2>3 DEF Init, KTypes, NoWitness
<1>2. KPublished /\ KGood
  BY DEF Init, KPublished, KGood
<1> QED BY <1>1, <1>2 DEF KInv

(* The value of the current epoch.                                          *)
LEMMA CurrentValue ==
  ASSUME KInv
  PROVE  /\ Len(published) \in Nat /\ Epoch \in Nat /\ Epoch = Len(published) + 1
         /\ value \in Unit /\ DOMAIN published = 1 .. Len(published)
         /\ \A i \in 1 .. Epoch : values[i] \in Unit
         /\ \A i \in 1 .. Len(published) : published[i] \in Message
  BY DEF KInv, KTypes, Epoch, value

(* A witness is handed out and nothing else happens to the accumulator.     *)
LEMMA KHand ==
  ASSUME KInv, NEW e \in Elements, Hand(e), UNCHANGED <<kind, values, published>>,
         state' \subseteq Elements
  PROVE  KInv'
<1>1. Epoch \in Nat /\ Epoch # 0 /\ Epoch \in 1 .. Epoch /\ Epoch = Len(values) /\ value \in Unit
  BY CurrentValue DEF Epoch
<1>2. membership_witness(e, value) \in Scalar /\ verify(e, membership_witness(e, value), value)
  BY <1>1, HandVerifies DEF KInv, KTypes
<1>3. KTypes'
  BY <1>1, <1>2 DEF KInv, KTypes, Hand
<1>4. KPublished'
  BY DEF KInv, KPublished, Announces, accumulator_member
<1>5. KGood'
  <2> SUFFICES ASSUME NEW f \in Elements, at'[f] # 0
               PROVE  verify(f, witness[f], values[at[f]])'
    BY DEF KGood
  <2>1. CASE f = e
    <3>1. at'[f] = Epoch /\ witness'[f] = membership_witness(e, value)
      BY <2>1 DEF Hand, KInv, KTypes
    <3> QED BY <1>2, <2>1, <3>1 DEF verify, accumulator_member, value
  <2>2. CASE f # e
    <3>1. at'[f] = at[f] /\ witness'[f] = witness[f]
      BY <2>2 DEF Hand, KInv, KTypes
    <3> QED BY <3>1 DEF KInv, KGood, verify, accumulator_member
  <2> QED BY <2>1, <2>2
<1> QED BY <1>3, <1>4, <1>5 DEF KInv

(* The order in which a batch is revoked names each of its members.         *)
LEMMA RevokedSeq ==
  ASSUME NEW out, out \subseteq Elements
  PROVE  SetToSeq(out) \in Seq(Elements) /\ Range(SetToSeq(out)) = out
<1> DEFINE N == Cardinality(out)
           f == SetToSeq(out)
<1>1. IsFiniteSet(out) /\ N \in Nat /\ ExistsBijection(1 .. N, out)
  BY KB21Assumption, FS_Subset, FS_CardinalityType
<1>2. \E g \in [1 .. N -> out] : IsInjective(g)
  BY <1>1 DEF ExistsBijection, Bijection, Injection
<1>3. f \in [1 .. N -> out] /\ IsInjective(f)
  BY <1>2 DEF SetToSeq
<1> HIDE DEF N, f
<1>4. Cardinality(1 .. N) = N
  BY <1>1, FS_Interval
<1>5. f \in Injection(1 .. N, out)
  BY <1>3 DEF Injection
<1>6. f \in Surjection(1 .. N, out)
  BY <1>1, <1>4, <1>5, FS_Injection DEF N
<1>7. Range(f) = out
  BY <1>6 DEF Surjection, Range
<1>8. f \in Seq(Elements)
  <2>1. f \in [1 .. N -> Elements]
    BY <1>3
  <2> QED BY <1>1, <2>1
<1> QED BY <1>7, <1>8 DEF f

(* A revocation: the next epoch begins with the value the message leads to, *)
(* and the witnesses in use stay good for the epochs they were good for.    *)
LEMMA KRevoke ==
  ASSUME KInv, NEW out \in SUBSET Elements, revoke_batch(out)
  PROVE  KInv' /\ published' = Append(published, published'[Len(published) + 1])
         /\ Range(published'[Len(published) + 1].revoked) = out
<1> DEFINE revoked == SetToSeq(out)
           ys == [i \in DOMAIN revoked |-> accumulator_member(revoked[i])]
           msg == [revoked |-> revoked, ys |-> ys, omega |-> Omega(ys, value)]
           n == Len(published)
           new == divided(ys, value)
<1>1. revoked \in Seq(Elements) /\ Range(revoked) = out
  BY RevokedSeq
<1>2. /\ n \in Nat /\ Epoch = n + 1 /\ value \in Unit /\ Len(values) = n + 1
      /\ kind \in {"adaptive", "non_adaptive"}
  BY CurrentValue DEF Epoch, KInv, KTypes
<1>3. /\ published' = Append(published, msg) /\ values' = Append(values, new)
      /\ kind' = kind /\ witness' = witness /\ at' = at /\ state' = state \ out
  BY DEF revoke_batch
<1> HIDE DEF revoked
<1>4. ys \in Seq(Scalar) /\ Len(ys) = Len(revoked)
      /\ \A j \in 1 .. Len(ys) : ys[j] = accumulator_member(revoked[j])
  <2> DEFINE N == Len(revoked)
  <2>1. N \in Nat /\ DOMAIN revoked = 1 .. N /\ \A j \in 1 .. N : revoked[j] \in Elements
    BY <1>1
  <2>2. \A j \in 1 .. N : accumulator_member(revoked[j]) \in Scalar
    BY <1>2, <2>1, Accumulated
  <2> HIDE DEF N
  <2>3. ys \in [1 .. N -> Scalar] /\ \A j \in 1 .. N : ys[j] = accumulator_member(revoked[j])
    BY <2>1, <2>2
  <2> HIDE DEF ys
  <2> QED BY <2>1, <2>3 DEF N
<1> HIDE DEF ys
<1>5. Revocable(ys)
  BY <1>1, <1>2, <1>4, MessageRevocable
<1>6. new \in Unit
  BY <1>2, <1>5, UpdateVerifies
<1>7. Omega(ys, value) \in Seq(Scalar)
  <2>1. value \in Int /\ 0 \in Int
    BY <1>2, ROrder
  <2> QED BY <1>5, <2>1, OmegaEquation
<1>8. msg \in Message
  BY <1>1, <1>4, <1>7 DEF Message
<1>9. /\ msg.revoked = revoked /\ msg.ys = ys /\ msg.omega = Omega(ys, value)
  OBVIOUS
<1> HIDE DEF msg, new
<1>10. /\ published' \in Seq(Message) /\ Len(published') = n + 1 /\ published'[n + 1] = msg
       /\ \A i \in 1 .. n : published'[i] = published[i]
  BY <1>2, <1>3, <1>8 DEF KInv, KTypes
<1>11. /\ values' \in Seq(Unit) /\ Len(values') = n + 2 /\ values'[n + 2] = new
       /\ \A i \in 1 .. (n + 1) : values'[i] = values[i]
  BY <1>2, <1>3, <1>6 DEF KInv, KTypes
<1>12. KTypes'
  <2>1. at \in [Elements -> 0 .. (n + 2)]
    BY <1>2 DEF KInv, KTypes
  <2> QED BY <1>2, <1>3, <1>10, <1>11, <2>1 DEF KInv, KTypes
<1>13. Announces(msg, values[n + 1], new)
  <2>1. value = values[n + 1]
    BY <1>2 DEF value
  <2> QED BY <1>4, <1>9, <2>1 DEF Announces, new
<1>14. KPublished'
  <2> SUFFICES ASSUME NEW i \in 1 .. (n + 1)
               PROVE  Announces(published[i], values[i], values[i + 1])'
    BY <1>10 DEF KPublished
  <2>1. CASE i = n + 1
    <3>1. i + 1 = n + 2 /\ i \in 1 .. (n + 1)
      BY <1>2, <2>1
    <3>2. published'[i] = msg /\ values'[i] = values[n + 1] /\ values'[i + 1] = new
      BY <1>10, <1>11, <2>1, <3>1
    <3> QED BY <1>3, <1>13, <3>2 DEF Announces, accumulator_member
  <2>2. CASE i # n + 1
    <3>1. i \in 1 .. n /\ i \in 1 .. (n + 1) /\ i + 1 \in 1 .. (n + 1)
      BY <1>2, <2>2
    <3>2. published'[i] = published[i] /\ values'[i] = values[i] /\ values'[i + 1] = values[i + 1]
      BY <1>10, <1>11, <3>1
    <3>3. Announces(published[i], values[i], values[i + 1])
      BY <3>1 DEF KInv, KPublished
    <3> QED BY <1>3, <3>2, <3>3 DEF Announces, accumulator_member
  <2> QED BY <2>1, <2>2
<1>15. KGood'
  <2> SUFFICES ASSUME NEW e \in Elements, at[e] # 0
               PROVE  verify(e, witness[e], values[at[e]])'
    BY <1>3 DEF KGood
  <2>1. at[e] \in 1 .. (n + 1) /\ verify(e, witness[e], values[at[e]])
    BY <1>2 DEF KInv, KTypes, KGood
  <2> QED BY <1>3, <1>11, <2>1 DEF verify, accumulator_member
<1>16. published' = Append(published, published'[n + 1]) /\ Range(published'[n + 1].revoked) = out
  BY <1>1, <1>3, <1>9, <1>10
<1> QED BY <1>12, <1>14, <1>15, <1>16 DEF KInv

(* A holder is refused exactly the messages it is named in.                 *)
LEMMA RefusedNamed ==
  ASSUME KInv, NEW e \in Elements, NEW i \in DOMAIN published
  PROVE  Fails(e, published[i]) <=> e \in Range(published[i].revoked)
<1> DEFINE msg == published[i]
           ys == msg.ys
           x == accumulator_member(e)
<1>1. i \in 1 .. Len(published) /\ msg \in Message
  BY CurrentValue
<1>2. /\ msg.revoked \in Seq(Elements) /\ ys \in Seq(Scalar) /\ Len(ys) = Len(msg.revoked)
      /\ \A j \in 1 .. Len(ys) : ys[j] = accumulator_member(msg.revoked[j])
  BY <1>1 DEF Message, KInv, KPublished, Announces
<1>3. x \in Scalar
  BY Accumulated DEF KInv, KTypes
<1>4. Fails(e, msg) <=> \E n \in 1 .. Len(ys) : ys[n] = x
  <2> HIDE DEF ys, x
  <2>1. Discriminant(ys, x) = 0 <=> \E n \in 1 .. Len(ys) : ys[n] = x
    BY <1>2, <1>3, DiscriminantZero
  <2> QED BY <2>1 DEF Fails, ys, x
<1>5. \A n \in 1 .. Len(ys) : msg.revoked[n] \in Elements /\ (ys[n] = x <=> msg.revoked[n] = e)
  <2>1. \A n \in 1 .. Len(ys) : msg.revoked[n] \in Elements
    BY <1>2
  <2> QED BY <1>2, <2>1, Accumulated DEF KInv, KTypes
<1>6. e \in Range(msg.revoked) <=> \E n \in 1 .. Len(ys) : msg.revoked[n] = e
  BY <1>2 DEF Range
<1> HIDE DEF ys, x, msg
<1>7. Fails(e, msg) <=> e \in Range(msg.revoked)
  BY <1>4, <1>5, <1>6
<1> QED BY <1>7 DEF msg

(* Whatever a holder applies, its witness is a scalar, and applied in turn  *)
(* the message of epoch i leads to a witness for epoch i + 1.               *)
LEMMA KUpdate ==
  ASSUME KInv, NEW e \in Elements, NEW i \in DOMAIN published, HolderUpdate(e, i)
  PROVE  KInv'
<1> DEFINE msg == published[i]
           x == accumulator_member(e)
           w == witness[e]
           w1 == Updated(e, msg)
           v == values[i]
           n == Len(published)
<1>1. /\ n \in Nat /\ i \in 1 .. n /\ msg \in Message /\ v \in Unit /\ i + 1 \in 0 .. (n + 1)
      /\ Epoch = n + 1 /\ Len(values) = n + 1 /\ i + 1 # 0
  BY CurrentValue DEF Epoch
<1>2. /\ kind' = kind /\ state' = state /\ values' = values /\ published' = published
      /\ witness' = [witness EXCEPT ![e] = w1] /\ ~Fails(e, msg)
  BY DEF HolderUpdate
<1>3. Announces(msg, v, values[i + 1])
  BY <1>1 DEF KInv, KPublished
<1>4. /\ x \in Scalar /\ w \in Scalar /\ kind \in {"adaptive", "non_adaptive"}
  BY Accumulated DEF KInv, KTypes
<1>5. Revocable(msg.ys)
  <2>1. msg.ys \in Seq(Scalar) /\ msg.revoked \in Seq(Elements)
    BY <1>1 DEF Message
  <2>2. Len(msg.ys) = Len(msg.revoked)
        /\ \A j \in 1 .. Len(msg.ys) : msg.ys[j] = accumulator_member(msg.revoked[j])
    BY <1>3 DEF Announces
  <2> HIDE DEF msg
  <2> QED BY <1>4, <2>1, <2>2, MessageRevocable
<1>6. /\ msg.omega = Omega(msg.ys, v) /\ values[i + 1] = divided(msg.ys, v)
  BY <1>3 DEF Announces
<1>7. Discriminant(msg.ys, x) # 0
  BY <1>2 DEF Fails
<1>8. w1 = ((w - Evaluate(Omega(msg.ys, v), x)) * inv[Discriminant(msg.ys, x)]) % R
  BY <1>6 DEF Updated
<1>9. w1 \in Scalar
  <2>1. v \in Int /\ x \in Int /\ w \in Int
    BY <1>1, <1>4, ROrder
  <2>2. /\ Omega(msg.ys, v) \in Seq(Scalar) /\ Discriminant(msg.ys, x) \in Scalar
        /\ \E c \in Int : Cong(Evaluate(Omega(msg.ys, v), x), c * v)
    BY <1>5, <2>1, OmegaEquation
  <2>3. Discriminant(msg.ys, x) \in Unit
    BY <1>7, <2>2, ROrder DEF Scalar, Unit
  <2> DEFINE d == inv[Discriminant(msg.ys, x)]
             m == Evaluate(Omega(msg.ys, v), x)
  <2>4. d \in Int
    BY <2>3, Inverse1
  <2>5. PICK c \in Int : Cong(m, c * v)
    BY <2>2
  <2> HIDE DEF d, m, w, v
  <2>6. PICK k \in Int : m = c * v + k * R
    BY <2>5 DEF Cong
  <2>7. m \in Int
    BY <2>1, <2>6, ROrder
  <2>8. (w - m) * d \in Int
    BY <2>1, <2>4, <2>7
  <2> QED BY <1>8, <2>8, Remainder DEF w, d, m
<1>10. at[e] = i => verify(e, w1, values[i + 1])
  <2> SUFFICES ASSUME at[e] = i PROVE verify(e, w1, values[i + 1])
    OBVIOUS
  <2>1. (w * (x + Alpha)) % R = v
    BY <1>1 DEF KInv, KGood, verify
  <2>2. w1 # 0 /\ (w1 * (x + Alpha)) % R = divided(msg.ys, v)
    <3> HIDE DEF w, x, v, w1, msg
    <3> QED BY <1>1, <1>4, <1>5, <1>7, <1>8, <2>1, UpdateVerifies
  <2> QED BY <1>6, <2>2 DEF verify, NoWitness
<1> HIDE DEF w1, msg, x, w, v
<1>11. at' \in [Elements -> 0 .. (n + 1)]
       /\ (at[e] = i => at' = [at EXCEPT ![e] = i + 1])
       /\ (at[e] # i => at' = [at EXCEPT ![e] = 0])
  <2>1. at \in [Elements -> 0 .. (n + 1)]
    BY <1>1 DEF KInv, KTypes
  <2>2. (at[e] = i => at' = [at EXCEPT ![e] = i + 1])
        /\ (at[e] # i => at' = [at EXCEPT ![e] = 0])
    BY DEF HolderUpdate
  <2> QED BY <1>1, <2>1, <2>2
<1>12. KTypes'
  BY <1>1, <1>2, <1>9, <1>11 DEF KInv, KTypes
<1>13. KPublished'
  BY <1>2 DEF KInv, KPublished, Announces, accumulator_member
<1>14. KGood'
  <2> SUFFICES ASSUME NEW f \in Elements, at'[f] # 0
               PROVE  verify(f, witness[f], values[at[f]])'
    BY DEF KGood
  <2>1. CASE f = e
    <3>1. at[e] = i /\ at'[f] = i + 1 /\ witness'[f] = w1
      BY <1>2, <1>11, <2>1 DEF KInv, KTypes
    <3> QED BY <1>2, <1>10, <2>1, <3>1 DEF verify, accumulator_member
  <2>2. CASE f # e
    <3>1. at'[f] = at[f] /\ witness'[f] = witness[f]
      BY <1>2, <1>11, <2>2 DEF KInv, KTypes
    <3> QED BY <1>2, <3>1 DEF KInv, KGood, verify, accumulator_member
  <2> QED BY <2>1, <2>2
<1> QED BY <1>12, <1>13, <1>14 DEF KInv

(* Every step keeps the invariant.                                          *)
LEMMA KNext == KInv /\ [Next]_vars => KInv'
<1> SUFFICES ASSUME KInv, [Next]_vars PROVE KInv'
  OBVIOUS
<1>1. ASSUME NEW e \in Elements, add(e) PROVE KInv'
  <2>1. state' \subseteq Elements
    BY <1>1 DEF add, KInv, KTypes
  <2> QED BY <1>1, <2>1, KHand DEF add
<1>2. ASSUME NEW e \in Elements, get_witness(e) PROVE KInv'
  <2>1. state' \subseteq Elements
    BY <1>2 DEF get_witness, KInv, KTypes
  <2> QED BY <1>2, <2>1, KHand DEF get_witness
<1>3. ASSUME NEW s \in SUBSET Elements, add_batch(s) PROVE KInv'
  BY <1>3 DEF add_batch, KInv, KTypes, KPublished, KGood, Announces, verify, accumulator_member
<1>4. ASSUME NEW s \in SUBSET Elements, revoke_batch(s) PROVE KInv'
  BY <1>4, KRevoke
<1>5. ASSUME NEW e \in Elements, NEW i \in DOMAIN published, HolderUpdate(e, i) PROVE KInv'
  BY <1>5, KUpdate
<1>6. CASE UNCHANGED vars
  BY <1>6 DEF vars, KInv, KTypes, KPublished, KGood, Announces, verify, accumulator_member
<1> QED BY <1>1, <1>2, <1>3, <1>4, <1>5, <1>6 DEF Next

(* The invariant holds for every prime order, key and set of members.       *)
THEOREM KInvariance == Spec => []KInv
<1> QED BY KInit, KNext, PTL DEF Spec

(* A holder that applied every message once and in order has a witness that *)
(* verifies against the current value, however many members each of them    *)
(* revoked: the Ok that the benchmark counts as verified means what it says.*)
THEOREM UpdatesVerify == Spec => []UpdatedVerifies
<1>1. KInv => UpdatedVerifies
  <2>1. KInv => Epoch # 0 /\ value = values[Epoch]
    BY CurrentValue DEF value
  <2> QED BY <2>1 DEF KInv, KGood, UpdatedVerifies
<1> QED BY <1>1, KInvariance, PTL

(* The refusal of an update names the revoked, and nobody else.             *)
THEOREM RefusesRevoked == Spec => []OnlyRevokedRefused
<1>1. KInv => OnlyRevokedRefused
  BY RefusedNamed DEF OnlyRevokedRefused
<1> QED BY <1>1, KInvariance, PTL
-----------------------------------------------------------------------------
(* The contract of Lifecycle with the epoch whose updates a holder applied  *)
(* in order for its credential: by UpdatesVerify its witness is good then.  *)
revocations == [i \in DOMAIN published |-> Range(published[i].revoked)]

Contract == INSTANCE Lifecycle_proofs WITH
  Holders <- Elements, members <- state, revoked <- revocations, cred <- at

(* One set of members for each message.                                     *)
LEMMA RevocationsType ==
  ASSUME KInv
  PROVE  /\ revocations \in Seq(SUBSET Elements) /\ Len(revocations) = Len(published)
         /\ Contract!epoch = Epoch
<1>1. /\ Len(published) \in Nat /\ DOMAIN published = 1 .. Len(published)
      /\ Epoch = Len(published) + 1
  BY CurrentValue
<1>2. \A i \in 1 .. Len(published) : Range(published[i].revoked) \in SUBSET Elements
  <2> SUFFICES ASSUME NEW i \in 1 .. Len(published)
               PROVE  Range(published[i].revoked) \subseteq Elements
    OBVIOUS
  <2>1. published[i].revoked \in Seq(Elements)
    BY CurrentValue DEF Message
  <2> QED BY <2>1 DEF Range
<1>3. revocations \in Seq(SUBSET Elements) /\ Len(revocations) = Len(published)
  BY <1>1, <1>2 DEF revocations
<1> QED BY <1>1, <1>3 DEF Contract!epoch

(* A revocation of accumulated members ends the epoch in the contract too.  *)
LEMMA RevokeStep ==
  ASSUME KInv, NEW out \in SUBSET Elements, revoke_batch(out)
  PROVE  Contract!Revoke(out)
<1> DEFINE n == Len(published)
           new == Append(revocations, out)
<1>1. n \in Nat /\ published \in Seq(Message) /\ DOMAIN published = 1 .. n
  BY CurrentValue DEF KInv, KTypes
<1>2. revocations \in Seq(SUBSET Elements) /\ Len(revocations) = n
  BY RevocationsType
<1>3. /\ published' = Append(published, published'[n + 1])
      /\ Range(published'[n + 1].revoked) = out
  BY KRevoke
<1>4. /\ DOMAIN published' = 1 .. (n + 1)
      /\ \A i \in 1 .. n : published'[i] = published[i]
  BY <1>1, <1>3
<1>5. /\ new \in Seq(SUBSET Elements) /\ Len(new) = n + 1
      /\ \A i \in 1 .. n : new[i] = revocations[i]
      /\ new[n + 1] = out
  BY <1>1, <1>2
<1>6. revocations' = [i \in 1 .. (n + 1) |-> Range(published'[i].revoked)]
  BY <1>4 DEF revocations
<1>7. \A i \in 1 .. (n + 1) : Range(published'[i].revoked) = new[i]
  <2>1. \A i \in 1 .. n : Range(published'[i].revoked) = new[i]
    BY <1>1, <1>4, <1>5 DEF revocations
  <2> HIDE DEF new
  <2> QED BY <1>1, <1>3, <1>5, <2>1
<1> HIDE DEF new
<1>8. new = [i \in 1 .. (n + 1) |-> new[i]]
  BY <1>1, <1>5
<1>9. revocations' = new
  BY <1>6, <1>7, <1>8
<1> QED BY <1>2, <1>9 DEF Contract!Revoke, revoke_batch, new

(* A message applied in its turn is a refresh, by RefusedNamed never of a   *)
(* holder that it names; one out of turn spoils what the holder had.        *)
LEMMA RefreshOrSpoil ==
  ASSUME KInv, NEW e \in Elements, NEW i \in DOMAIN published, HolderUpdate(e, i)
  PROVE  Contract!Refresh(e) \/ Contract!Spoil(e) \/ UNCHANGED Contract!vars
<1>1. /\ i \in 1 .. Len(published) /\ Len(revocations) = Len(published)
      /\ at \in [Elements -> 0 .. Epoch] /\ Len(published) \in Nat
  BY CurrentValue, RevocationsType DEF KInv, KTypes
<1>2. UNCHANGED <<state, revocations>>
  BY DEF HolderUpdate, revocations
<1>3. CASE at[e] = i
  <2>1. e \notin Range(published[i].revoked)
    BY RefusedNamed DEF HolderUpdate
  <2>2. e \notin revocations[at[e]]
    BY <1>3, <2>1 DEF revocations
  <2>3. at' = [at EXCEPT ![e] = @ + 1]
    BY <1>1, <1>3 DEF HolderUpdate
  <2>4. Contract!epoch = Epoch /\ Epoch = Len(published) + 1
    BY CurrentValue, RevocationsType DEF KInv, KTypes
  <2>5. /\ at[e] # 0 /\ at[e] + 1 \in (at[e] + 1) .. Contract!epoch
        /\ \A k \in at[e] .. ((at[e] + 1) - 1) : k = at[e]
    BY <1>1, <1>3, <2>4
  <2>6. Contract!Refresh(e)
    BY <1>2, <2>2, <2>3, <2>5 DEF Contract!Refresh
  <2> QED BY <2>6
<1>4. CASE at[e] # i
  <2>1. at' = [at EXCEPT ![e] = 0]
    BY <1>4 DEF HolderUpdate
  <2>2. CASE at[e] = 0
    <3>1. at' = at BY <1>1, <2>1, <2>2
    <3> QED BY <1>2, <3>1 DEF Contract!vars
  <2>3. CASE at[e] # 0
    <3>1. Contract!Spoil(e) BY <1>2, <2>1, <2>3 DEF Contract!Spoil
    <3> QED BY <3>1
  <2> QED BY <2>2, <2>3
<1> QED BY <1>3, <1>4

(* Both constructions implement the contract: whatever the issuer and the   *)
(* holders call, and in whatever order.                                     *)
THEOREM KeepsContract == Spec => Contract!Spec
<1>1. Init => Contract!Init
  <2> SUFFICES ASSUME Init PROVE Contract!Init OBVIOUS
  <2>1. revocations = << >> BY DEF Init, revocations
  <2> QED BY <2>1 DEF Init, Contract!Init
<1>2. KInv /\ [Next]_vars => [Contract!Next]_(Contract!vars)
  <2> SUFFICES ASSUME KInv, [Next]_vars
               PROVE  Contract!Next \/ UNCHANGED Contract!vars
    OBVIOUS
  <2>1. at \in [Elements -> 0 .. Epoch] /\ Contract!epoch = Epoch
    BY RevocationsType, CurrentValue DEF KInv, KTypes
  <2>2. ASSUME NEW e \in Elements, Hand(e)
        PROVE  at' = [h \in Elements |-> IF h \in {e} THEN Contract!epoch ELSE at[h]]
    BY <2>1, <2>2 DEF Hand
  <2>3. ASSUME NEW e \in Elements, add(e) PROVE Contract!Next
    <3>1. Hand(e) /\ state' = state \cup {e} /\ UNCHANGED revocations
      BY <2>3 DEF add, revocations
    <3>2. Contract!Add({e}, {e}) BY <2>2, <3>1 DEF Contract!Add
    <3> QED BY <3>2 DEF Contract!Next
  <2>4. ASSUME NEW e \in Elements, get_witness(e) PROVE Contract!Next
    <3>1. /\ Hand(e) /\ e \in state /\ state' = state \cup {}
          /\ UNCHANGED revocations
      BY <2>4 DEF get_witness, revocations
    <3>2. Contract!Add({}, {e}) BY <2>2, <3>1 DEF Contract!Add
    <3> QED BY <3>2 DEF Contract!Next
  <2>5. ASSUME NEW s \in SUBSET Elements, add_batch(s) PROVE Contract!Next
    <3>1. /\ state' = state \cup s /\ UNCHANGED revocations
          /\ at' = [h \in Elements |-> IF h \in {} THEN Contract!epoch ELSE at[h]]
      BY <2>1, <2>5 DEF add_batch, revocations
    <3>2. Contract!Add(s, {}) BY <3>1 DEF Contract!Add
    <3> QED BY <3>2 DEF Contract!Next
  <2>6. ASSUME NEW s \in SUBSET Elements, revoke_batch(s) PROVE Contract!Next
    <3>1. Contract!Revoke(s) BY <2>6, RevokeStep
    <3> QED BY <3>1 DEF Contract!Next
  <2>7. ASSUME NEW e \in Elements, NEW i \in DOMAIN published, HolderUpdate(e, i)
        PROVE  Contract!Next \/ UNCHANGED Contract!vars
    BY <2>7, RefreshOrSpoil DEF Contract!Next
  <2>8. CASE UNCHANGED vars
    BY <2>8 DEF vars, Contract!vars, revocations
  <2> QED BY <2>3, <2>4, <2>5, <2>6, <2>7, <2>8 DEF Next
<1> QED BY <1>1, <1>2, KInvariance, PTL DEF Spec, Contract!Spec

(* A holder that is up to date, through re-admissions and updates out of    *)
(* turn, is accumulated and its witness verifies against the current value. *)
UpToDateAreMembers ==
  \A e \in Elements : at[e] = Epoch => e \in state /\ verify(e, witness[e], value)

(* For both constructions, of any order, key and set of members.            *)
THEOREM UpToDate == Spec => []UpToDateAreMembers
<1>1. Spec => []Contract!OnlyMembersPresent
  BY KeepsContract, Contract!OnlyMembers, PTL
<1>2. KInv /\ UpdatedVerifies /\ Contract!OnlyMembersPresent => UpToDateAreMembers
  BY RevocationsType
     DEF UpToDateAreMembers, UpdatedVerifies, Contract!OnlyMembersPresent, Contract!CanPresent
<1> QED BY <1>1, <1>2, KInvariance, UpdatesVerify, PTL
-----------------------------------------------------------------------------
(* How exact a proof of membership is.  The left side of the pairing        *)
(* equation is one value for a witness, so a witness that follows an epoch  *)
(* is accepted against the other values that equal that epoch's, and no     *)
(* others: missed, unapplied and not yet published revocations all show.    *)
AcceptedWhereValuesMeet ==
  \A e \in Elements, i \in DOMAIN values :
    at[e] # 0 => (verify(e, witness[e], values[i]) <=> values[i] = values[at[e]])

(* For any order, key, set of members and sequence of calls.                *)
THEOREM StaleProofs == Spec => []AcceptedWhereValuesMeet
<1>1. KInv => AcceptedWhereValuesMeet
  BY DEF KInv, KGood, verify, AcceptedWhereValuesMeet
<1> QED BY <1>1, KInvariance, PTL

(* Without an update out of turn nobody is left with a witness for no epoch.*)
Followed ==
  /\ slips \in Nat
  /\ slips = 0 => \A e \in Elements : at[e] # 0 \/ witness[e] = NoWitness

(* An update is in its turn, or it is counted.                              *)
LEMMA NextFollowed == KInv /\ Followed /\ [Next]_vars => Followed'
<1> SUFFICES ASSUME KInv, Followed, [Next]_vars PROVE Followed'
  OBVIOUS
<1>1. /\ Epoch \in Nat /\ Epoch # 0 /\ at \in [Elements -> 0 .. Epoch]
      /\ witness \in [Elements -> Scalar] /\ slips \in Nat
      /\ DOMAIN published = 1 .. Len(published) /\ Len(published) \in Nat
  BY CurrentValue DEF KInv, KTypes, Followed
<1>2. ASSUME NEW e \in Elements, Hand(e), slips' = slips PROVE Followed'
  BY <1>1, <1>2 DEF Hand, Followed
<1>3. ASSUME NEW e \in Elements, add(e) \/ get_witness(e) PROVE Followed'
  BY <1>2, <1>3 DEF add, get_witness
<1>4. ASSUME NEW s \in SUBSET Elements, add_batch(s) \/ revoke_batch(s) PROVE Followed'
  BY <1>4 DEF add_batch, revoke_batch, Followed
<1>5. ASSUME NEW e \in Elements, NEW i \in DOMAIN published, HolderUpdate(e, i)
      PROVE  Followed'
  <2>1. CASE at[e] = i
    <3>1. at' = [at EXCEPT ![e] = i + 1] /\ slips' = slips /\ i + 1 # 0
          /\ witness' = [witness EXCEPT ![e] = Updated(e, published[i])]
      BY <1>1, <1>5, <2>1 DEF HolderUpdate
    <3>2. \A f \in Elements : f # e => at'[f] = at[f] /\ witness'[f] = witness[f]
      BY <3>1
    <3>3. at'[e] # 0
      BY <1>1, <3>1
    <3> QED BY <3>1, <3>2, <3>3 DEF Followed
  <2>2. CASE at[e] # i
    BY <1>1, <1>5, <2>2 DEF HolderUpdate, Followed
  <2> QED BY <2>1, <2>2
<1>6. CASE UNCHANGED vars
  BY <1>6 DEF vars, Followed
<1> QED BY <1>3, <1>4, <1>5, <1>6 DEF Next

(* The accumulator never has the same value in two epochs: the factors      *)
(* y + Alpha of what was revoked in between do not multiply to one, as they *)
(* do with one chance in R.                                                 *)
ValuesDiffer == \A i, j \in DOMAIN values : values[i] = values[j] => i = j

(* As long as updates are applied in turn and the values differ, a proof is *)
(* accepted against the value of one epoch, the prover's, and no other.     *)
THEOREM InTurnExact == Spec => [](slips = 0 /\ ValuesDiffer => ProofsExact)
<1>1. Init => Followed
  BY DEF Init, Followed
<1>2. Spec => []Followed
  BY <1>1, NextFollowed, KInvariance, PTL DEF Spec
<1>3. KInv /\ Followed => (slips = 0 /\ ValuesDiffer => ProofsExact)
  <2> SUFFICES ASSUME KInv, Followed, slips = 0, ValuesDiffer,
                      NEW e \in Elements, NEW i \in DOMAIN values,
                      verify(e, witness[e], values[i])
               PROVE  at[e] = i
    BY DEF ProofsExact
  <2>1. at[e] # 0
    BY DEF Followed, verify
  <2>2. values[i] = values[at[e]]
    BY <2>1 DEF KInv, KGood, verify
  <2>3. at[e] \in DOMAIN values
    BY <2>1 DEF KInv, KTypes
  <2> QED BY <2>2, <2>3 DEF ValuesDiffer
<1> QED BY <1>2, <1>3, KInvariance, PTL

(* What a holder's witness is good for is then the epoch it follows.        *)
GoodAt == [e \in Elements |-> GoodFor(e)] = at

(* The witness that follows an epoch verifies there, and a proof accepted   *)
(* anywhere comes from that epoch.                                          *)
LEMMA GoodWhereFollowed == KInv /\ ProofsExact => GoodAt
<1> SUFFICES ASSUME KInv, ProofsExact PROVE GoodAt
  OBVIOUS
<1>1. at \in [Elements -> 0 .. Len(values)] /\ Len(values) \in Nat /\ DOMAIN values = 1 .. Len(values)
  BY CurrentValue DEF KInv, KTypes, Epoch
<1>2. ASSUME NEW e \in Elements PROVE GoodFor(e) = at[e]
  <2> DEFINE good == { i \in DOMAIN values : verify(e, witness[e], values[i]) }
  <2>1. CASE at[e] = 0
    <3>1. good = {}
      BY <1>1, <2>1 DEF ProofsExact
    <3> QED BY <2>1, <3>1 DEF GoodFor
  <2>2. CASE at[e] # 0
    <3>1. at[e] \in DOMAIN values /\ verify(e, witness[e], values[at[e]])
      BY <1>1, <2>2 DEF KInv, KGood
    <3>2. good = {at[e]}
      BY <3>1 DEF ProofsExact
    <3> HIDE DEF good
    <3>3. Max(good) = at[e]
      BY <1>1, <3>2 DEF Max
    <3> QED BY <3>2, <3>3 DEF GoodFor, good
  <2> QED BY <2>1, <2>2
<1> QED BY <1>1, <1>2 DEF GoodAt

(* Where no two values meet in a witness, both constructions implement      *)
(* Lifecycle with what the pairing equation answers for a credential: every *)
(* call maps to a step of the contract.  ProofsExact is what the run kb21   *)
(* finds of its group; it cannot hold of every group.                       *)
THEOREM Implements == Spec /\ []ProofsExact => ImplementsLifecycle
<1>1. Contract!Init /\ GoodAt => Abstract!Init
  BY DEF Contract!Init, Abstract!Init, GoodAt, revocations
<1>2. [Contract!Next]_(Contract!vars) /\ GoodAt /\ GoodAt' => [Abstract!Next]_(Abstract!vars)
  <2> DEFINE credentials == [e \in Elements |-> GoodFor(e)]
  <2> SUFFICES ASSUME [Contract!Next]_(Contract!vars), credentials = at, (credentials)' = at'
               PROVE  Abstract!Next \/ UNCHANGED Abstract!vars
    BY DEF GoodAt
  <2>1. ASSUME NEW new \in SUBSET Elements, NEW served \in SUBSET Elements,
               Contract!Add(new, served)
        PROVE  Abstract!Add(new, served)
    <3> HIDE DEF credentials
    <3> QED BY <2>1 DEF Contract!Add, Contract!epoch, Abstract!Add, Abstract!epoch, revocations, credentials
  <2>2. ASSUME NEW out \in SUBSET Elements, Contract!Revoke(out) PROVE Abstract!Revoke(out)
    BY <2>2 DEF Contract!Revoke, Abstract!Revoke, revocations
  <2>3. ASSUME NEW e \in Elements, Contract!Refresh(e) PROVE Abstract!Refresh(e)
    <3> HIDE DEF credentials
    <3>1. Abstract!epoch = Contract!epoch
      BY DEF Abstract!epoch, Contract!epoch, revocations
    <3>2. PICK k \in (at[e] + 1) .. Contract!epoch :
            /\ \A l \in at[e] .. (k - 1) : e \notin revocations[l]
            /\ at' = [at EXCEPT ![e] = k]
      BY <2>3 DEF Contract!Refresh
    <3>3. at[e] # 0 /\ UNCHANGED <<state, revocations>> BY <2>3 DEF Contract!Refresh
    <3>4. /\ k \in (credentials[e] + 1) .. Abstract!epoch
          /\ \A l \in credentials[e] .. (k - 1) : e \notin revocations[l]
          /\ (credentials)' = [credentials EXCEPT ![e] = k]
          /\ credentials[e] # 0
      BY <3>1, <3>2, <3>3
    <3> QED BY <3>3, <3>4 DEF Abstract!Refresh, revocations, credentials
  <2>4. ASSUME NEW e \in Elements, Contract!Spoil(e) PROVE Abstract!Spoil(e)
    BY <2>4 DEF Contract!Spoil, Abstract!Spoil, revocations
  <2>5. ASSUME NEW e \in Elements, Contract!Relapse(e) PROVE Abstract!Relapse(e)
    BY <2>5 DEF Contract!Relapse, Abstract!Relapse, revocations
  <2>6. CASE UNCHANGED Contract!vars
    BY <2>6 DEF Contract!vars, Abstract!vars, revocations
  <2> QED BY <2>1, <2>2, <2>3, <2>4, <2>5, <2>6 DEF Contract!Next, Abstract!Next
<1>3. KInv /\ ProofsExact => GoodAt
  BY GoodWhereFollowed
<1> QED BY <1>1, <1>2, <1>3, KInvariance, KeepsContract, PTL
        DEF ImplementsLifecycle, Abstract!Spec, Contract!Spec
=============================================================================
