-------------------------- MODULE RSAGroup_proofs ---------------------------
(***************************************************************************)
(* Facts about the arithmetic of RSAGroup: congruence modulo the order of  *)
(* the group, the operations modmul and modpow, the inverse modulo phi and *)
(* the Bezout pairs of extended_gcd.  Then induction, and what it shows of *)
(* ProductSet.                                                             *)
(***************************************************************************)
EXTENDS RSAGroup, FiniteSetTheorems, WellFoundedInduction, TLAPS

Cong(a, b) == \E k \in Int : a = b + k * Ord

(* There is at least one residue.                                           *)
LEMMA OrdPositive == Ord \in Nat \ {0}
BY SafePrimes DEF Ord

(* Nor is the trapdoor zero.                                                *)
LEMMA PhiPositive == Phi \in Nat \ {0}
BY SafePrimes DEF Phi

(* The two numbers % and \div produce, for any positive modulus.            *)
LEMMA ModDef ==
  ASSUME NEW N \in Nat \ {0}, NEW a \in Int
  PROVE  a % N \in 0..(N-1) /\ a \div N \in Int /\ a = N * (a \div N) + (a % N)
OBVIOUS

(* The only multiple of N smaller than N in size is zero.                   *)
LEMMA SmallMultiple ==
  ASSUME NEW N \in Nat \ {0}, NEW k \in Int, -N < k*N, k*N < N
  PROVE  k = 0
<1>1. CASE k >= 1
  <2>1. k*N >= N BY <1>1
  <2> QED BY <2>1
<1>2. CASE k <= -1
  <2>1. k*N <= -N BY <1>2
  <2> QED BY <2>1
<1> QED BY <1>1, <1>2

(* Division of a multiple is exact.                                         *)
LEMMA ExactDiv ==
  ASSUME NEW N \in Nat \ {0}, NEW k \in Int
  PROVE  (N * k) \div N = k
<1> DEFINE d == (N * k) \div N
           r == (N * k) % N
<1>1. r \in 0..(N-1) /\ d \in Int /\ N * k = N * d + r
  <2>1. N * k \in Int OBVIOUS
  <2> DEFINE n == N * k
  <2>2. n \in Int BY <2>1
  <2> HIDE DEF n
  <2>3. n % N \in 0..(N-1) /\ n \div N \in Int /\ n = N * (n \div N) + (n % N)
    BY <2>2, ModDef
  <2> QED BY <2>3 DEF n
<1> HIDE DEF d, r
<1>2. (k - d) * N = r
  BY <1>1
<1>3. -N < (k - d) * N /\ (k - d) * N < N
  BY <1>1, <1>2
<1>4. k - d = 0
  BY <1>1, <1>3, SmallMultiple
<1> QED BY <1>1, <1>4

-----------------------------------------------------------------------------
(* Congruence is an equivalence that products respect.                      *)
LEMMA CongRefl == ASSUME NEW a \in Int PROVE Cong(a, a)
<1>1. a = a + 0 * Ord BY OrdPositive
<1> QED BY <1>1 DEF Cong

(* Congruence is symmetric ...                                              *)
LEMMA CongSym == ASSUME NEW a \in Int, NEW b \in Int, Cong(a, b) PROVE Cong(b, a)
<1>1. PICK k \in Int : a = b + k * Ord BY DEF Cong
<1>2. b = a + (-k) * Ord BY <1>1, OrdPositive
<1> QED BY <1>2 DEF Cong

(* ... and transitive.                                                      *)
LEMMA CongTrans ==
  ASSUME NEW a \in Int, NEW b \in Int, NEW c \in Int, Cong(a, b), Cong(b, c)
  PROVE  Cong(a, c)
<1>1. PICK k \in Int : a = b + k * Ord BY DEF Cong
<1>2. PICK l \in Int : b = c + l * Ord BY DEF Cong
<1>3. a = c + (k + l) * Ord BY <1>1, <1>2, OrdPositive
<1> QED BY <1>3 DEF Cong

(* Products are kept opaque where only congruence matters: the provers      *)
(* match Times(a, b) as it stands and rearrange a * b.                      *)
Times(a, b) == a * b

(* Times, which keeps products opaque to the solver, is integer-valued.     *)
LEMMA TimesInt == ASSUME NEW a \in Int, NEW b \in Int PROVE Times(a, b) \in Int
BY DEF Times

(* The laws of multiplication that are needed.                              *)
LEMMA TimesLaws ==
  ASSUME NEW a \in Int, NEW b \in Int, NEW c \in Int
  PROVE  Times(a, 1) = a /\ Times(1, a) = a /\ Times(a, Times(b, c)) = Times(Times(a, b), c)
BY DEF Times

(* Multiplying both sides by a number keeps a congruence.                   *)
LEMMA CongMul ==
  ASSUME NEW a \in Int, NEW b \in Int, NEW c \in Int, Cong(a, b)
  PROVE  Cong(Times(a, c), Times(b, c))
<1>1. PICK k \in Int : a = b + k * Ord BY DEF Cong
<1>2. a * c = b * c + (k * c) * Ord BY <1>1, OrdPositive
<1> QED BY <1>2 DEF Cong, Times

(* Adding two congruences gives a congruence.                               *)
LEMMA CongAdd ==
  ASSUME NEW a \in Int, NEW b \in Int, NEW c \in Int, NEW d \in Int,
         Cong(a, b), Cong(c, d)
  PROVE  Cong(a + c, b + d)
<1>1. PICK k \in Int : a = b + k * Ord BY DEF Cong
<1>2. PICK l \in Int : c = d + l * Ord BY DEF Cong
<1>3. a + c = b + d + (k + l) * Ord BY <1>1, <1>2, OrdPositive
<1> QED BY <1>3 DEF Cong

(* A number is congruent to its remainder.                                  *)
LEMMA CongRemainder == ASSUME NEW a \in Int PROVE Cong(a % Ord, a)
<1>1. /\ a % Ord \in Int /\ a \div Ord \in Int
      /\ a = Ord * (a \div Ord) + (a % Ord)
  BY ModDef, OrdPositive
<1>2. a % Ord = a + (-(a \div Ord)) * Ord
  BY <1>1, OrdPositive
<1> QED BY <1>1, <1>2 DEF Cong

(* Congruent residues are equal.                                            *)
LEMMA CongGroup ==
  ASSUME NEW u \in Group, NEW v \in Group, Cong(u, v) PROVE u = v
<1>1. PICK k \in Int : u = v + k * Ord BY DEF Cong
<1>2. -Ord < k * Ord /\ k * Ord < Ord BY <1>1, OrdPositive DEF Group
<1>3. k = 0 BY <1>2, SmallMultiple, OrdPositive
<1> QED BY <1>1, <1>3, OrdPositive DEF Group

-----------------------------------------------------------------------------
(* modmul and modpow stay in the group and add and multiply logarithms.     *)
LEMMA ModMul ==
  ASSUME NEW u \in Int, NEW v \in Int
  PROVE  modmul(u, v) \in Group /\ Cong(modmul(u, v), u + v)
<1>1. modmul(u, v) \in Group BY ModDef, OrdPositive DEF modmul, Group
<1>2. Cong(modmul(u, v), u + v) BY CongRemainder DEF modmul
<1> QED BY <1>1, <1>2

(* The logarithm of a power is congruent to the product with the exponent.  *)
LEMMA ModPow ==
  ASSUME NEW u \in Int, NEW e \in Int
  PROVE  modpow(u, e) \in Group /\ Cong(modpow(u, e), Times(u, e))
<1> DEFINE r == e % Ord
<1>1. r \in Int BY ModDef, OrdPositive
<1>2. modpow(u, e) \in Group BY <1>1, ModDef, OrdPositive DEF modpow, Group
<1>3. Cong(modpow(u, e), Times(u, r))
  <2>1. Times(u, r) \in Int BY <1>1, TimesInt
  <2>2. Cong(Times(u, r) % Ord, Times(u, r)) BY <2>1, CongRemainder
  <2> QED BY <2>2 DEF modpow, Times
<1>4. Cong(Times(r, u), Times(e, u)) BY <1>1, CongRemainder, CongMul
<1>5. Times(r, u) = Times(u, r) /\ Times(e, u) = Times(u, e) BY <1>1 DEF Times
<1>6. modpow(u, e) \in Int BY <1>2, OrdPositive DEF Group
<1> HIDE DEF r
<1>7. Times(u, r) \in Int /\ Times(u, e) \in Int BY <1>1, TimesInt
<1>8. Cong(Times(u, r), Times(u, e)) BY <1>4, <1>5
<1>9. Cong(modpow(u, e), Times(u, e)) BY <1>3, <1>6, <1>7, <1>8, CongTrans
<1> QED BY <1>2, <1>9

(* Raising to a product is raising to one factor after the other.           *)
LEMMA PowTimes ==
  ASSUME NEW u \in Group, NEW a \in Int, NEW b \in Int
  PROVE  modpow(u, Times(a, b)) = modpow(modpow(u, a), b)
<1> DEFINE v == modpow(u, a)
           w == modpow(u, Times(a, b))
           z == modpow(v, b)
           ab == Times(a, b)
<1>1. u \in Int BY OrdPositive DEF Group
<1>2. v \in Group /\ Cong(v, Times(u, a)) BY <1>1, ModPow
<1>3. v \in Int BY <1>2, OrdPositive DEF Group
<1> HIDE DEF v
<1>4. z \in Group /\ Cong(z, Times(v, b)) BY <1>3, ModPow
<1>5. ab \in Int BY TimesInt
<1> HIDE DEF ab
<1>6. modpow(u, ab) \in Group /\ Cong(modpow(u, ab), Times(u, ab)) BY <1>1, <1>5, ModPow
<1>7. w = modpow(u, ab) BY DEF ab
<1> HIDE DEF w, z
<1>8. /\ w \in Int /\ z \in Int /\ Times(v, b) \in Int /\ Times(u, a) \in Int
      /\ Times(u, ab) \in Int
  BY <1>1, <1>3, <1>4, <1>5, <1>6, <1>7, OrdPositive, TimesInt DEF Group
<1>9. Times(Times(u, a), b) = Times(u, ab)
  BY <1>1, TimesLaws DEF ab
<1>10. Cong(Times(v, b), Times(u, ab)) BY <1>2, <1>3, <1>8, <1>9, CongMul
<1>11. Cong(z, Times(u, ab)) BY <1>4, <1>8, <1>10, CongTrans
<1>12. Cong(Times(u, ab), w) BY <1>6, <1>7, <1>8, CongSym
<1>13. Cong(z, w) BY <1>8, <1>11, <1>12, CongTrans
<1> QED BY <1>4, <1>6, <1>7, <1>13, CongGroup DEF w, z, v, ab

(* An inverse modulo phi is an inverse in the exponent of a residue.        *)
LEMMA InverseCong ==
  ASSUME NEW x \in Nat, NEW y \in Inverses(x)
  PROVE  y \in Nat /\ Cong(Times(x, y), 1)
<1>0. Phi \in Nat \ {0} /\ Phi = 4 * Ord BY PhiPositive, SafePrimes DEF Phi, Ord
<1>1. y \in Nat /\ ((x % Phi) * y) % Phi = 1 BY <1>0 DEF Inverses
<1> DEFINE k == x \div Phi
           z == x % Phi
           m == (z * y) \div Phi
<1>2. k \in Int /\ z \in Int /\ x = Phi * k + z
  <2>1. x \in Int OBVIOUS
  <2>2. x % Phi \in Int /\ x \div Phi \in Int /\ x = Phi * (x \div Phi) + (x % Phi)
    BY PhiPositive, <2>1, ModDef
  <2> QED BY <2>2
<1> HIDE DEF k, z
<1>3. (z * y) % Phi = 1 BY <1>1 DEF z
<1>4. m \in Int /\ z * y = Phi * m + 1
  <2> DEFINE n == z * y
  <2>1. n \in Int BY <1>1, <1>2
  <2>2. n % Phi = 1 BY <1>3
  <2> HIDE DEF n
  <2>3. n \div Phi \in Int /\ n = Phi * (n \div Phi) + (n % Phi)
    BY <1>0, <2>1, ModDef
  <2>4. n \div Phi \in Int /\ n = Phi * (n \div Phi) + 1
    BY <2>2, <2>3
  <2> QED BY <2>4 DEF n
<1> HIDE DEF m
<1>5. x * y = Phi * (k * y) + z * y BY <1>0, <1>1, <1>2
<1>6. x * y = 1 + Phi * (k * y + m) BY <1>0, <1>1, <1>2, <1>4, <1>5
<1>7. x * y = 1 + (4 * (k * y + m)) * Ord BY <1>0, <1>1, <1>2, <1>4, <1>6, OrdPositive
<1>8. 4 * (k * y + m) \in Int BY <1>1, <1>2, <1>4
<1> QED BY <1>1, <1>7, <1>8 DEF Cong, Times

(* A result with gcd 1 is a Bezout pair.                                    *)
LEMMA Bezout ==
  ASSUME NEW x \in Nat \ {0, 1}, NEW y \in Nat, NEW r \in GcdResults(x, y), r.gcd = 1
  PROVE  r.a \in Int /\ r.b \in Int /\ r.a * x + r.b * y = 1
<1>1. PICK b \in Int : /\ (b * (y % x)) % x = 1
                       /\ r = [gcd |-> 1, a |-> (1 - b*y) \div x, b |-> b]
  <2>1. y % x # 0
    <3>1. SUFFICES ASSUME y % x = 0 PROVE FALSE OBVIOUS
    <3>2. r.gcd = x BY <3>1 DEF GcdResults
    <3> QED BY <3>2
  <2>2. x \div 2 \in Int OBVIOUS
  <2> QED BY <2>1, <2>2 DEF GcdResults
<1> DEFINE z == y % x
           k == y \div x
           q == (b * z) \div x
<1>2. z \in Int /\ k \in Int /\ y = x * k + z BY ModDef
<1> HIDE DEF z, k
<1>3. (b * z) % x = 1 BY <1>1 DEF z
<1>4. q \in Int /\ b * z = x * q + 1
  <2> DEFINE n == b * z
  <2>1. n \in Int BY <1>2
  <2>2. n % x = 1 BY <1>3
  <2> HIDE DEF n
  <2>3. n \div x \in Int /\ n = x * (n \div x) + (n % x)
    BY <2>1, ModDef
  <2>4. n \div x \in Int /\ n = x * (n \div x) + 1
    BY <2>2, <2>3
  <2> QED BY <2>4 DEF n
<1> HIDE DEF q
<1>5. b * y = b * (x * k) + b * z BY <1>2
<1>6. 1 - b * y = x * (-(q + b * k)) BY <1>2, <1>4, <1>5
<1>7. -(q + b * k) \in Int BY <1>2, <1>4
<1>8. (1 - b * y) \div x = -(q + b * k) BY <1>6, <1>7, ExactDiv
<1>9. r.a = -(q + b * k) /\ r.b = b BY <1>1, <1>8
<1>10. r.a * x = 1 - b * y BY <1>6, <1>7, <1>9
<1> QED BY <1>7, <1>9, <1>10

(* Every result consists of integers.                                       *)
LEMMA GcdTypes ==
  ASSUME NEW x \in Nat \ {0}, NEW y \in Nat, NEW r \in GcdResults(x, y)
  PROVE  r.a \in Int /\ r.b \in Int
<1>1. CASE y % x = 0
  BY <1>1 DEF GcdResults
<1>2. CASE y % x # 0
  <2>1. x \div 2 \in Int OBVIOUS
  <2>2. PICK b \in Int : r = [gcd |-> 1, a |-> (1 - b*y) \div x, b |-> b]
    BY <1>2, <2>1 DEF GcdResults
  <2>3. 1 - b*y \in Int OBVIOUS
  <2>4. (1 - b*y) \div x \in Int BY <2>3, ModDef
  <2> QED BY <2>2, <2>4
<1> QED BY <1>1, <1>2

-----------------------------------------------------------------------------
(* A set of natural numbers that is not empty has a least member.           *)
LEMMA Least ==
  ASSUME NEW T, T \subseteq Nat, T # {}
  PROVE  \E x \in T : \A y \in T : ~ (y < x)
<1> DEFINE R == OpToRel(<, Nat)
<1>1. IsWellFoundedOn(R, Nat)
  BY NatLessThanWellFounded
<1>2. \A a, b \in Nat : a < b => <<a, b>> \in R
  BY DEF OpToRel
<1> HIDE DEF R
<1>3. \E x \in T : \A y \in T : ~ (<<y, x>> \in R)
  BY <1>1, WFMin
<1> QED BY <1>2, <1>3

(* Induction, as a statement about the set of the numbers it holds for.     *)
LEMMA SetInduction ==
  ASSUME NEW S, S \subseteq Nat, 0 \in S, \A n \in S : n + 1 \in S
  PROVE  S = Nat
<1> SUFFICES ASSUME S # Nat PROVE FALSE OBVIOUS
<1> DEFINE T == Nat \ S
<1>1. T \subseteq Nat /\ T # {} OBVIOUS
<1> HIDE DEF T
<1>3. PICK x \in T : \A y \in T : ~ (y < x)
  BY <1>1, Least
<1>4. x \in Nat /\ x # 0 /\ x - 1 \in Nat /\ x - 1 < x
  BY <1>3 DEF T
<1>5. x - 1 \notin T
  BY <1>1, <1>3, <1>4
<1>6. x - 1 \in S BY <1>4, <1>5 DEF T
<1>7. (x - 1) + 1 \in S BY <1>6
<1>8. x \in S BY <1>4, <1>7
<1> QED BY <1>3, <1>8 DEF T

(* Induction up to a bound.                                                 *)
LEMMA UpTo ==
  ASSUME NEW N \in Nat, NEW S, 0 \in S, \A n \in 0 .. (N - 1) : n \in S => n + 1 \in S
  PROVE  \A n \in 0 .. N : n \in S
<1> DEFINE T == { n \in Nat : n <= N => n \in S }
<1>1. 0 \in T OBVIOUS
<1>2. ASSUME NEW n \in T PROVE n + 1 \in T
  <2>1. n \in Nat /\ (n + 1 <= N => n \in 0 .. (N - 1) /\ n <= N) OBVIOUS
  <2> QED BY <2>1
<1>3. T \subseteq Nat OBVIOUS
<1> HIDE DEF T
<1>4. T = Nat BY <1>1, <1>2, <1>3, SetInduction
<1> QED BY <1>4 DEF T

-----------------------------------------------------------------------------
(* ProductSet is a recursive function on the subsets of its argument, which *)
(* multiplies one member after the other.                                   *)
Pick(s) == CHOOSE x \in s : TRUE
IsProduct(S, f) == f = [s \in SUBSET S |-> IF s = {} THEN 1 ELSE Pick(s) * f[s \ {Pick(s)}]]

(* If there is such a function at all, ProductSet is the value of one.      *)
LEMMA ProductFold ==
  ASSUME NEW S, NEW g, IsProduct(S, g)
  PROVE  \E f : IsProduct(S, f) /\ ProductSet(S) = f[S]
<1> DEFINE f == CHOOSE h : IsProduct(S, h)
<1>1. IsProduct(S, f) OBVIOUS
<1>2. ProductSet(S) = f[S]
  BY DEF ProductSet, FoldSet, MapThenFoldSet, IsProduct, Pick
<1> QED BY <1>1, <1>2

(* The product of one number.                                               *)
LEMMA ProductSingle == ASSUME NEW x \in Int PROVE ProductSet({x}) = x
<1> DEFINE g == [s \in SUBSET {x} |-> IF s = {} THEN 1 ELSE x]
<1>1. IsProduct({x}, g)
  <2>1. \A s \in SUBSET {x} : s # {} => Pick(s) = x /\ s \ {Pick(s)} = {} BY DEF Pick
  <2>2. \A s \in SUBSET {x} : g[s] = IF s = {} THEN 1 ELSE Pick(s) * g[s \ {Pick(s)}]
    BY <2>1
  <2> QED BY <2>2 DEF IsProduct
<1> HIDE DEF g
<1>2. PICK f : IsProduct({x}, f) /\ ProductSet({x}) = f[{x}] BY <1>1, ProductFold
<1>3. Pick({x}) = x /\ {x} \ {x} = {} BY DEF Pick
<1>4. f[{}] = 1 BY <1>2 DEF IsProduct
<1>5. f[{x}] = x * f[{}] BY <1>2, <1>3 DEF IsProduct
<1> QED BY <1>2, <1>4, <1>5

(* The subsets of S with at most n members, and the product on them.        *)
Small(S, n) == { s \in SUBSET S : Cardinality(s) <= n }
IsSmallProduct(S, n, f) ==
  f = [s \in Small(S, n) |-> IF s = {} THEN 1 ELSE Pick(s) * f[s \ {Pick(s)}]]

(* Taking one member away leads to the smaller ones; that ends at {}.       *)
LEMMA SmallSteps ==
  ASSUME NEW S, IsFiniteSet(S)
  PROVE  /\ Small(S, 0) = {{}}
         /\ \A n \in Nat : \A s \in Small(S, n + 1) :
              s # {} => Pick(s) \in s /\ s \ {Pick(s)} \in Small(S, n)
         /\ \A n \in Nat : Small(S, n) \subseteq Small(S, n + 1)
         /\ Small(S, Cardinality(S)) = SUBSET S
<1>1. \A s \in SUBSET S : IsFiniteSet(s) /\ Cardinality(s) \in Nat
                          /\ Cardinality(s) <= Cardinality(S)
  BY FS_Subset, FS_CardinalityType
<1>2. \A s \in SUBSET S : Cardinality(s) = 0 <=> s = {}
  BY <1>1, FS_EmptySet
<1>3. Small(S, 0) = {{}}
  BY <1>1, <1>2 DEF Small
<1>4. ASSUME NEW n \in Nat, NEW s \in Small(S, n + 1), s # {}
      PROVE  Pick(s) \in s /\ s \ {Pick(s)} \in Small(S, n)
  <2>1. Pick(s) \in s BY <1>4 DEF Pick
  <2>2. s \in SUBSET S /\ Cardinality(s) <= n + 1 /\ IsFiniteSet(s) BY <1>1 DEF Small
  <2>3. Cardinality(s \ {Pick(s)}) = Cardinality(s) - 1 BY <2>1, <2>2, FS_RemoveElement
  <2>4. Cardinality(s) \in Nat BY <1>1, <2>2
  <2> QED BY <2>1, <2>2, <2>3, <2>4 DEF Small
<1>5. \A n \in Nat : Small(S, n) \subseteq Small(S, n + 1) BY <1>1 DEF Small
<1>6. Small(S, Cardinality(S)) = SUBSET S BY <1>1 DEF Small
<1> QED BY <1>3, <1>4, <1>5, <1>6

(* On the subsets of a finite set there is such a function.                 *)
LEMMA ProductExists ==
  ASSUME NEW S, IsFiniteSet(S)
  PROVE  \E f : IsProduct(S, f)
<1> DEFINE T == { n \in Nat : \E f : IsSmallProduct(S, n, f) }
<1>1. 0 \in T
  <2> DEFINE f == [s \in Small(S, 0) |-> 1]
  <2>1. IsSmallProduct(S, 0, f) BY SmallSteps DEF IsSmallProduct
  <2> QED BY <2>1
<1>2. ASSUME NEW n \in T PROVE n + 1 \in T
  <2>1. PICK f : IsSmallProduct(S, n, f) BY <1>2
  <2> DEFINE g == [s \in Small(S, n + 1) |-> IF s = {} THEN 1 ELSE Pick(s) * f[s \ {Pick(s)}]]
  <2>2. \A t \in Small(S, n) : g[t] = f[t]
    BY <2>1, SmallSteps DEF IsSmallProduct
  <2>3. \A s \in Small(S, n + 1) : s # {} => g[s \ {Pick(s)}] = f[s \ {Pick(s)}]
    BY <2>2, SmallSteps
  <2>4. IsSmallProduct(S, n + 1, g) BY <2>3 DEF IsSmallProduct
  <2> QED BY <2>4
<1> HIDE DEF T
<1>3. T = Nat BY <1>1, <1>2, SetInduction DEF T
<1>4. Cardinality(S) \in T BY <1>3, FS_CardinalityType
<1> QED BY <1>4, SmallSteps DEF T, IsSmallProduct, IsProduct

Multiple(a, h) == \E k \in Nat : a = h * k

(* A multiple leaves no remainder.                                          *)
LEMMA MultipleMod ==
  ASSUME NEW h \in Nat \ {0}, NEW a, Multiple(a, h)
  PROVE  a \in Int /\ a % h = 0
<1>1. PICK k \in Nat : a = h * k BY DEF Multiple
<1>2. a \in Int BY <1>1
<1>3. a % h \in 0..(h-1) /\ a \div h \in Int /\ a = h * (a \div h) + (a % h)
  BY <1>2, ModDef
<1>4. (a \div h) = k BY <1>1, ExactDiv
<1>5. a % h = 0 BY <1>1, <1>3, <1>4
<1> QED BY <1>2, <1>5

(* No product of two numbers other than zero is zero.                       *)
LEMMA NonZeroProduct == \A a, b \in Nat \ {0} : a * b \in Nat \ {0}
<1> TAKE a, b \in Nat \ {0}
<1>1. a * b >= b OBVIOUS
<1> QED BY <1>1

(* The product of positive numbers is one, and a multiple of each of them.  *)
LEMMA ProductFacts ==
  ASSUME NEW S \in SUBSET (Nat \ {0}), IsFiniteSet(S)
  PROVE  ProductSet(S) \in Nat \ {0} /\ \A h \in S : Multiple(ProductSet(S), h)
<1>1. PICK f : IsProduct(S, f) /\ ProductSet(S) = f[S]
  BY ProductExists, ProductFold
<1> DEFINE Fine(s) == f[s] \in Nat \ {0} /\ \A h \in s : Multiple(f[s], h)
           T == { n \in Nat : \A s \in Small(S, n) : Fine(s) }
<1>2. \A s \in SUBSET S : f[s] = IF s = {} THEN 1 ELSE Pick(s) * f[s \ {Pick(s)}]
  BY <1>1 DEF IsProduct
<1>3. 0 \in T
  <2>1. f[{}] = 1 BY <1>2
  <2>2. Fine({}) BY <2>1
  <2>3. Small(S, 0) = {{}} BY SmallSteps
  <2> HIDE DEF Fine
  <2> QED BY <2>2, <2>3
<1>4. ASSUME NEW n \in T PROVE n + 1 \in T
  <2>0. SUFFICES ASSUME NEW s \in Small(S, n + 1) PROVE Fine(s)
    <3> HIDE DEF Fine
    <3> QED OBVIOUS
  <2>7. CASE s = {}
    <3>1. f[s] = 1 BY <1>2, <2>7
    <3> QED BY <2>7, <3>1
  <2>8. CASE s # {}
    <3> DEFINE x == Pick(s)
               p == f[s \ {x}]
    <3>1. x \in s /\ s \in SUBSET S /\ s \ {x} \in Small(S, n)
      BY <2>8, SmallSteps DEF Small
    <3>2. Fine(s \ {x}) BY <3>1
    <3>3. x \in Nat \ {0} /\ p \in Nat \ {0} /\ f[s] = x * p BY <1>2, <2>8, <3>1, <3>2
    <3>4. ASSUME NEW h \in s PROVE Multiple(f[s], h)
      <4>1. CASE h = x BY <3>3, <4>1 DEF Multiple
      <4>2. CASE h # x
        <5>1. PICK k \in Nat : p = h * k BY <3>2, <4>2 DEF Multiple
        <5>2. h \in Nat BY <3>1
        <5>3. x * p = h * (x * k) /\ x * k \in Nat BY <3>3, <5>1, <5>2
        <5> QED BY <3>3, <5>3 DEF Multiple
      <4> QED BY <4>1, <4>2
    <3>5. f[s] \in Nat \ {0} BY <3>3, NonZeroProduct
    <3> QED BY <3>4, <3>5
  <2> QED BY <2>7, <2>8
<1> HIDE DEF T
<1>5. T = Nat BY <1>3, <1>4, SetInduction DEF T
<1>6. Cardinality(S) \in T BY <1>5, FS_CardinalityType
<1>7. S \in Small(S, Cardinality(S)) BY SmallSteps
<1>8. Fine(S) BY <1>6, <1>7 DEF T
<1> QED BY <1>1, <1>8
=============================================================================
