--------------------------- MODULE CLRSAB_proofs ----------------------------
(***************************************************************************)
(* Proofs about CLRSAB, for every choice of primes, elements and bounds:   *)
(* the type invariant; that the published removals explain every value of  *)
(* the accumulator; that a holder which applies them in order keeps a      *)
(* witness that verifies, and loses it to a removal or an update only; and *)
(* that CLRSAB implements Lifecycle.                                       *)
(***************************************************************************)
EXTENDS CLRSAB, RSAGroup_proofs, SequenceTheorems

(* The product of a batch is a positive number and divisible by its members.*)
LEMMA BatchProduct ==
  ASSUME NEW D \in SUBSET Elements
  PROVE  Product(D) \in Nat \ {0} /\ \A x \in D : Multiple(Product(D), x)
<1>1. D \in SUBSET (Nat \ {0}) /\ IsFiniteSet(D)
  BY ElementsAssumption, FS_Subset
<1> QED BY <1>1, ProductFacts DEF Product

(* What the issuer divides out is a positive number.                        *)
LEMMA ExponentsNat == ASSUME NEW x \in Exponents PROVE x \in Nat \ {0}
BY ElementsAssumption, BatchProduct DEF Exponents

(* An element, and the product of some, is one of these.                    *)
LEMMA ExponentsOf ==
  /\ \A x \in Elements : x \in Exponents
  /\ \A D \in SUBSET Elements : Product(D) \in Exponents
BY DEF Exponents

(* Dividing an exponent out of a value is undone by raising to it: this is  *)
(* why a fresh witness verifies and why a removal can be followed.          *)
LEMMA DivideOut ==
  ASSUME NEW v \in Group, NEW x \in Exponents, Invertible(x)
  PROVE  /\ modpow(v, invert[x]) \in Group
         /\ modpow(modpow(v, invert[x]), x) = v
<1> DEFINE y == invert[x]
           w == modpow(v, y)
<1>1. y \in Inverses(x)
  <2>1. Inverses(x) # {} BY DEF Invertible, invert
  <2>2. y = CHOOSE z \in Inverses(x) : TRUE BY <2>1 DEF invert
  <2> QED BY <2>1, <2>2
<1>2. x \in Nat BY ExponentsNat
<1>3. y \in Nat /\ Cong(Times(x, y), 1) BY <1>1, <1>2, InverseCong
<1> HIDE DEF y
<1>4. v \in Int BY OrdPositive DEF Group
<1>5. w \in Group /\ Cong(w, Times(v, y)) BY <1>3, <1>4, ModPow
<1> HIDE DEF w
<1>6. w \in Int BY <1>5, OrdPositive DEF Group
<1>7. modpow(w, x) \in Group /\ Cong(modpow(w, x), Times(w, x)) BY <1>2, <1>6, ModPow
<1>8. modpow(w, x) \in Int BY <1>7, OrdPositive DEF Group
<1>9. /\ Times(v, y) \in Int /\ Times(x, y) \in Int
      /\ Times(Times(v, y), x) \in Int /\ Times(w, x) \in Int
  BY <1>2, <1>3, <1>4, <1>6, TimesInt
<1>10. Cong(Times(w, x), Times(Times(v, y), x)) BY <1>2, <1>5, <1>6, <1>9, CongMul
<1>11. Cong(Times(Times(x, y), v), Times(1, v)) BY <1>3, <1>4, <1>9, CongMul
<1>12. Times(Times(x, y), v) = Times(Times(v, y), x) /\ Times(1, v) = v
  BY <1>2, <1>3, <1>4 DEF Times
<1>13. Cong(Times(Times(v, y), x), v) BY <1>11, <1>12
<1>14. Cong(Times(w, x), v) BY <1>4, <1>9, <1>10, <1>13, CongTrans
<1>15. Cong(modpow(w, x), v) BY <1>4, <1>7, <1>8, <1>9, <1>14, CongTrans
<1>16. modpow(w, x) = v BY <1>7, <1>15, CongGroup
<1> QED BY <1>5, <1>16 DEF w, y

(* update() carries a witness over a removal: u verifies for the value old, *)
(* the removal of y leads from old to new, and r is a Bezout pair.          *)
LEMMA UpdateCarriesOver ==
  ASSUME NEW old \in Group, NEW new \in Group, NEW u \in Group,
         NEW x \in Nat, NEW y \in Nat, NEW r,
         r.a \in Int, r.b \in Int, r.a * x + r.b * y = 1,
         modpow(u, x) = old, modpow(new, y) = old
  PROVE  update(new, u, r) \in Group /\ verify_mem(new, x, update(new, u, r))
<1> DEFINE a == r.a
           b == r.b
           ub == modpow(u, b)
           va == modpow(new, a)
           w  == update(new, u, r)
<1>0. a \in Int /\ b \in Int /\ a * x + b * y = 1 OBVIOUS
<1> HIDE DEF a, b
<1>1. /\ old \in Int /\ new \in Int /\ u \in Int
      /\ x \in Int /\ y \in Int
  BY OrdPositive DEF Group
<1>2. ub \in Group /\ Cong(ub, Times(u, b)) BY <1>0, <1>1, ModPow
<1>3. va \in Group /\ Cong(va, Times(new, a)) BY <1>0, <1>1, ModPow
<1>4. ub \in Int /\ va \in Int BY <1>2, <1>3, OrdPositive DEF Group
<1>5. w \in Group /\ Cong(w, ub + va)
  <2>1. w = modmul(ub, va) BY DEF update, a, b
  <2> HIDE DEF ub, va, w
  <2> QED BY <1>4, <2>1, ModMul
<1> HIDE DEF ub, va, w
<1>6. w \in Int BY <1>5, OrdPositive DEF Group
<1> DEFINE s == Times(u, b) + Times(new, a)
<1>7. /\ Times(u, b) \in Int /\ Times(new, a) \in Int
      /\ ub + va \in Int /\ s \in Int
  <2>1. Times(u, b) \in Int BY <1>0, <1>1, TimesInt
  <2>2. Times(new, a) \in Int BY <1>0, <1>1, TimesInt
  <2> QED BY <1>4, <2>1, <2>2
<1>8. Cong(ub + va, s) BY <1>2, <1>3, <1>4, <1>7, CongAdd
<1> HIDE DEF s
<1>9. Cong(w, s) BY <1>5, <1>6, <1>7, <1>8, CongTrans
<1>10. Cong(Times(w, x), Times(s, x)) BY <1>6, <1>7, <1>9, CongMul
(* The two sides of the removal, both congruent to old.                     *)
<1>11. Times(u, x) \in Int /\ Times(new, y) \in Int BY <1>1, TimesInt
<1>12. Cong(Times(u, x), old) /\ Cong(old, Times(new, y))
  <2>1. Cong(modpow(u, x), Times(u, x)) BY <1>1, ModPow
  <2>2. Cong(modpow(new, y), Times(new, y)) BY <1>1, ModPow
  <2> QED BY <2>1, <2>2, <1>1, <1>11, CongSym
<1>13. Cong(Times(u, x), Times(new, y)) BY <1>1, <1>11, <1>12, CongTrans
<1> DEFINE uxb == Times(Times(u, x), b)
           nyb == Times(Times(new, y), b)
           nax == Times(Times(new, a), x)
<1>14. Cong(uxb, nyb) BY <1>0, <1>11, <1>13, CongMul
<1>15. uxb \in Int /\ nyb \in Int /\ nax \in Int
  BY <1>0, <1>7, <1>11, TimesInt
<1>16. Times(s, x) = uxb + nax BY <1>0, <1>1 DEF Times, s
<1>17. nyb + nax = new * (a * x + b * y) BY <1>0, <1>1 DEF Times
<1>18. nyb + nax = new BY <1>0, <1>1, <1>17
<1> HIDE DEF uxb, nyb, nax
<1>19. Cong(uxb + nax, nyb + nax) BY <1>14, <1>15, CongRefl, CongAdd
<1>20. Cong(Times(s, x), new) BY <1>16, <1>18, <1>19
<1>21. Cong(Times(w, x), new)
  <2>1. Times(w, x) \in Int /\ Times(s, x) \in Int BY <1>1, <1>6, <1>7, TimesInt
  <2> QED BY <2>1, <1>1, <1>10, <1>20, CongTrans
<1>22. modpow(w, x) = new
  <2>1. modpow(w, x) \in Group /\ Cong(modpow(w, x), Times(w, x)) BY <1>6, ModPow
  <2>2. modpow(w, x) \in Int /\ Times(w, x) \in Int
    BY <2>1, <1>6, OrdPositive, TimesInt DEF Group
  <2>3. Cong(modpow(w, x), new) BY <2>1, <2>2, <1>1, <1>21, CongTrans
  <2> QED BY <2>1, <2>3, CongGroup
<1> QED BY <1>5, <1>22 DEF verify_mem, w

(* The Bezout pair (0, 1) leaves a witness as it is.                        *)
LEMMA UpdateIsIdentity ==
  ASSUME NEW acc \in Group, NEW u \in Group, NEW r, r.a = 0, r.b = 1
  PROVE  update(acc, u, r) = u
<1> DEFINE w == update(acc, u, r)
           ub == modpow(u, 1)
           va == modpow(acc, 0)
<1>1. acc \in Int /\ u \in Int BY OrdPositive DEF Group
<1>2. ub \in Group /\ Cong(ub, Times(u, 1)) BY <1>1, ModPow
<1>3. va \in Group /\ Cong(va, Times(acc, 0)) BY <1>1, ModPow
<1>4. Times(u, 1) = u /\ Times(acc, 0) = 0 BY <1>1 DEF Times
<1>5. w = modmul(ub, va) BY DEF update
<1> HIDE DEF w, ub, va
<1>6. ub \in Int /\ va \in Int BY <1>2, <1>3, OrdPositive DEF Group
<1>7. w \in Group /\ Cong(w, ub + va) BY <1>5, <1>6, ModMul
<1>8. Cong(ub + va, u + 0) BY <1>1, <1>2, <1>3, <1>4, <1>6, CongAdd
<1>9. u + 0 = u BY <1>1
<1>10. Cong(w, u)
  <2>1. w \in Int /\ ub + va \in Int BY <1>6, <1>7, OrdPositive DEF Group
  <2> QED BY <2>1, <1>1, <1>7, <1>8, <1>9, CongTrans
<1> QED BY <1>7, <1>10, CongGroup DEF w

-----------------------------------------------------------------------------
(* What the x of an update covers.                                          *)

(* The quotient of an exact division, and zero for any other.               *)
LEMMA QuotientFacts ==
  ASSUME NEW a \in Nat, NEW b \in Nat \ {0}
  PROVE  /\ Quotient(a, b) \in Nat
         /\ Quotient(a, b) # 0 => a # 0 /\ a = Times(b, Quotient(a, b))
<1> DEFINE q == a \div b
           r == a % b
<1>1. q \in Int /\ r \in 0..(b - 1) /\ a = b * q + r BY ModDef
<1>2. Quotient(a, b) = IF r = 0 THEN q ELSE 0 BY DEF Quotient
<1> HIDE DEF q, r
<1>3. q \in Nat
  <2>1. SUFFICES ASSUME q <= -1 PROVE FALSE BY <1>1
  <2>2. b * q <= -b BY <1>1, <2>1
  <2> QED BY <1>1, <2>2
<1>4. ASSUME r = 0, q # 0 PROVE a # 0 /\ a = b * q
  <2>1. b * q # 0 BY <1>3, <1>4, NonZeroProduct
  <2> QED BY <1>1, <1>4, <2>1
<1> QED BY <1>2, <1>3, <1>4 DEF Times

(* The product of natural numbers is one.                                   *)
LEMMA TimesNat == ASSUME NEW a \in Nat, NEW b \in Nat PROVE Times(a, b) \in Nat
BY DEF Times

(* The function that Covers computes.                                       *)
IsRest(f, x, j, N) ==
  f = [n \in 0 .. N |-> IF n = 0 THEN x ELSE Quotient(f[n - 1], published[j - n])]

(* There is one ...                                                         *)
LEMMA RestExists ==
  ASSUME NEW x, NEW j, NEW N \in Nat
  PROVE  \E f : IsRest(f, x, j, N)
<1> DEFINE T == { m \in Nat : \E f : IsRest(f, x, j, m) }
<1>1. 0 \in T
  <2> DEFINE f == [n \in 0 .. 0 |-> x]
  <2>1. f = [n \in 0 .. 0 |-> IF n = 0 THEN x ELSE Quotient(f[n - 1], published[j - n])]
    OBVIOUS
  <2> QED BY <2>1 DEF IsRest
<1>2. ASSUME NEW m \in T PROVE m + 1 \in T
  <2>1. PICK f : IsRest(f, x, j, m) BY <1>2
  <2> DEFINE g == [n \in 0 .. (m + 1) |-> IF n = 0 THEN x ELSE Quotient(f[n - 1], published[j - n])]
  <2>2. m \in Nat BY <1>2
  <2>3. \A n \in 0 .. m : g[n] = f[n]
    BY <2>1, <2>2 DEF IsRest
  <2>4. \A n \in 0 .. (m + 1) : n # 0 => n - 1 \in 0 .. m BY <2>2
  <2>5. \A n \in 0 .. (m + 1) : n # 0 => g[n - 1] = f[n - 1]
    BY <2>3, <2>4
  <2>6. IsRest(g, x, j, m + 1) BY <2>5 DEF IsRest
  <2> QED BY <2>2, <2>6
<1>3. T \subseteq Nat OBVIOUS
<1> HIDE DEF T
<1>4. T = Nat BY <1>1, <1>2, <1>3, SetInduction
<1> QED BY <1>4 DEF T

(* ... and it is 1 at the end of what is covered.                           *)
LEMMA CoversRest ==
  ASSUME NEW x, NEW s \in Nat, NEW j \in Nat, s <= j, Covers(x, s, j)
  PROVE  \E f : IsRest(f, x, j, j - s) /\ f[j - s] = 1
<1> DEFINE f == CHOOSE g : IsRest(g, x, j, j - s)
<1>1. j - s \in Nat OBVIOUS
<1>2. IsRest(f, x, j, j - s) BY <1>1, RestExists
<1>3. f[j - s] = 1 BY DEF Covers, IsRest
<1> QED BY <1>2, <1>3

(* Read backwards, each rest is the next one times what was published.      *)
LEMMA CoveredFactors ==
  ASSUME published \in Seq(Nat \ {0}), NEW x \in Nat, NEW s \in 1..Len(published),
         NEW j \in (s + 1)..(Len(published) + 1), Covers(x, s, j)
  PROVE  \E f \in [0 .. (j - s) -> Nat] :
           /\ f[0] = x /\ f[j - s] = 1
           /\ \A n \in 1 .. (j - s) : f[n - 1] = Times(published[j - n], f[n])
<1> DEFINE N == j - s
<1>1. /\ Len(published) \in Nat /\ s \in Nat /\ j \in Nat /\ s <= j /\ N \in Nat
      /\ \A n \in 1 .. N : published[j - n] \in Nat \ {0}
  <2>1. Len(published) \in Nat /\ s \in Nat /\ j \in Nat /\ s <= j /\ N \in Nat
    OBVIOUS
  <2>2. \A n \in 1 .. N : j - n \in 1..Len(published) BY <2>1
  <2> QED BY <2>1, <2>2
<1>2. PICK f : IsRest(f, x, j, N) /\ f[N] = 1 BY <1>1, CoversRest
<1> HIDE DEF N
<1>3. /\ f[0] = x
      /\ \A n \in 1 .. N : f[n] = Quotient(f[n - 1], published[j - n])
  BY <1>1, <1>2 DEF IsRest
<1>4. \A n \in 0 .. N : f[n] \in Nat
  <2> DEFINE S == { n \in 0 .. N : f[n] \in Nat }
  <2>1. 0 \in S BY <1>1, <1>3
  <2>2. ASSUME NEW n \in 0 .. (N - 1), n \in S PROVE n + 1 \in S
    <3>1. n + 1 \in 1 .. N /\ (n + 1) - 1 = n /\ f[n] \in Nat BY <1>1, <2>2
    <3>2. f[n + 1] = Quotient(f[n], published[j - (n + 1)]) BY <1>3, <3>1
    <3>3. published[j - (n + 1)] \in Nat \ {0} BY <1>1, <3>1
    <3>4. f[n + 1] \in Nat BY <3>1, <3>2, <3>3, QuotientFacts
    <3> QED BY <1>1, <3>1, <3>4
  <2> HIDE DEF S
  <2>3. \A n \in 0 .. N : n \in S BY <1>1, <2>1, <2>2, UpTo
  <2> QED BY <2>3 DEF S
<1>5. ASSUME NEW n \in 1 .. N, f[n] # 0
      PROVE  f[n - 1] # 0 /\ f[n - 1] = Times(published[j - n], f[n])
  <2>1. n - 1 \in 0 .. N BY <1>1
  <2>2. f[n - 1] \in Nat BY <1>4, <2>1
  <2> QED BY <1>1, <1>3, <1>5, <2>2, QuotientFacts
<1>6. \A m \in 0 .. N : f[N - m] # 0
  <2> DEFINE S == { m \in 0 .. N : f[N - m] # 0 }
  <2>1. 0 \in S BY <1>1, <1>2
  <2>2. ASSUME NEW m \in 0 .. (N - 1), m \in S PROVE m + 1 \in S
    <3>1. N - m \in 1 .. N /\ f[N - m] # 0 /\ (N - m) - 1 = N - (m + 1) /\ m + 1 \in 0 .. N
      BY <1>1, <2>2
    <3>2. f[(N - m) - 1] # 0 BY <1>5, <3>1
    <3> QED BY <3>1, <3>2
  <2> HIDE DEF S
  <2>3. \A m \in 0 .. N : m \in S BY <1>1, <2>1, <2>2, UpTo
  <2> QED BY <2>3 DEF S
<1>7. ASSUME NEW n \in 1 .. N PROVE f[n - 1] = Times(published[j - n], f[n])
  <2>1. N - n \in 0 .. N /\ N - (N - n) = n BY <1>1
  <2>2. f[N - (N - n)] # 0 BY <1>6, <2>1
  <2> QED BY <1>5, <2>1, <2>2
<1>8. f \in [0 .. N -> Nat] BY <1>2, <1>4 DEF IsRest
<1> QED BY <1>2, <1>3, <1>7, <1>8 DEF N

(* Raising the value at the end of what x covers to x goes back over one    *)
(* removal after the other, to the value at its start.                      *)
LEMMA CoveredValue ==
  ASSUME published \in Seq(Nat \ {0}), NEW x \in Nat, NEW s \in 1..Len(published),
         NEW j \in (s + 1)..(Len(published) + 1), Covers(x, s, j),
         NEW v \in [1..(Len(published) + 1) -> Group],
         \A e \in s..(j - 1) : modpow(v[e + 1], published[e]) = v[e]
  PROVE  modpow(v[j], x) = v[s]
<1> DEFINE N == j - s
<1>1. /\ Len(published) \in Nat /\ s \in Nat /\ j \in Nat /\ s < j /\ N \in Nat
      /\ \A e \in s..(j - 1) : published[e] \in Nat \ {0}
  <2>1. Len(published) \in Nat /\ s \in Nat /\ j \in Nat /\ s < j /\ N \in Nat
    OBVIOUS
  <2>2. \A e \in s..(j - 1) : e \in 1..Len(published) BY <2>1
  <2> QED BY <2>1, <2>2
<1>2. PICK f \in [0 .. N -> Nat] :
        /\ f[0] = x /\ f[N] = 1
        /\ \A n \in 1 .. N : f[n - 1] = Times(published[j - n], f[n])
  BY CoveredFactors
<1> DEFINE S == { m \in 0 .. N : modpow(v[s + m], f[N - m]) = v[s] }
<1>3. 0 \in S
  <2>1. s + 0 = s /\ N - 0 = N /\ s \in 1..(Len(published) + 1) BY <1>1
  <2>7. v[s] \in Group BY <2>1
  <2>2. v[s] \in Int BY <2>7, OrdPositive DEF Group
  <2>3. modpow(v[s], 1) \in Group /\ Cong(modpow(v[s], 1), Times(v[s], 1)) BY <2>2, ModPow
  <2>4. Times(v[s], 1) = v[s] BY <2>2, TimesLaws
  <2>5. modpow(v[s], 1) = v[s] BY <2>7, <2>3, <2>4, CongGroup
  <2>6. 0 \in 0 .. N BY <1>1
  <2> QED BY <1>2, <2>1, <2>5, <2>6
<1>4. ASSUME NEW m \in 0 .. (N - 1), m \in S PROVE m + 1 \in S
  <2> DEFINE e == s + m
             p == published[e]
             r == f[N - m]
  <2>1. /\ N - m \in 1 .. N /\ (N - m) - 1 = N - (m + 1) /\ j - (N - m) = e
        /\ e \in s..(j - 1) /\ e + 1 \in 1..(Len(published) + 1) /\ e + 1 = s + (m + 1)
        /\ m + 1 \in 0 .. N
    BY <1>1
  <2>2. f[N - (m + 1)] = Times(p, r)
    <3>1. f[(N - m) - 1] = Times(published[j - (N - m)], f[N - m]) BY <1>2, <2>1
    <3> QED BY <2>1, <3>1
  <2>3. p \in Int /\ r \in Int
    <3>1. p \in Nat \ {0} BY <1>1, <2>1
    <3>2. N - m \in 0 .. N BY <1>1
    <3>3. r \in Nat BY <1>2, <3>2
    <3> QED BY <3>1, <3>3
  <2>4. modpow(v[e], r) = v[s] BY <1>4
  <2>5. modpow(v[e + 1], p) = v[e] /\ v[e + 1] \in Group BY <2>1
  <2> HIDE DEF e, p, r
  <2>6. modpow(v[e + 1], Times(p, r)) = modpow(modpow(v[e + 1], p), r)
    BY <2>3, <2>5, PowTimes
  <2>7. modpow(v[e + 1], f[N - (m + 1)]) = v[s] BY <2>2, <2>4, <2>5, <2>6
  <2> QED BY <2>1, <2>7
<1> HIDE DEF N, S
<1>5. \A m \in 0 .. N : m \in S BY <1>1, <1>3, <1>4, UpTo
<1>6. N \in S BY <1>1, <1>5
<1>7. s + N = j /\ N - N = 0 BY <1>1 DEF N
<1> QED BY <1>2, <1>6, <1>7 DEF S

(* A divisor of what one of the covered removals published divides x.       *)
LEMMA CoveredMultiple ==
  ASSUME published \in Seq(Nat \ {0}), NEW x \in Nat, NEW s \in 1..Len(published),
         NEW j \in (s + 1)..(Len(published) + 1), Covers(x, s, j),
         NEW h \in Nat, NEW e \in s..(j - 1), Multiple(published[e], h)
  PROVE  Multiple(x, h)
<1> DEFINE N == j - s
<1>1. /\ Len(published) \in Nat /\ s \in Nat /\ j \in Nat /\ s < j /\ N \in Nat
      /\ \A n \in 1 .. N : published[j - n] \in Nat \ {0}
      /\ j - e \in 1 .. N /\ j - (j - e) = e
  <2>1. Len(published) \in Nat /\ s \in Nat /\ j \in Nat /\ s < j /\ N \in Nat
    OBVIOUS
  <2>2. \A n \in 1 .. N : j - n \in 1..Len(published) BY <2>1
  <2> QED BY <2>1, <2>2
<1>2. PICK f \in [0 .. N -> Nat] :
        /\ f[0] = x /\ f[N] = 1
        /\ \A n \in 1 .. N : f[n - 1] = Times(published[j - n], f[n])
  BY CoveredFactors
<1> DEFINE S == { n \in 0 .. N : \E c \in Nat : x = Times(c, f[n]) }
<1> HIDE DEF N
<1>3. 0 \in S
  <2>1. x = Times(1, f[0]) BY <1>2, TimesLaws
  <2> QED BY <1>1, <2>1
<1>4. ASSUME NEW n \in 0 .. (N - 1), n \in S PROVE n + 1 \in S
  <2> DEFINE p == published[j - (n + 1)]
             a == f[n + 1]
  <2>1. n + 1 \in 1 .. N /\ n + 1 \in 0 .. N /\ (n + 1) - 1 = n BY <1>1
  <2>2. f[n] = Times(p, a) BY <1>2, <2>1
  <2>3. p \in Nat /\ a \in Nat BY <1>1, <1>2, <2>1
  <2>4. PICK c \in Nat : x = Times(c, f[n]) BY <1>4
  <2> HIDE DEF p, a
  <2>5. x = Times(Times(c, p), a) BY <2>2, <2>3, <2>4, TimesLaws
  <2>6. Times(c, p) \in Nat BY <2>3, TimesNat
  <2> QED BY <2>1, <2>5, <2>6 DEF a
<1> HIDE DEF S
<1>5. \A n \in 0 .. N : n \in S BY <1>1, <1>3, <1>4, UpTo
<1> DEFINE n == j - e
           p == published[e]
           a == f[n]
<1>6. n - 1 \in S /\ n - 1 \in 0 .. N /\ n \in 0 .. N BY <1>1, <1>5
<1>7. PICK c \in Nat : x = Times(c, f[n - 1]) BY <1>6 DEF S
<1>8. f[n - 1] = Times(p, a) /\ a \in Nat BY <1>1, <1>2, <1>6
<1>9. PICK k \in Nat : p = h * k BY DEF Multiple
<1> HIDE DEF n, p, a
<1>10. x = Times(c, Times(h * k, a)) BY <1>7, <1>8, <1>9
<1>11. Times(c, Times(h * k, a)) = h * Times(Times(c, k), a) BY <1>8 DEF Times
<1>12. Times(Times(c, k), a) \in Nat BY <1>8, TimesNat
<1> QED BY <1>10, <1>11, <1>12 DEF Multiple

-----------------------------------------------------------------------------
Era == [value: Group, items: SUBSET Elements, removed: SUBSET Elements]

(* A step that leaves every copy of the accumulator as it was.              *)
SameValues ==
  /\ history' \in Seq(Era) /\ Len(history') = Len(history)
  /\ \A e \in 1..Len(history) : history'[e].value = history[e].value

(* Elements are natural numbers greater than one.                           *)
LEMMA ElementsNat == \A x \in Elements : x \in Nat \ {0, 1}
BY ElementsAssumption

(* There is always a current epoch.                                         *)
LEMMA EpochPositive == TypeOK => Epoch \in 1..Len(history)
BY DEF TypeOK, Epoch

(* The initial states satisfy the invariant.                                *)
LEMMA InitIInv == Init => IInv
<1> SUFFICES ASSUME Init PROVE IInv OBVIOUS
<1>1. value \in Group BY ParameterAssumption DEF Init
<1>2. history \in Seq(Era) /\ Len(history) = 1 /\ history[1].value = value
  BY <1>1 DEF Init, Era
<1>3. TypeOK
  BY <1>1, <1>2, ParameterAssumption DEF Init, TypeOK, Epoch, Witness, Era
<1>4. PublishedExplainsValues
  BY <1>2 DEF Init, PublishedExplainsValues, Epoch
<1>5. InSyncVerifies BY DEF Init, InSyncVerifies
<1> QED BY <1>3, <1>4, <1>5 DEF IInv

(* Inserting elements touches no value, so it touches no chain of values.   *)
LEMMA AccumulateStep ==
  ASSUME IInv, NEW items \in SUBSET Elements, Accumulate(items)
  PROVE  /\ SameValues
         /\ PublishedExplainsValues'
         /\ value' \in Group /\ elements' \in SUBSET Elements
         /\ published' = published /\ slips' = slips
<1>1. TypeOK /\ PublishedExplainsValues BY DEF IInv
<1>2. history \in Seq(Era) /\ Epoch \in 1..Len(history) /\ Epoch = Len(history)
  BY <1>1, EpochPositive DEF TypeOK, Era, Epoch
<1> DEFINE era == [history[Epoch] EXCEPT !.items = @ \cup items]
<1>3. history' = [history EXCEPT ![Epoch] = era]
  BY DEF Accumulate
<1>4. era \in Era /\ era.value = history[Epoch].value
  <2>1. history[Epoch] \in Era BY <1>2
  <2> QED BY <2>1 DEF Era
<1> HIDE DEF era
<1>5. /\ history' \in Seq(Era) /\ Len(history') = Len(history)
      /\ \A e \in 1..Len(history) : history'[e].value = history[e].value
  <2>1. \A e \in 1..Len(history) :
          history'[e] = IF e = Epoch THEN era ELSE history[e]
    BY <1>2, <1>3, <1>4, ExceptSeq
  <2>2. history' \in Seq(Era) /\ Len(history') = Len(history)
    BY <1>2, <1>3, <1>4, ExceptSeq
  <2> QED BY <1>4, <2>1, <2>2
<1>6. SameValues BY <1>5 DEF SameValues
<1>7. UNCHANGED <<value, published, slips>> BY DEF Accumulate
<1>8. PublishedExplainsValues'
  <2>1. value' = history'[Len(history')].value
    BY <1>1, <1>2, <1>5, <1>7 DEF PublishedExplainsValues
  <2>2. ASSUME NEW i \in 1..Len(published')
        PROVE  modpow(history'[i + 1].value, published'[i]) = history'[i].value
    <3>1. i \in 1..Len(published) /\ i \in 1..Len(history) /\ i + 1 \in 1..Len(history)
      BY <1>1, <1>7 DEF TypeOK, Epoch
    <3> QED BY <1>1, <1>5, <1>7, <3>1 DEF PublishedExplainsValues
  <2> QED BY <2>1, <2>2 DEF PublishedExplainsValues, Epoch
<1> QED BY <1>1, <1>6, <1>7, <1>8 DEF Accumulate, TypeOK

(* A witness the issuer hands over verifies.                                *)
LEMMA HandOverStep ==
  ASSUME IInv, NEW x \in Elements, Invertible(x), HandOver(x), SameValues
  PROVE  /\ wit' \in [Elements -> Witness]
         /\ synced' \in [Elements -> 0..Len(history')]
         /\ InSyncVerifies'
<1>1. TypeOK /\ PublishedExplainsValues /\ InSyncVerifies BY DEF IInv
<1>2. value \in Group /\ Epoch \in 1..Len(history) /\ Epoch = Len(history)
  BY <1>1, EpochPositive DEF TypeOK, Epoch
<1> DEFINE u == witness_mem(value, x)
<1>3. u \in Group /\ modpow(u, x) = value
  <2>1. x \in Exponents BY ExponentsOf
  <2> QED BY <1>2, <2>1, DivideOut DEF witness_mem
<1>4. u # NoWitness BY <1>3, OrdPositive DEF Group, NoWitness
<1>5. wit' = [wit EXCEPT ![x] = u] /\ synced' = [synced EXCEPT ![x] = Epoch]
  BY DEF HandOver
<1> HIDE DEF u
<1>6. wit' \in [Elements -> Witness]
  BY <1>1, <1>3, <1>5 DEF TypeOK, Witness
<1>7. synced' \in [Elements -> 0..Len(history')]
  BY <1>1, <1>2, <1>5 DEF TypeOK, SameValues
<1>8. InSyncVerifies'
  <2>1. SUFFICES ASSUME NEW h \in Elements, synced'[h] # 0
                 PROVE  /\ wit'[h] # NoWitness
                        /\ modpow(wit'[h], h) = history'[synced'[h]].value
    BY DEF InSyncVerifies, Verifies, verify_mem
  <2>2. CASE h = x
    <3>1. wit'[h] = u /\ synced'[h] = Epoch BY <1>1, <1>5, <2>2 DEF TypeOK
    <3>2. history'[Epoch].value = value
      BY <1>1, <1>2 DEF SameValues, PublishedExplainsValues
    <3> QED BY <1>3, <1>4, <2>2, <3>1, <3>2
  <2>3. CASE h # x
    <3>1. wit'[h] = wit[h] /\ synced'[h] = synced[h] BY <1>1, <1>5, <2>3 DEF TypeOK
    <3>2. Verifies(h, synced[h]) BY <1>1, <2>1, <3>1 DEF InSyncVerifies
    <3>3. synced[h] \in 1..Len(history)
      BY <1>1, <1>2, <2>1, <3>1 DEF TypeOK
    <3> QED BY <3>1, <3>2, <3>3 DEF Verifies, verify_mem, SameValues
  <2> QED BY <2>2, <2>3
<1> QED BY <1>6, <1>7, <1>8

(* Where no witness changes, a step that keeps the values keeps them valid. *)
LEMMA WitnessesKept ==
  ASSUME IInv, SameValues, UNCHANGED <<wit, synced>>
  PROVE  InSyncVerifies'
<1>1. SUFFICES ASSUME NEW h \in Elements, synced'[h] # 0
               PROVE  /\ wit'[h] # NoWitness
                      /\ modpow(wit'[h], h) = history'[synced'[h]].value
  BY DEF InSyncVerifies, Verifies, verify_mem
<1>2. Verifies(h, synced[h]) BY <1>1 DEF IInv, InSyncVerifies
<1>3. synced[h] \in 1..Len(history) BY <1>1 DEF IInv, TypeOK, Epoch
<1> QED BY <1>2, <1>3 DEF Verifies, verify_mem, SameValues

(* A removal divides out what it publishes and leaves the past alone.       *)
LEMMA SubtractStep ==
  ASSUME IInv, NEW item \in Exponents, NEW items \in SUBSET Elements,
         Subtract(item, items)
  PROVE  IInv'
<1>1. TypeOK /\ PublishedExplainsValues /\ InSyncVerifies BY DEF IInv
<1>2. /\ value \in Group /\ history \in Seq(Era) /\ published \in Seq(Exponents)
      /\ Len(history) = Len(published) + 1 /\ Len(published) \in Nat
  BY <1>1 DEF TypeOK, Era, Epoch
<1>3. value' \in Group /\ modpow(value', item) = value
  BY <1>2, DivideOut DEF Subtract
<1>4. elements' \in SUBSET Elements BY <1>1 DEF Subtract, TypeOK
<1> DEFINE era == [value |-> value', items |-> elements', removed |-> items]
<1>5. era \in Era BY <1>3, <1>4 DEF Era
<1>6. published' = Append(published, item) /\ history' = Append(history, era)
  BY DEF Subtract
<1>7. era.value = value' OBVIOUS
<1> HIDE DEF era
<1>9. /\ published' \in Seq(Exponents) /\ Len(published') = Len(published) + 1
      /\ \A i \in 1..Len(published) : published'[i] = published[i]
      /\ published'[Len(published) + 1] = item
  BY <1>2, <1>6, AppendProperties
<1>10. /\ history' \in Seq(Era) /\ Len(history') = Len(history) + 1
       /\ \A e \in 1..Len(history) : history'[e] = history[e]
       /\ history'[Len(history) + 1] = era
  BY <1>2, <1>5, <1>6, AppendProperties
<1>11. TypeOK'
  <2>1. UNCHANGED <<wit, synced, slips>> BY DEF Subtract
  <2>2. synced' \in [Elements -> 0..Len(history')]
    BY <1>1, <1>2, <1>10, <2>1 DEF TypeOK, Epoch
  <2> QED BY <1>1, <1>2, <1>3, <1>4, <1>9, <1>10, <2>1, <2>2 DEF TypeOK, Era, Epoch
<1>12. PublishedExplainsValues'
  <2>1. value' = history'[Len(history')].value BY <1>7, <1>10
  <2>2. ASSUME NEW i \in 1..Len(published')
        PROVE  modpow(history'[i + 1].value, published'[i]) = history'[i].value
    <3>1. CASE i \in 1..Len(published)
      <4>1. i \in 1..Len(history) /\ i + 1 \in 1..Len(history) BY <1>2, <3>1
      <4> QED BY <1>1, <1>9, <1>10, <3>1, <4>1 DEF PublishedExplainsValues
    <3>2. CASE i = Len(published) + 1
      <4>1. i = Len(history) /\ i \in 1..Len(history) BY <1>2, <3>2
      <4>2. history'[i + 1].value = value' BY <1>7, <1>10, <4>1
      <4>3. history'[i].value = value
        BY <1>1, <1>10, <4>1 DEF PublishedExplainsValues, Epoch
      <4> QED BY <1>3, <1>9, <3>2, <4>2, <4>3
    <3> QED BY <1>2, <1>9, <3>1, <3>2
  <2> QED BY <2>1, <2>2 DEF PublishedExplainsValues, Epoch
<1>13. InSyncVerifies'
  <2>1. SUFFICES ASSUME NEW h \in Elements, synced'[h] # 0
                 PROVE  /\ wit'[h] # NoWitness
                        /\ modpow(wit'[h], h) = history'[synced'[h]].value
    BY DEF InSyncVerifies, Verifies, verify_mem
  <2>2. wit' = wit /\ synced' = synced BY DEF Subtract
  <2>3. synced[h] \in 1..Len(history) BY <1>1, <2>1, <2>2 DEF TypeOK, Epoch
  <2>4. Verifies(h, synced[h]) BY <1>1, <2>1, <2>2 DEF InSyncVerifies
  <2> QED BY <1>10, <2>2, <2>3, <2>4 DEF Verifies, verify_mem
<1> QED BY <1>11, <1>12, <1>13 DEF IInv

(* An update that accounts for the removals of some epochs, and what it     *)
(* says of them.                                                            *)
LEMMA AccountsFor ==
  ASSUME IInv, NEW h \in Elements, NEW i \in 1..Len(published), NEW j \in 1..Epoch,
         Accounts(h, i, j)
  PROVE  /\ synced[h] \in 1..Len(published) /\ j \in (synced[h] + 1)..Epoch
         /\ modpow(history[j].value, published[i]) = history[synced[h]].value
         /\ \A e \in synced[h]..(j - 1) :
              Multiple(published[e], h) => Multiple(published[i], h)
<1> DEFINE s == synced[h]
           v == [e \in 1..Len(history) |-> history[e].value]
<1>1. /\ history \in Seq(Era) /\ published \in Seq(Exponents) /\ Len(published) \in Nat
      /\ Epoch = Len(history) /\ Len(history) = Len(published) + 1
      /\ s \in 0..Len(history) /\ h \in Nat
  BY ElementsNat DEF IInv, TypeOK, Era, Epoch
<1>2. published \in Seq(Nat \ {0}) BY <1>1, ExponentsNat
<1>3. /\ s \in 1..Len(published) /\ j \in (s + 1)..(Len(published) + 1)
      /\ Covers(published[i], s, j) /\ published[i] \in Nat
  BY <1>1, <1>2 DEF Accounts
<1>5. v \in [1..(Len(published) + 1) -> Group]
  <2>1. \A e \in 1..Len(history) : history[e] \in Era BY <1>1
  <2> QED BY <1>1, <2>1 DEF Era
<1>6. \A e \in s..(j - 1) : modpow(v[e + 1], published[e]) = v[e]
  <2> SUFFICES ASSUME NEW e \in s..(j - 1) PROVE modpow(v[e + 1], published[e]) = v[e]
    OBVIOUS
  <2>1. e \in 1..Len(published) /\ e \in 1..Len(history) /\ e + 1 \in 1..Len(history)
    BY <1>1, <1>3
  <2> QED BY <2>1 DEF IInv, PublishedExplainsValues
<1>7. v[j] = history[j].value /\ v[s] = history[s].value BY <1>1, <1>3
<1> HIDE DEF v, s
<1>8. modpow(v[j], published[i]) = v[s]
  BY <1>2, <1>3, <1>5, <1>6, CoveredValue
<1>9. \A e \in s..(j - 1) : Multiple(published[e], h) => Multiple(published[i], h)
  BY <1>1, <1>2, <1>3, CoveredMultiple
<1> QED BY <1>1, <1>3, <1>7, <1>8, <1>9 DEF s

(* A holder that applies an update which accounts for the removals between  *)
(* its epoch and that of the copy reaches the latter; one that does not is  *)
(* no longer counted as in sync, or was not changed.                        *)
LEMMA HolderUpdateStep ==
  ASSUME IInv, NEW h \in Elements, NEW i \in 1..Len(published), NEW j \in 1..Epoch,
         HolderUpdate(h, i, j)
  PROVE  IInv'
<1>1. TypeOK /\ PublishedExplainsValues /\ InSyncVerifies BY DEF IInv
<1>2. /\ history \in Seq(Era) /\ published \in Seq(Exponents) /\ j \in 1..Len(history)
      /\ wit[h] \in Group /\ slips \in 0..MaxSlips
      /\ synced \in [Elements -> 0..Len(history)]
      /\ wit \in [Elements -> Witness]
  BY <1>1 DEF TypeOK, Era, Epoch, HolderUpdate, Witness
<1>3. h \in Nat \ {0, 1} /\ published[i] \in Exponents /\ published[i] \in Nat
  BY <1>2, ElementsNat, ExponentsNat
<1>4. history[j].value \in Group
  <2>1. history[j] \in Era BY <1>2
  <2> QED BY <2>1 DEF Era
<1>5. UNCHANGED <<value, elements, published, history>> BY DEF HolderUpdate
<1> DEFINE results == extended_gcd[h][published[i]]
<1>61. results = GcdResults(h, published[i]) BY <1>3 DEF extended_gcd
<1> HIDE DEF results
<1>6. PICK r \in results :
        /\ wit' = [wit EXCEPT ![h] = update(history[j].value, wit[h], r)]
        /\ synced' = [synced EXCEPT ![h] =
                        CASE r.gcd = 1 /\ Accounts(h, i, j) -> j
                          [] r.gcd = 1 /\ ~Accounts(h, i, j) -> 0
                          [] r.gcd # 1 -> IF r.a = 0 THEN @ ELSE 0]
  BY DEF HolderUpdate, results
<1>62. r \in GcdResults(h, published[i]) BY <1>6, <1>61
<1> DEFINE u == update(history[j].value, wit[h], r)
           s == synced'[h]
<1>7. r.a \in Int /\ r.b \in Int BY <1>3, <1>62, GcdTypes
<1>8. u \in Group
  <2>1. wit[h] \in Int /\ history[j].value \in Int BY <1>2, <1>4, OrdPositive DEF Group
  <2>2. modpow(wit[h], r.b) \in Group /\ modpow(history[j].value, r.a) \in Group
    BY <1>7, <2>1, ModPow
  <2>3. modpow(wit[h], r.b) \in Int /\ modpow(history[j].value, r.a) \in Int
    BY <2>2, OrdPositive DEF Group
  <2> QED BY <2>3, ModMul DEF update
<1>9. wit'[h] = u BY <1>2, <1>6
<1>10. s = CASE r.gcd = 1 /\ Accounts(h, i, j) -> j
             [] r.gcd = 1 /\ ~Accounts(h, i, j) -> 0
             [] r.gcd # 1 -> IF r.a = 0 THEN synced[h] ELSE 0
  BY <1>2, <1>6
<1> HIDE DEF u, s
<1>11. s \in 0..Len(history) BY <1>2, <1>10
<1>12. TypeOK'
  <2>1. wit' \in [Elements -> Witness] BY <1>2, <1>6, <1>8 DEF Witness, u
  <2>2. synced' \in [Elements -> 0..Len(history)]
    <3>1. synced' = [synced EXCEPT ![h] = s] BY <1>2, <1>6 DEF s
    <3> QED BY <1>2, <1>11, <3>1
  <2>3. slips' \in 0..MaxSlips BY <1>2, ParameterAssumption DEF HolderUpdate
  <2> QED BY <1>1, <1>5, <2>1, <2>2, <2>3 DEF TypeOK, Epoch
<1>13. PublishedExplainsValues'
  BY <1>1, <1>5 DEF PublishedExplainsValues, Epoch
<1>14. InSyncVerifies'
  <2>1. SUFFICES ASSUME NEW g \in Elements, synced'[g] # 0
                 PROVE  /\ wit'[g] # NoWitness
                        /\ modpow(wit'[g], g) = history[synced'[g]].value
    BY <1>5 DEF InSyncVerifies, Verifies, verify_mem
  <2>2. CASE g # h
    <3>1. wit'[g] = wit[g] /\ synced'[g] = synced[g] BY <1>2, <1>6, <2>2
    <3> QED BY <1>1, <2>1, <3>1 DEF InSyncVerifies, Verifies, verify_mem
  <2>3. CASE g = h /\ r.gcd = 1
    <3>1. Accounts(h, i, j) /\ s = j BY <1>10, <2>1, <2>3 DEF s
    <3>2. /\ synced[h] \in 1..Len(published)
          /\ modpow(history[j].value, published[i]) = history[synced[h]].value
      BY <3>1, AccountsFor
    <3>3. modpow(wit[h], h) = history[synced[h]].value
      BY <1>1, <3>2 DEF InSyncVerifies, Verifies, verify_mem
    <3>4. modpow(history[j].value, published[i]) = history[synced[h]].value
      BY <3>2
    <3>5. r.a * h + r.b * published[i] = 1 BY <1>3, <1>62, <2>3, Bezout
    <3>6. history[synced[h]].value \in Group
      <4>1. synced[h] \in 1..Len(history) BY <1>1, <3>2 DEF TypeOK, Epoch
      <4>2. history[synced[h]] \in Era BY <1>2, <4>1
      <4> QED BY <4>2 DEF Era
    <3>7. verify_mem(history[j].value, h, u)
      BY <1>2, <1>3, <1>4, <1>7, <3>3, <3>4, <3>5, <3>6, UpdateCarriesOver DEF u
    <3>8. u # NoWitness BY <1>8, OrdPositive DEF Group, NoWitness
    <3> QED BY <1>9, <2>3, <3>1, <3>7, <3>8 DEF verify_mem, s
  <2>4. CASE g = h /\ r.gcd # 1
    <3>1. r.a = 0 /\ s = synced[h] /\ synced[h] # 0
      BY <1>10, <2>1, <2>4 DEF s
    <3>2. u = wit[h]
      <4>1. published[i] % h = 0 /\ r.b = 1
        BY <1>62, <2>4, <3>1 DEF GcdResults
      <4> QED BY <1>2, <1>4, <3>1, <4>1, UpdateIsIdentity DEF u
    <3>3. Verifies(h, synced[h]) BY <1>1, <3>1 DEF InSyncVerifies
    <3> QED BY <1>9, <2>4, <3>1, <3>2, <3>3 DEF Verifies, verify_mem, s
  <2> QED BY <2>2, <2>3, <2>4
<1> QED BY <1>12, <1>13, <1>14 DEF IInv

-----------------------------------------------------------------------------
(* Every step of the system keeps the invariant.                            *)
LEMMA NextIInv == IInv /\ [Next]_vars => IInv'
<1> SUFFICES ASSUME IInv, [Next]_vars PROVE IInv' OBVIOUS
<1>1. ASSUME NEW x \in Elements, insert(x) PROVE IInv'
  <2>1. Invertible(x) /\ Accumulate({x}) /\ HandOver(x) BY <1>1 DEF insert
  <2>2. /\ SameValues /\ PublishedExplainsValues'
        /\ value' \in Group /\ elements' \in SUBSET Elements
        /\ published' = published /\ slips' = slips
    BY <2>1, AccumulateStep
  <2>3. /\ wit' \in [Elements -> Witness] /\ InSyncVerifies'
        /\ synced' \in [Elements -> 0..Len(history')]
    BY <2>1, <2>2, HandOverStep
  <2>4. TypeOK' BY <2>2, <2>3 DEF IInv, TypeOK, SameValues, Era, Epoch
  <2> QED BY <2>2, <2>3, <2>4 DEF IInv
<1>2. ASSUME NEW items \in SUBSET Elements, insert_batch(items) PROVE IInv'
  <2>1. Accumulate(items) /\ UNCHANGED <<wit, synced>> BY <1>2 DEF insert_batch
  <2>2. /\ SameValues /\ PublishedExplainsValues'
        /\ value' \in Group /\ elements' \in SUBSET Elements
        /\ published' = published /\ slips' = slips
    BY <2>1, AccumulateStep
  <2>3. InSyncVerifies' BY <2>1, <2>2, WitnessesKept
  <2>4. TypeOK' BY <2>1, <2>2 DEF IInv, TypeOK, SameValues, Era, Epoch
  <2> QED BY <2>2, <2>3, <2>4 DEF IInv
<1>3. ASSUME NEW x \in Elements, issue_witness(x) PROVE IInv'
  <2>1. /\ Invertible(x) /\ HandOver(x)
        /\ UNCHANGED <<value, elements, published, history, slips>>
    BY <1>3 DEF issue_witness
  <2>2. SameValues BY <2>1 DEF SameValues, IInv, TypeOK, Era
  <2>3. /\ wit' \in [Elements -> Witness] /\ InSyncVerifies'
        /\ synced' \in [Elements -> 0..Len(history')]
    BY <2>1, <2>2, HandOverStep
  <2>4. TypeOK' BY <2>1, <2>3 DEF IInv, TypeOK, Epoch
  <2>5. PublishedExplainsValues' BY <2>1 DEF IInv, PublishedExplainsValues, Epoch
  <2> QED BY <2>3, <2>4, <2>5 DEF IInv
<1>4. ASSUME NEW x \in Elements, remove(x) PROVE IInv'
  <2>1. Subtract(x, {x}) /\ x \in Exponents BY <1>4, ExponentsOf DEF remove
  <2> QED BY <2>1, SubtractStep
<1>5. ASSUME NEW items \in SUBSET Elements, remove_batch(items) PROVE IInv'
  <2>1. Subtract(Product(items), items) /\ Product(items) \in Exponents
    BY <1>5, ExponentsOf DEF remove_batch
  <2> QED BY <2>1, SubtractStep
<1>6. ASSUME NEW h \in Elements, NEW i \in 1..Len(published), NEW j \in 1..Epoch,
             HolderUpdate(h, i, j)
      PROVE  IInv'
  BY <1>6, HolderUpdateStep
<1>7. CASE UNCHANGED vars
  BY <1>7 DEF vars, IInv, TypeOK, PublishedExplainsValues, InSyncVerifies,
              Verifies, verify_mem, Epoch
<1> QED BY <1>1, <1>2, <1>3, <1>4, <1>5, <1>6, <1>7 DEF Next

(* The inductive invariant holds of every behaviour.                        *)
THEOREM Invariance == Spec => []IInv
<1>1. Init => IInv BY InitIInv
<1>2. IInv /\ [Next]_vars => IInv' BY NextIInv
<1> QED BY <1>1, <1>2, PTL DEF Spec

(* Type correctness of CLRSAB.                                              *)
THEOREM TypeCorrect == Spec => []TypeOK
<1>1. IInv => TypeOK BY DEF IInv
<1> QED BY <1>1, Invariance, PTL

(* Completeness: a holder that follows the published removals of others     *)
(* always has a witness that verify_mem accepts for the epoch it reached.   *)
THEOREM Completeness == Spec => []InSyncVerifies
<1>1. IInv => InSyncVerifies BY DEF IInv
<1> QED BY <1>1, Invariance, PTL

(* The published removals explain every value the accumulator has had.      *)
THEOREM Transparency == Spec => []PublishedExplainsValues
<1>1. IInv => PublishedExplainsValues BY DEF IInv
<1> QED BY <1>1, Invariance, PTL
-----------------------------------------------------------------------------
(* What is published for a removal is the product of what was removed.      *)
Labelled == \A i \in 1..Len(published) : published[i] = Product(history[i + 1].removed)

(* Insertions rewrite no label, a removal writes the one of its own.        *)
LEMMA NextLabelled == IInv /\ Labelled /\ [Next]_vars => Labelled'
<1> SUFFICES ASSUME IInv, Labelled, [Next]_vars PROVE Labelled' OBVIOUS
<1>1. /\ history \in Seq(Era) /\ published \in Seq(Exponents)
      /\ Len(history) = Len(published) + 1 /\ Len(published) \in Nat
      /\ Epoch \in 1..Len(history)
  BY EpochPositive DEF IInv, TypeOK, Era, Epoch
<1>2. ASSUME NEW items \in SUBSET Elements, Accumulate(items) PROVE Labelled'
  <2> DEFINE era == [history[Epoch] EXCEPT !.items = @ \cup items]
  <2>1. history' = [history EXCEPT ![Epoch] = era] /\ published' = published
    BY <1>2 DEF Accumulate
  <2>2. era \in Era /\ era.removed = history[Epoch].removed
    <3>1. history[Epoch] \in Era BY <1>1
    <3> QED BY <3>1 DEF Era
  <2> HIDE DEF era
  <2>3. \A e \in 1..Len(history) : history'[e].removed = history[e].removed
    BY <1>1, <2>1, <2>2, ExceptSeq
  <2> QED BY <1>1, <2>1, <2>3 DEF Labelled
<1>3. ASSUME NEW items \in SUBSET Elements, Subtract(Product(items), items)
      PROVE  Labelled'
  <2> DEFINE era == [value |-> value', items |-> elements', removed |-> items]
             item == Product(items)
  <2>1. published' = Append(published, item) /\ history' = Append(history, era)
    BY <1>3 DEF Subtract
  <2>2. era.removed = items OBVIOUS
  <2>3. item \in Exponents /\ item = Product(items) BY ExponentsOf
  <2> HIDE DEF era, item
  <2>4. /\ Len(published') = Len(published) + 1
        /\ \A i \in 1..Len(published) : published'[i] = published[i]
        /\ published'[Len(published) + 1] = item
        /\ \A e \in 1..Len(history) : history'[e] = history[e]
        /\ history'[Len(history) + 1] = era
    BY <1>1, <2>1
  <2>5. ASSUME NEW i \in 1..Len(published')
        PROVE  published'[i] = Product(history'[i + 1].removed)
    <3>1. CASE i \in 1..Len(published)
      <4>1. i + 1 \in 1..Len(history) BY <1>1, <3>1
      <4> QED BY <2>4, <3>1, <4>1 DEF Labelled
    <3>2. CASE i = Len(published) + 1
      BY <1>1, <2>2, <2>3, <2>4, <3>2
    <3> QED BY <1>1, <2>4, <3>1, <3>2
  <2> QED BY <2>5 DEF Labelled
<1>4. ASSUME NEW x \in Elements, remove(x) PROVE Labelled'
  <2>1. Product({x}) = x BY ElementsNat, ProductSingle DEF Product
  <2>2. Subtract(Product({x}), {x}) BY <1>4, <2>1 DEF remove
  <2> QED BY <1>3, <2>2
<1>5. ASSUME UNCHANGED <<published, history>> PROVE Labelled'
  BY <1>5 DEF Labelled
<1> QED
  BY <1>2, <1>3, <1>4, <1>5
  DEF Next, vars, insert, insert_batch, issue_witness, remove_batch, HolderUpdate

(* The two invariants together.                                             *)
THEOREM LabelInvariance == Spec => [](IInv /\ Labelled)
<1>1. Init => Labelled BY DEF Init, Labelled
<1> QED BY <1>1, InitIInv, NextIInv, NextLabelled, PTL DEF Spec

(* What the issuer publishes for a batch tells nothing of phi: the          *)
(* difference to the product everybody can compute is zero.                 *)
THEOREM PublishesProducts == Spec => []PublishesNoPhiMultiple
<1>1. IInv /\ Labelled => PublishesNoPhiMultiple
  <2> SUFFICES ASSUME IInv, Labelled, NEW i \in 1..Len(published)
               PROVE  Product(history[i + 1].removed) - published[i] = 0
    BY DEF PublishesNoPhiMultiple
  <2>1. published[i] \in Exponents BY DEF IInv, TypeOK
  <2>2. published[i] \in Int /\ published[i] = Product(history[i + 1].removed)
    BY <2>1, ExponentsNat DEF Labelled
  <2> QED BY <2>2
<1> QED BY <1>1, LabelInvariance, PTL

-----------------------------------------------------------------------------
(* A holder that verifies against the current value still does after a step *)
(* that neither publishes a removal nor is an update.                       *)
LEMMA KeptValid ==
  ASSUME IInv, SameValues, NEW h \in Elements, Verifies(h, Epoch), wit'[h] = wit[h]
  PROVE  Verifies(h, Epoch)'
<1>1. Epoch' = Epoch /\ Epoch \in 1..Len(history) /\ Epoch \in 1..Len(history')
  BY EpochPositive DEF SameValues, Epoch, IInv
<1>2. history'[Epoch'].value = history[Epoch].value BY <1>1 DEF SameValues
<1> QED BY <1>2 DEF Verifies, verify_mem, NoWitness

(* Static updates: of the steps that change neither the published removals  *)
(* nor come from a holder's update, none takes a valid witness away.        *)
THEOREM StaticUpdates == Spec => OnlyRemovalsInvalidate
<1> DEFINE A == \A h \in Elements :
                  Verifies(h, Epoch) /\ ~Verifies(h, Epoch)' =>
                    \/ Len(published') > Len(published)
                    \/ \E i \in 1..Len(published), j \in 1..Epoch : HolderUpdate(h, i, j)
<1>1. IInv /\ [Next]_vars => [A]_vars
  <2> SUFFICES ASSUME IInv, Next, NEW h \in Elements, Verifies(h, Epoch),
                      ~Verifies(h, Epoch)'
               PROVE  \/ Len(published') > Len(published)
                      \/ \E i \in 1..Len(published), j \in 1..Epoch : HolderUpdate(h, i, j)
    OBVIOUS
  <2>1. /\ wit \in [Elements -> Witness] /\ synced \in [Elements -> 0..Len(history)]
        /\ history \in Seq(Era) /\ published \in Seq(Exponents) /\ value \in Group
        /\ Epoch \in 1..Len(history) /\ value = history[Epoch].value
    BY EpochPositive DEF IInv, TypeOK, Era, Epoch, PublishedExplainsValues
  <2>2. ASSUME NEW x \in Elements, Invertible(x), HandOver(x), SameValues PROVE FALSE
    <3>1. CASE h = x
      <4>1. wit' \in [Elements -> Witness] /\ InSyncVerifies' BY <2>2, HandOverStep
      <4>2. synced'[h] = Epoch /\ Epoch' = Epoch /\ Epoch # 0
        BY <2>1, <2>2, <3>1 DEF HandOver, SameValues, Epoch
      <4> QED BY <4>1, <4>2 DEF InSyncVerifies, Verifies
    <3>2. CASE h # x
      <4>1. wit'[h] = wit[h] BY <2>1, <2>2, <3>2 DEF HandOver
      <4> QED BY <2>2, <4>1, KeptValid
    <3> QED BY <3>1, <3>2
  <2>3. ASSUME NEW x \in Elements, insert(x) PROVE FALSE
    <3>1. Invertible(x) /\ Accumulate({x}) /\ HandOver(x) BY <2>3 DEF insert
    <3>2. SameValues BY <3>1, AccumulateStep
    <3> QED BY <2>2, <3>1, <3>2
  <2>4. ASSUME NEW items \in SUBSET Elements, insert_batch(items) PROVE FALSE
    <3>1. Accumulate(items) /\ wit' = wit BY <2>4 DEF insert_batch
    <3>2. SameValues BY <3>1, AccumulateStep
    <3> QED BY <3>1, <3>2, KeptValid
  <2>5. ASSUME NEW x \in Elements, issue_witness(x) PROVE FALSE
    <3>1. Invertible(x) /\ HandOver(x) /\ history' = history
      BY <2>5 DEF issue_witness
    <3>2. SameValues BY <2>1, <3>1 DEF SameValues
    <3> QED BY <2>2, <3>1, <3>2
  <2>6. ASSUME NEW x, NEW items, Subtract(x, items)
        PROVE  Len(published') > Len(published)
    BY <2>1, <2>6 DEF Subtract
  <2>7. ASSUME NEW g \in Elements, NEW i \in 1..Len(published), NEW j \in 1..Epoch,
               HolderUpdate(g, i, j)
        PROVE  h = g
    <3>1. SUFFICES ASSUME h # g PROVE FALSE OBVIOUS
    <3>2. wit'[h] = wit[h] /\ history' = history
      BY <2>1, <2>7, <3>1 DEF HolderUpdate
    <3>3. SameValues BY <2>1, <3>2 DEF SameValues
    <3> QED BY <3>2, <3>3, KeptValid
  <2> QED BY <2>3, <2>4, <2>5, <2>6, <2>7 DEF Next, remove, remove_batch
<1>2. OnlyRemovalsInvalidate <=> [][A]_vars BY DEF OnlyRemovalsInvalidate
<1> HIDE DEF A
<1> QED BY <1>1, <1>2, Invariance, PTL DEF Spec
-----------------------------------------------------------------------------
(* The updates of holders.                                                  *)

(* An update that takes a holder on names it in none of the removals that   *)
(* it accounts for: then it would not be coprime to the holder's element.   *)
LEMMA CoprimeNotRemoved ==
  ASSUME IInv, Labelled, NEW h \in Elements, NEW i \in 1..Len(published),
         NEW j \in 1..Epoch, Accounts(h, i, j),
         NEW r \in GcdResults(h, published[i]), r.gcd = 1
  PROVE  \A e \in synced[h]..(j - 1) : h \notin history[e + 1].removed
<1>1. /\ history \in Seq(Era) /\ Len(published) \in Nat /\ published \in Seq(Exponents)
      /\ Len(history) = Len(published) + 1 /\ Epoch = Len(history) /\ h \in Nat \ {0, 1}
  BY ElementsNat DEF IInv, TypeOK, Era, Epoch
<1>2. /\ synced[h] \in 1..Len(published) /\ j \in (synced[h] + 1)..Epoch
      /\ \A e \in synced[h]..(j - 1) :
           Multiple(published[e], h) => Multiple(published[i], h)
  BY AccountsFor
<1> SUFFICES ASSUME NEW e \in synced[h]..(j - 1), h \in history[e + 1].removed
             PROVE  FALSE
  OBVIOUS
<1> DEFINE D == history[e + 1].removed
<1>3. e \in 1..Len(published) /\ e + 1 \in 1..Len(history) BY <1>1, <1>2
<1>4. D \in SUBSET Elements
  <2>1. history[e + 1] \in Era BY <1>1, <1>3
  <2> QED BY <2>1 DEF Era
<1>5. published[e] = Product(D) BY <1>3 DEF Labelled
<1>6. h \in D OBVIOUS
<1> HIDE DEF D
<1>7. Multiple(published[e], h) BY <1>4, <1>5, <1>6, BatchProduct
<1>8. Multiple(published[i], h) BY <1>2, <1>7
<1>9. published[i] % h = 0 BY <1>1, <1>8, MultipleMod
<1>10. r.gcd = h BY <1>1, <1>9 DEF GcdResults
<1> QED BY <1>1, <1>10

(* The Bezout pair (1, 0) replaces a witness by the value.                  *)
LEMMA UpdateTakesValue ==
  ASSUME NEW acc \in Group, NEW u \in Group, NEW r, r.a = 1, r.b = 0
  PROVE  update(acc, u, r) = acc
<1> DEFINE w == update(acc, u, r)
           ub == modpow(u, 0)
           va == modpow(acc, 1)
<1>1. acc \in Int /\ u \in Int BY OrdPositive DEF Group
<1>2. ub \in Group /\ Cong(ub, Times(u, 0)) BY <1>1, ModPow
<1>3. va \in Group /\ Cong(va, Times(acc, 1)) BY <1>1, ModPow
<1>4. Times(u, 0) = 0 /\ Times(acc, 1) = acc BY <1>1 DEF Times
<1>5. w = modmul(ub, va) BY DEF update
<1> HIDE DEF w, ub, va
<1>6. ub \in Int /\ va \in Int BY <1>2, <1>3, OrdPositive DEF Group
<1>7. w \in Group /\ Cong(w, ub + va) BY <1>5, <1>6, ModMul
<1>8. Cong(ub + va, 0 + acc) BY <1>1, <1>2, <1>3, <1>4, <1>6, CongAdd
<1>9. 0 + acc = acc BY <1>1
<1>10. Cong(w, acc)
  <2>1. w \in Int /\ ub + va \in Int BY <1>6, <1>7, OrdPositive DEF Group
  <2> QED BY <2>1, <1>1, <1>7, <1>8, <1>9, CongTrans
<1> QED BY <1>7, <1>10, CongGroup DEF w

(* What an update does: the holder goes on to a later epoch, past removals  *)
(* of others; or stays with what it had; or gets the value of the epoch     *)
(* after its own removal; or is lost, and an update out of its turn is      *)
(* counted.                                                                 *)
UpdateOutcome(h, j) ==
  LET e == synced[h]
  IN  \/ /\ e \in 1..Len(published) /\ j \in (e + 1)..Epoch
         /\ \A k \in e..(j - 1) : h \notin history[k + 1].removed
         /\ synced'[h] = j /\ slips' \in {slips, slips + 1}
      \/ synced'[h] = e /\ wit'[h] = wit[h] /\ slips' \in {slips, slips + 1}
      \/ /\ e \in 1..Len(published) /\ j = e + 1 /\ synced'[h] = 0
         /\ wit'[h] = history[j].value /\ slips' = slips
      \/ synced'[h] = 0 /\ slips' = slips + 1

(* Those are all, and other holders are left alone.                         *)
LEMMA UpdateOutcomes ==
  ASSUME IInv, Labelled, NEW h \in Elements, NEW i \in 1..Len(published),
         NEW j \in 1..Epoch, HolderUpdate(h, i, j)
  PROVE  /\ UpdateOutcome(h, j)
         /\ \A g \in Elements : g # h => wit'[g] = wit[g] /\ synced'[g] = synced[g]
         /\ UNCHANGED <<elements, published, history>>
<1>1. /\ history \in Seq(Era) /\ published \in Seq(Exponents) /\ Len(published) \in Nat
      /\ Len(history) = Len(published) + 1 /\ Epoch = Len(history)
      /\ synced \in [Elements -> 0..Len(history)] /\ wit \in [Elements -> Witness]
      /\ h \in Nat \ {0, 1} /\ published[i] \in Exponents /\ wit[h] \in Group
  BY ElementsNat DEF IInv, TypeOK, Era, Epoch, HolderUpdate, Witness
<1>2. history[j].value \in Group
  <2>1. history[j] \in Era BY <1>1
  <2> QED BY <2>1 DEF Era
<1>3. PICK r \in GcdResults(h, published[i]) :
        /\ wit' = [wit EXCEPT ![h] = update(history[j].value, wit[h], r)]
        /\ synced' = [synced EXCEPT ![h] =
                        CASE r.gcd = 1 /\ Accounts(h, i, j) -> j
                          [] r.gcd = 1 /\ ~Accounts(h, i, j) -> 0
                          [] r.gcd # 1 -> IF r.a = 0 THEN @ ELSE 0]
  BY <1>1 DEF HolderUpdate, extended_gcd
<1> DEFINE u == update(history[j].value, wit[h], r)
<1> HIDE DEF u
<1>4. wit'[h] = u /\ \A g \in Elements : g # h => wit'[g] = wit[g] /\ synced'[g] = synced[g]
  BY <1>1, <1>3 DEF u
<1>5. slips' = IF InTurn(h, i, j) THEN slips ELSE slips + 1
  BY DEF HolderUpdate
<1>6. Accounts(h, i, j) => synced[h] \in 1..Len(published) /\ j \in (synced[h] + 1)..Epoch
  BY AccountsFor
<1>11. InTurn(h, i, j) => Accounts(h, i, j) /\ j = synced[h] + 1 BY DEF InTurn
<1>7. CASE r.gcd = 1 /\ Accounts(h, i, j)
  <2>1. synced'[h] = j BY <1>1, <1>3, <1>7
  <2>2. \A k \in synced[h]..(j - 1) : h \notin history[k + 1].removed
    BY <1>3, <1>7, CoprimeNotRemoved
  <2> QED BY <1>4, <1>5, <1>6, <1>7, <2>1, <2>2 DEF HolderUpdate, UpdateOutcome
<1>8. CASE r.gcd = 1 /\ ~Accounts(h, i, j)
  <2>1. synced'[h] = 0 /\ slips' = slips + 1 BY <1>1, <1>3, <1>5, <1>8, <1>11
  <2> QED BY <1>4, <2>1 DEF HolderUpdate, UpdateOutcome
<1>9. CASE r.gcd # 1
  <2>1. (r.a = 1 /\ r.b = 0) \/ (r.a = 0 /\ r.b = 1)
    BY <1>9 DEF GcdResults
  <2>2. CASE r.a = 0 /\ r.b = 1
    <3>1. synced'[h] = synced[h] BY <1>1, <1>3, <1>9, <2>2
    <3>2. u = wit[h] BY <1>1, <1>2, <2>2, UpdateIsIdentity DEF u
    <3> QED BY <1>4, <1>5, <3>1, <3>2 DEF HolderUpdate, UpdateOutcome
  <2>3. CASE r.a = 1 /\ r.b = 0
    <3>1. synced'[h] = 0 BY <1>1, <1>3, <1>9, <2>3
    <3>2. u = history[j].value BY <1>1, <1>2, <2>3, UpdateTakesValue DEF u
    <3> QED BY <1>4, <1>5, <1>6, <1>11, <3>1, <3>2 DEF HolderUpdate, UpdateOutcome
  <2> QED BY <2>1, <2>2, <2>3
<1> QED BY <1>7, <1>8, <1>9

-----------------------------------------------------------------------------
(* The contract of Lifecycle with the epoch each holder is in sync with for *)
(* its credential: by Completeness, verify_mem accepts it for that epoch.   *)
revocations == [e \in 1..Len(published) |-> history[e + 1].removed]

Contract == INSTANCE Lifecycle_proofs WITH
  Holders <- Elements, members <- elements, revoked <- revocations, cred <- synced

(* One set of elements for each removal.                                    *)
LEMMA RevocationsType ==
  IInv => revocations \in Seq(SUBSET Elements) /\ Len(revocations) = Len(published)
<1> SUFFICES ASSUME IInv
             PROVE  revocations \in Seq(SUBSET Elements) /\ Len(revocations) = Len(published)
  OBVIOUS
<1>1. /\ history \in Seq(Era) /\ Len(published) \in Nat
      /\ Len(history) = Len(published) + 1
  BY DEF IInv, TypeOK, Era, Epoch
<1>2. \A e \in 1..Len(published) : history[e + 1].removed \in SUBSET Elements
  <2> SUFFICES ASSUME NEW e \in 1..Len(published)
               PROVE  history[e + 1].removed \in SUBSET Elements
    OBVIOUS
  <2>1. e + 1 \in 1..Len(history) BY <1>1
  <2>2. history[e + 1] \in Era BY <1>1, <2>1
  <2> QED BY <2>2 DEF Era
<1> QED BY <1>1, <1>2 DEF revocations

(* The current epoch is the same in both.                                   *)
LEMMA SameEpoch == IInv => Contract!epoch = Epoch
  BY RevocationsType DEF Contract!epoch, IInv, TypeOK, Epoch

(* Insertions and issuance are additions: who is served is in sync.         *)
LEMMA AddStep ==
  ASSUME IInv, NEW items \in SUBSET Elements, NEW served \in SUBSET Elements,
         served \subseteq elements \cup items,
         elements' = elements \cup items, published' = published,
         Len(history') = Len(history),
         \A e \in 1..Len(history) : history'[e].removed = history[e].removed,
         synced' = [h \in Elements |-> IF h \in served THEN Epoch ELSE synced[h]]
  PROVE  Contract!Add(items, served)
<1>1. Len(published) \in Nat /\ Len(history) = Len(published) + 1
  BY DEF IInv, TypeOK, Epoch
<1>2. revocations' = revocations
  <2>1. \A e \in 1..Len(published) : e + 1 \in 1..Len(history) BY <1>1
  <2> QED BY <2>1 DEF revocations
<1> QED BY <1>2, SameEpoch DEF Contract!Add

(* A removal is a revocation, if it is of accumulated elements.             *)
LEMMA RevokeStep ==
  ASSUME IInv, NEW items \in SUBSET Elements, items # {}, items \subseteq elements,
         NEW item, Subtract(item, items)
  PROVE  Contract!Revoke(items)
<1>1. /\ history \in Seq(Era) /\ published \in Seq(Exponents) /\ Len(published) \in Nat
      /\ Len(history) = Len(published) + 1 /\ Len(published) < MaxRemovals
  BY DEF IInv, TypeOK, Era, Epoch, Subtract
<1>2. revocations \in Seq(SUBSET Elements) /\ Len(revocations) = Len(published)
  BY RevocationsType
<1>3. revocations' = Append(revocations, items)
  <2>1. /\ Len(published') = Len(published) + 1
        /\ \A e \in 1..Len(history) : history'[e] = history[e]
        /\ history'[Len(history) + 1].removed = items
    BY <1>1 DEF Subtract
  <2>2. revocations' = [e \in 1..(Len(published) + 1) |-> history'[e + 1].removed]
    BY <2>1 DEF revocations
  <2>3. \A e \in 1..Len(published) : history'[e + 1].removed = history[e + 1].removed
    BY <1>1, <2>1
  <2>4. \A e \in 1..(Len(published) + 1) :
          history'[e + 1].removed = IF e <= Len(published) THEN revocations[e] ELSE items
    BY <1>1, <2>1, <2>3 DEF revocations
  <2> DEFINE new == Append(revocations, items)
  <2>5. /\ new \in Seq(SUBSET Elements) /\ Len(new) = Len(published) + 1
        /\ \A e \in 1..Len(published) : new[e] = revocations[e]
        /\ new[Len(published) + 1] = items
    BY <1>2, AppendProperties
  <2> HIDE DEF new
  <2>6. new = [e \in 1..(Len(published) + 1) |-> new[e]]
    BY <1>1, <2>5
  <2>7. \A e \in 1..(Len(published) + 1) : history'[e + 1].removed = new[e]
    BY <1>1, <2>4, <2>5
  <2> QED BY <2>2, <2>6, <2>7 DEF new
<1> QED BY <1>1, <1>2, <1>3 DEF Contract!Revoke, Subtract

(* An update that accounts for removals of others is a refresh; any other   *)
(* either leaves the holder where it was or spoils its credential.          *)
LEMMA UpdateStep ==
  ASSUME IInv, Labelled, NEW h \in Elements, NEW i \in 1..Len(published),
         NEW j \in 1..Epoch, HolderUpdate(h, i, j)
  PROVE  Contract!Refresh(h) \/ Contract!Spoil(h) \/ UNCHANGED Contract!vars
<1> DEFINE s == synced'[h]
<1>1. /\ synced \in [Elements -> 0..Epoch] /\ Len(revocations) = Len(published)
      /\ synced' \in [Elements -> 0..Epoch']
      /\ Len(published) \in Nat /\ Epoch = Len(published) + 1
  <2>1. IInv' BY HolderUpdateStep
  <2>2. synced' \in [Elements -> 0..Epoch'] BY <2>1 DEF IInv, TypeOK
  <2> QED BY <2>2, RevocationsType DEF IInv, TypeOK
<1>2. /\ UpdateOutcome(h, j) /\ UNCHANGED <<elements, revocations>>
      /\ \A g \in Elements : g # h => synced'[g] = synced[g]
  BY UpdateOutcomes DEF revocations
<1>3. synced' = [synced EXCEPT ![h] = s]
  BY <1>1, <1>2
<1> HIDE DEF s
<1>4. CASE s = synced[h]
  <2>1. synced' = synced BY <1>1, <1>3, <1>4
  <2> QED BY <1>2, <2>1 DEF Contract!vars
<1>5. CASE s = 0 /\ s # synced[h]
  BY <1>2, <1>3, <1>5 DEF Contract!Spoil
<1>6. CASE s # 0 /\ s # synced[h]
  <2>1. /\ synced[h] \in 1..Len(published) /\ s \in (synced[h] + 1)..Epoch
        /\ \A k \in synced[h]..(s - 1) : h \notin history[k + 1].removed
    BY <1>2, <1>6 DEF UpdateOutcome, s
  <2>2. \A k \in synced[h]..(s - 1) : k \in 1..Len(published) BY <1>1, <2>1
  <2>3. \A k \in synced[h]..(s - 1) : h \notin revocations[k]
    BY <2>1, <2>2 DEF revocations
  <2>4. Contract!epoch = Epoch BY SameEpoch
  <2>5. synced[h] # 0 /\ s \in (synced[h] + 1)..Contract!epoch BY <2>1, <2>4
  <2>6. Contract!Refresh(h) BY <1>2, <1>3, <2>3, <2>5 DEF Contract!Refresh
  <2> QED BY <2>6
<1> QED BY <1>4, <1>5, <1>6

(* What an accumulation changes of what the contract speaks of.             *)
LEMMA AccumulateAdds ==
  ASSUME IInv, NEW items \in SUBSET Elements, Accumulate(items)
  PROVE  /\ elements' = elements \cup items /\ published' = published
         /\ Len(history') = Len(history)
         /\ \A e \in 1..Len(history) : history'[e].removed = history[e].removed
<1> DEFINE era == [history[Epoch] EXCEPT !.items = @ \cup items]
<1>1. history \in Seq(Era) /\ Epoch \in 1..Len(history)
  BY EpochPositive DEF IInv, TypeOK, Era
<1>2. history' = [history EXCEPT ![Epoch] = era] BY DEF Accumulate
<1>3. era \in Era /\ era.removed = history[Epoch].removed
  <2>1. history[Epoch] \in Era BY <1>1
  <2> QED BY <2>1 DEF Era
<1> HIDE DEF era
<1> QED BY <1>1, <1>2, <1>3, ExceptSeq DEF Accumulate

(* Who is handed a witness is served.                                       *)
LEMMA HandOverServes ==
  ASSUME IInv, NEW x \in Elements, HandOver(x)
  PROVE  synced' = [h \in Elements |-> IF h \in {x} THEN Epoch ELSE synced[h]]
BY DEF HandOver, IInv, TypeOK

(* The three ways to accumulate or to serve are additions, for callers that *)
(* issue witnesses for accumulated elements only.                           *)
LEMMA AdditionSteps ==
  ASSUME IInv, MemberOnly
  PROVE  /\ \A x \in Elements : insert(x) => Contract!Add({x}, {x})
         /\ \A items \in SUBSET Elements : insert_batch(items) => Contract!Add(items, {})
         /\ \A x \in Elements : issue_witness(x) => Contract!Add({}, {x})
<1>1. ASSUME NEW x \in Elements, insert(x) PROVE Contract!Add({x}, {x})
  <2>1. Accumulate({x}) /\ HandOver(x) BY <1>1 DEF insert
  <2> QED BY <2>1, AccumulateAdds, HandOverServes, AddStep
<1>2. ASSUME NEW items \in SUBSET Elements, insert_batch(items)
      PROVE  Contract!Add(items, {})
  <2>1. Accumulate(items) /\ synced' = synced BY <1>2 DEF insert_batch
  <2>2. synced' = [h \in Elements |-> IF h \in {} THEN Epoch ELSE synced[h]]
    BY <2>1 DEF IInv, TypeOK
  <2> QED BY <2>1, <2>2, AccumulateAdds, AddStep
<1>3. ASSUME NEW x \in Elements, issue_witness(x) PROVE Contract!Add({}, {x})
  <2>1. /\ x \in elements /\ HandOver(x)
        /\ UNCHANGED <<elements, published, history>>
    BY <1>3 DEF issue_witness
  <2>2. elements' = elements \cup {} BY <2>1
  <2> QED BY <2>1, <2>2, HandOverServes, AddStep
<1> QED BY <1>1, <1>2, <1>3

(* The two ways to remove are revocations, for callers that remove          *)
(* accumulated elements only.                                               *)
LEMMA RevocationSteps ==
  ASSUME IInv, MemberOnly
  PROVE  /\ \A x \in Elements : remove(x) => Contract!Revoke({x})
         /\ \A items \in SUBSET Elements : remove_batch(items) => Contract!Revoke(items)
<1>1. ASSUME NEW x \in Elements, remove(x) PROVE Contract!Revoke({x})
  BY <1>1, RevokeStep DEF remove
<1>2. ASSUME NEW items \in SUBSET Elements, remove_batch(items)
      PROVE  Contract!Revoke(items)
  BY <1>2, RevokeStep DEF remove_batch
<1> QED BY <1>1, <1>2

(* Callers that revoke accumulated elements and issue witnesses for these   *)
(* only, with either way to build the program, get what Lifecycle promises: *)
(* the accumulator implements it.                                           *)
THEOREM KeepsContract == MemberOnly /\ Spec => Contract!Spec
<1> SUFFICES ASSUME MemberOnly PROVE Spec => Contract!Spec
  OBVIOUS
<1>1. Init => Contract!Init
  <2> SUFFICES ASSUME Init PROVE Contract!Init OBVIOUS
  <2>1. revocations = << >> BY DEF Init, revocations
  <2> QED BY <2>1 DEF Init, Contract!Init
<1>2. IInv /\ Labelled /\ [Next]_vars => [Contract!Next]_(Contract!vars)
  <2> SUFFICES ASSUME IInv, Labelled, [Next]_vars
               PROVE  Contract!Next \/ UNCHANGED Contract!vars
    OBVIOUS
  <2>1. ASSUME NEW x \in Elements, insert(x) \/ issue_witness(x) \/ remove(x)
        PROVE  Contract!Next
    <3>1. Contract!Add({x}, {x}) \/ Contract!Add({}, {x}) \/ Contract!Revoke({x})
      BY <2>1, AdditionSteps, RevocationSteps
    <3> QED BY <3>1 DEF Contract!Next
  <2>2. ASSUME NEW items \in SUBSET Elements, insert_batch(items) \/ remove_batch(items)
        PROVE  Contract!Next
    <3>1. Contract!Add(items, {}) \/ Contract!Revoke(items)
      BY <2>2, AdditionSteps, RevocationSteps
    <3> QED BY <3>1 DEF Contract!Next
  <2>3. ASSUME NEW h \in Elements, NEW i \in 1..Len(published), NEW j \in 1..Epoch,
               HolderUpdate(h, i, j)
        PROVE  Contract!Next \/ UNCHANGED Contract!vars
    BY <2>3, UpdateStep DEF Contract!Next
  <2>4. CASE UNCHANGED vars
    BY <2>4 DEF vars, Contract!vars, revocations
  <2> QED BY <2>1, <2>2, <2>3, <2>4 DEF Next
<1> QED BY <1>1, <1>2, LabelInvariance, PTL DEF Spec, Contract!Spec

(* What the contract promises of credentials holds of witnesses: a holder   *)
(* that is up to date, through re-admissions and updates out of turn, is    *)
(* accumulated and has a witness that verifies against the current value.   *)
UpToDateAreMembers ==
  \A h \in Elements : synced[h] = Epoch => h \in elements /\ Verifies(h, Epoch)

(* For callers that remove, and issue witnesses for, accumulated elements.  *)
THEOREM UpToDate == MemberOnly /\ Spec => []UpToDateAreMembers
<1> SUFFICES ASSUME MemberOnly PROVE Spec => []UpToDateAreMembers
  OBVIOUS
<1>1. Spec => []Contract!OnlyMembersPresent
  BY KeepsContract, Contract!OnlyMembers, PTL
<1>2. IInv /\ Contract!OnlyMembersPresent => UpToDateAreMembers
  <2> SUFFICES ASSUME IInv, Contract!OnlyMembersPresent, NEW h \in Elements,
                      synced[h] = Epoch
               PROVE  h \in elements /\ Verifies(h, Epoch)
    BY DEF UpToDateAreMembers
  <2>1. h \in elements
    BY SameEpoch DEF Contract!OnlyMembersPresent, Contract!CanPresent
  <2>2. Epoch # 0 BY DEF IInv, TypeOK, Epoch
  <2> QED BY <2>1, <2>2 DEF IInv, InSyncVerifies
<1> QED BY <1>1, <1>2, Invariance, PTL
-----------------------------------------------------------------------------
(* Who was accumulated when.  The elements accumulated at some time in the  *)
(* current epoch are still; who was so in an epoch and is not named by the  *)
(* removal that ended it is so in the next; and a holder that follows an    *)
(* epoch was accumulated in it, for an update of its own removal does not   *)
(* carry it over, whoever the caller revokes.  That holds if witnesses are  *)
(* issued to members only: by the callers' care or by the debug assertion.  *)
IssuedToMembers == DebugAssertions \/ MemberOnly

ItemsPassOn ==
  /\ history[Epoch].items = elements
  /\ \A e \in 1..Len(published) :
       history[e].items \subseteq history[e + 1].items \cup history[e + 1].removed

SyncedAccumulated ==
  IssuedToMembers => \A h \in Elements : synced[h] # 0 => h \in history[synced[h]].items

(* A witness left by updates in turn alone, if no epoch is followed with it,*)
(* is what the update of the holder's own removal made of it in a release   *)
(* build: the value after a removal that ended an epoch it was a member in. *)
OwnRemoval(h) ==
  \E e \in 1..Len(published) :
    (IssuedToMembers => h \in history[e].items) /\ wit[h] = history[e + 1].value

Followed ==
  slips = 0 => \A h \in Elements : wit[h] = NoWitness \/ synced[h] # 0 \/ OwnRemoval(h)

MInv == IInv /\ Labelled /\ ItemsPassOn /\ SyncedAccumulated /\ Followed

(* A step that changes no epoch's value or removed elements, and takes no   *)
(* element out of one.                                                      *)
ErasGrow ==
  /\ published' = published /\ Len(history') = Len(history)
  /\ \A e \in 1..Len(history) :
       /\ history'[e].value = history[e].value
       /\ history'[e].removed = history[e].removed
       /\ history[e].items \subseteq history'[e].items

(* Accumulate is one: it adds to the current epoch only.                    *)
LEMMA AccumulateGrows ==
  ASSUME IInv, ItemsPassOn, NEW items \in SUBSET Elements, Accumulate(items)
  PROVE  /\ ErasGrow /\ ItemsPassOn' /\ slips' = slips
         /\ elements' = elements \cup items /\ Epoch' = Epoch
         /\ history'[Epoch].items = elements'
<1>1. /\ history \in Seq(Era) /\ Epoch \in 1..Len(history) /\ Epoch = Len(history)
      /\ Len(published) \in Nat /\ Len(history) = Len(published) + 1
  BY EpochPositive DEF IInv, TypeOK, Era, Epoch
<1>2. SameValues BY AccumulateStep
<1> DEFINE era == [history[Epoch] EXCEPT !.items = @ \cup items]
<1>3. history' = [history EXCEPT ![Epoch] = era] /\ published' = published
  BY DEF Accumulate
<1>4. /\ era \in Era /\ era.removed = history[Epoch].removed
      /\ era.items = history[Epoch].items \cup items
  <2>1. history[Epoch] \in Era BY <1>1
  <2> QED BY <2>1 DEF Era
<1> HIDE DEF era
<1>5. /\ Len(history') = Len(history) /\ history'[Epoch] = era
      /\ \A e \in 1..Len(history) : e # Epoch => history'[e] = history[e]
  BY <1>1, <1>3, <1>4, ExceptSeq
<1>6. \A e \in 1..Len(history) :
        /\ history'[e].removed = history[e].removed
        /\ history[e].items \subseteq history'[e].items
  BY <1>4, <1>5
<1>7. ErasGrow
  BY <1>2, <1>3, <1>5, <1>6 DEF ErasGrow, SameValues
<1>8. elements' = elements \cup items /\ Epoch' = Epoch /\ slips' = slips
  BY <1>5 DEF Accumulate, Epoch
<1>9. history'[Epoch].items = elements'
  BY <1>4, <1>5, <1>8 DEF ItemsPassOn
<1>10. ASSUME NEW e \in 1..Len(published)
       PROVE  history'[e].items \subseteq history'[e + 1].items \cup history'[e + 1].removed
  <2>1. e \in 1..Len(history) /\ e + 1 \in 1..Len(history) /\ e # Epoch
    BY <1>1
  <2>2. history'[e] = history[e]
    BY <1>5, <2>1
  <2>3. history[e].items \subseteq history[e + 1].items \cup history[e + 1].removed
    BY DEF ItemsPassOn
  <2> QED BY <1>6, <2>1, <2>2, <2>3
<1>11. ItemsPassOn'
  BY <1>3, <1>8, <1>9, <1>10 DEF ItemsPassOn
<1> QED BY <1>7, <1>8, <1>9, <1>11

(* What is handed over is for the current epoch and an accumulated element. *)
LEMMA HandOverKeeps ==
  ASSUME IInv, SyncedAccumulated, Followed, ErasGrow, NEW x \in Elements,
         HandOver(x), IssuedToMembers => x \in history'[Epoch].items, slips' = slips
  PROVE  SyncedAccumulated' /\ Followed'
<1>1. /\ wit \in [Elements -> Witness] /\ synced \in [Elements -> 0..Len(history)]
      /\ Epoch \in 1..Len(history) /\ Len(published) \in Nat
      /\ Len(history) = Len(published) + 1
  BY EpochPositive DEF IInv, TypeOK, Epoch
<1>2. synced'[x] = Epoch /\ \A h \in Elements : h # x => wit'[h] = wit[h] /\ synced'[h] = synced[h]
  BY <1>1 DEF HandOver
<1>3. SyncedAccumulated'
  <2> SUFFICES ASSUME IssuedToMembers, NEW h \in Elements, synced'[h] # 0
               PROVE  h \in history'[synced'[h]].items
    BY DEF SyncedAccumulated, IssuedToMembers
  <2>1. CASE h = x BY <1>2, <2>1
  <2>2. CASE h # x
    <3>1. synced'[h] = synced[h] /\ synced[h] \in 1..Len(history) BY <1>1, <1>2, <2>2
    <3> QED BY <3>1 DEF SyncedAccumulated, ErasGrow
  <2> QED BY <2>1, <2>2
<1>4. Followed'
  <2> SUFFICES ASSUME slips = 0, NEW h \in Elements, wit'[h] # NoWitness, synced'[h] = 0
               PROVE  OwnRemoval(h)'
    BY DEF Followed, NoWitness
  <2>1. h # x BY <1>1, <1>2
  <2>2. OwnRemoval(h) BY <1>2, <2>1 DEF Followed
  <2>3. PICK e \in 1..Len(published) :
          (IssuedToMembers => h \in history[e].items) /\ wit[h] = history[e + 1].value
    BY <2>2 DEF OwnRemoval
  <2>4. e \in 1..Len(history) /\ e + 1 \in 1..Len(history) BY <1>1
  <2>5. /\ IssuedToMembers => h \in history'[e].items
        /\ wit'[h] = history'[e + 1].value /\ e \in 1..Len(published')
    BY <1>2, <2>1, <2>3, <2>4 DEF ErasGrow
  <2> QED BY <2>5 DEF OwnRemoval, IssuedToMembers
<1> QED BY <1>3, <1>4

(* So does a step in which no witness changes.                              *)
LEMMA KeptFollowed ==
  ASSUME IInv, SyncedAccumulated, Followed, slips' = slips, UNCHANGED <<wit, synced>>,
         Len(published') >= Len(published),
         \A e \in 1..Len(history) :
           history'[e].value = history[e].value /\ history[e].items \subseteq history'[e].items,
         Len(published') \in Nat
  PROVE  SyncedAccumulated' /\ Followed'
<1>1. /\ synced \in [Elements -> 0..Len(history)] /\ Len(published) \in Nat
      /\ Len(history) = Len(published) + 1
  BY DEF IInv, TypeOK, Epoch
<1>2. SyncedAccumulated'
  <2> SUFFICES ASSUME IssuedToMembers, NEW h \in Elements, synced[h] # 0
               PROVE  h \in history'[synced[h]].items
    BY DEF SyncedAccumulated, IssuedToMembers
  <2>1. synced[h] \in 1..Len(history) BY <1>1
  <2> QED BY <2>1 DEF SyncedAccumulated
<1>3. Followed'
  <2> SUFFICES ASSUME slips = 0, NEW h \in Elements, wit[h] # NoWitness, synced[h] = 0
               PROVE  OwnRemoval(h)'
    BY DEF Followed, NoWitness
  <2>1. PICK e \in 1..Len(published) :
          (IssuedToMembers => h \in history[e].items) /\ wit[h] = history[e + 1].value
    BY DEF Followed, OwnRemoval
  <2>2. e \in 1..Len(history) /\ e + 1 \in 1..Len(history) /\ e \in 1..Len(published') BY <1>1
  <2> QED BY <2>1, <2>2 DEF OwnRemoval, IssuedToMembers
<1> QED BY <1>2, <1>3

(* A removal takes what it names and nothing else into the next epoch.      *)
LEMMA SubtractPassesOn ==
  ASSUME IInv, ItemsPassOn, SyncedAccumulated, Followed, NEW item,
         NEW items \in SUBSET Elements, Subtract(item, items)
  PROVE  ItemsPassOn' /\ SyncedAccumulated' /\ Followed'
<1>1. /\ history \in Seq(Era) /\ published \in Seq(Exponents) /\ Len(published) \in Nat
      /\ Len(history) = Len(published) + 1 /\ Epoch = Len(history)
  BY DEF IInv, TypeOK, Era, Epoch
<1> DEFINE era == [value |-> value', items |-> elements', removed |-> items]
<1>2. published' = Append(published, item) /\ history' = Append(history, era)
      /\ elements' = elements \ items
  BY DEF Subtract
<1>3. era.items = elements' /\ era.removed = items OBVIOUS
<1> HIDE DEF era
<1>4. /\ Len(published') = Len(published) + 1 /\ Len(history') = Len(history) + 1
      /\ \A e \in 1..Len(history) : history'[e] = history[e]
      /\ history'[Len(history) + 1] = era
  BY <1>1, <1>2
<1>5. SyncedAccumulated' /\ Followed'
  <2>1. UNCHANGED <<wit, synced>> /\ slips' = slips BY DEF Subtract
  <2>2. Len(published') >= Len(published) /\ Len(published') \in Nat BY <1>1, <1>4
  <2>3. \A e \in 1..Len(history) :
          history'[e].value = history[e].value /\ history[e].items \subseteq history'[e].items
    BY <1>4
  <2> QED BY <2>1, <2>2, <2>3, KeptFollowed
<1>6. ASSUME NEW e \in 1..Len(published')
      PROVE  history'[e].items \subseteq history'[e + 1].items \cup history'[e + 1].removed
  <2>1. CASE e \in 1..Len(published)
    <3>1. e \in 1..Len(history) /\ e + 1 \in 1..Len(history) BY <1>1, <2>1
    <3> QED BY <1>4, <2>1, <3>1 DEF ItemsPassOn
  <2>2. CASE e = Len(history)
    <3>1. history'[e].items = elements /\ history'[e + 1] = era
      BY <1>1, <1>4, <2>2 DEF ItemsPassOn
    <3> QED BY <1>2, <1>3, <3>1
  <2> QED BY <1>1, <1>4, <2>1, <2>2
<1>7. history'[Epoch'].items = elements'
  BY <1>1, <1>3, <1>4 DEF Epoch
<1> QED BY <1>5, <1>6, <1>7 DEF ItemsPassOn

(* Who is not named by the removals that ended some epochs passes through   *)
(* all of them.                                                             *)
LEMMA PassesThrough ==
  ASSUME IInv, ItemsPassOn, NEW h \in Elements, NEW s \in 1..Len(published),
         NEW j \in (s + 1)..Epoch, h \in history[s].items,
         \A e \in s..(j - 1) : h \notin history[e + 1].removed
  PROVE  h \in history[j].items
<1>1. /\ Len(published) \in Nat /\ Epoch = Len(published) + 1
      /\ s \in Nat /\ j \in Nat /\ s < j
  BY DEF IInv, TypeOK
<1> DEFINE N == j - s
           S == { n \in 0 .. N : h \in history[s + n].items }
<1>2. N \in Nat /\ s + N = j BY <1>1
<1>3. 0 \in S
  <2>1. s + 0 = s /\ 0 \in 0 .. N BY <1>1
  <2> QED BY <2>1
<1>4. ASSUME NEW n \in 0 .. (N - 1), n \in S PROVE n + 1 \in S
  <2> DEFINE e == s + n
  <2>1. /\ e \in 1..Len(published) /\ e \in s..(j - 1) /\ e + 1 = s + (n + 1)
        /\ n + 1 \in 0 .. N
    BY <1>1
  <2>2. h \in history[e].items BY <1>4
  <2> HIDE DEF e
  <2>3. h \in history[e + 1].items BY <2>1, <2>2 DEF ItemsPassOn
  <2> QED BY <2>1, <2>3
<1> HIDE DEF N, S
<1>5. \A n \in 0 .. N : n \in S BY <1>2, <1>3, <1>4, UpTo
<1>6. N \in S BY <1>2, <1>5
<1> QED BY <1>2, <1>6 DEF S

(* An update keeps what is said of who was accumulated when.                *)
LEMMA UpdatePassesOn ==
  ASSUME MInv, NEW h \in Elements, NEW i \in 1..Len(published), NEW j \in 1..Epoch,
         HolderUpdate(h, i, j)
  PROVE  ItemsPassOn' /\ SyncedAccumulated' /\ Followed'
<1>1. IInv /\ Labelled /\ ItemsPassOn /\ SyncedAccumulated /\ Followed
  BY DEF MInv
<1>2. /\ synced \in [Elements -> 0..Len(history)] /\ Len(published) \in Nat
      /\ Len(history) = Len(published) + 1 /\ slips \in Nat
  BY <1>1, ParameterAssumption DEF IInv, TypeOK, Epoch
<1>3. /\ UpdateOutcome(h, j)
      /\ \A g \in Elements : g # h => wit'[g] = wit[g] /\ synced'[g] = synced[g]
      /\ UNCHANGED <<elements, published, history>>
  BY <1>1, UpdateOutcomes
<1>4. ItemsPassOn' BY <1>1, <1>3 DEF ItemsPassOn, Epoch
<1>5. SyncedAccumulated'
  <2> SUFFICES ASSUME IssuedToMembers, NEW g \in Elements, synced'[g] # 0
               PROVE  g \in history[synced'[g]].items
    BY <1>3 DEF SyncedAccumulated, IssuedToMembers
  <2>1. CASE g # h BY <1>1, <1>3, <2>1 DEF SyncedAccumulated
  <2>2. CASE g = h /\ synced'[h] = synced[h] BY <1>1, <2>2 DEF SyncedAccumulated
  <2>3. CASE g = h /\ synced'[h] # synced[h]
    <3>1. /\ synced[h] \in 1..Len(published) /\ j \in (synced[h] + 1)..Epoch
          /\ synced'[h] = j /\ \A k \in synced[h]..(j - 1) : h \notin history[k + 1].removed
      BY <1>3, <2>3 DEF UpdateOutcome
    <3>2. h \in history[synced[h]].items BY <1>1, <3>1 DEF SyncedAccumulated
    <3> QED BY <1>1, <2>3, <3>1, <3>2, PassesThrough
  <2> QED BY <2>1, <2>2, <2>3
<1>6. Followed'
  <2> SUFFICES ASSUME slips' = 0, NEW g \in Elements, wit'[g] # NoWitness, synced'[g] = 0
               PROVE  OwnRemoval(g)'
    BY DEF Followed, NoWitness
  <2>1. slips = 0 /\ slips' = slips BY <1>2, <1>3 DEF UpdateOutcome
  <2>2. CASE g # h \/ (synced'[h] = synced[h] /\ wit'[h] = wit[h])
    <3>1. wit'[g] = wit[g] /\ synced'[g] = synced[g] BY <1>3, <2>2
    <3>2. OwnRemoval(g) BY <1>1, <2>1, <3>1 DEF Followed
    <3> QED BY <1>3, <3>1, <3>2 DEF OwnRemoval, IssuedToMembers
  <2>3. CASE g = h /\ ~(synced'[h] = synced[h] /\ wit'[h] = wit[h])
    <3>1. /\ synced[h] \in 1..Len(published) /\ j = synced[h] + 1
          /\ wit'[h] = history[j].value
      BY <1>2, <1>3, <2>1, <2>3 DEF UpdateOutcome
    <3>2. IssuedToMembers => h \in history[synced[h]].items
      BY <1>1, <3>1 DEF SyncedAccumulated
    <3> QED BY <1>3, <2>3, <3>1, <3>2 DEF OwnRemoval, IssuedToMembers
  <2> QED BY <2>2, <2>3
<1> QED BY <1>4, <1>5, <1>6

(* Every step keeps it.                                                     *)
LEMMA NextMInv == MInv /\ [Next]_vars => MInv'
<1> SUFFICES ASSUME MInv, [Next]_vars PROVE MInv' OBVIOUS
<1>1. IInv /\ Labelled /\ ItemsPassOn /\ SyncedAccumulated /\ Followed
  BY DEF MInv
<1>2. IInv' /\ Labelled'
  BY <1>1, NextIInv, NextLabelled
<1> SUFFICES ItemsPassOn' /\ SyncedAccumulated' /\ Followed'
  BY <1>2 DEF MInv
<1>3. /\ history \in Seq(Era) /\ Len(published) \in Nat
      /\ Len(history) = Len(published) + 1 /\ Epoch = Len(history)
  BY <1>1 DEF IInv, TypeOK, Era, Epoch
<1>4. ASSUME NEW x \in Elements, insert(x)
      PROVE  ItemsPassOn' /\ SyncedAccumulated' /\ Followed'
  <2>1. Accumulate({x}) /\ HandOver(x) BY <1>4 DEF insert
  <2>2. ErasGrow /\ ItemsPassOn' /\ slips' = slips /\ x \in history'[Epoch].items
    BY <1>1, <2>1, AccumulateGrows
  <2> QED BY <1>1, <2>1, <2>2, HandOverKeeps
<1>5. ASSUME NEW items \in SUBSET Elements, insert_batch(items)
      PROVE  ItemsPassOn' /\ SyncedAccumulated' /\ Followed'
  <2>1. Accumulate(items) /\ UNCHANGED <<wit, synced>> BY <1>5 DEF insert_batch
  <2>2. ErasGrow /\ ItemsPassOn' /\ slips' = slips
    BY <1>1, <2>1, AccumulateGrows
  <2>3. Len(published') >= Len(published) /\ Len(published') \in Nat
    BY <1>3, <2>2 DEF ErasGrow
  <2> QED BY <1>1, <2>1, <2>2, <2>3, KeptFollowed DEF ErasGrow
<1>6. ASSUME NEW x \in Elements, issue_witness(x)
      PROVE  ItemsPassOn' /\ SyncedAccumulated' /\ Followed'
  <2>1. /\ IssuedToMembers => x \in elements
        /\ HandOver(x) /\ UNCHANGED <<elements, published, history, slips>>
    BY <1>6 DEF issue_witness, IssuedToMembers
  <2>2. ErasGrow /\ (IssuedToMembers => x \in history'[Epoch].items)
    BY <1>1, <2>1 DEF ErasGrow, ItemsPassOn
  <2>3. ItemsPassOn' BY <1>1, <2>1 DEF ItemsPassOn, Epoch
  <2> QED BY <1>1, <2>1, <2>2, <2>3, HandOverKeeps
<1>7. ASSUME NEW x \in Elements, remove(x)
      PROVE  ItemsPassOn' /\ SyncedAccumulated' /\ Followed'
  BY <1>1, <1>7, SubtractPassesOn DEF remove
<1>8. ASSUME NEW items \in SUBSET Elements, remove_batch(items)
      PROVE  ItemsPassOn' /\ SyncedAccumulated' /\ Followed'
  BY <1>1, <1>8, SubtractPassesOn DEF remove_batch
<1>9. ASSUME NEW h \in Elements, NEW i \in 1..Len(published), NEW j \in 1..Epoch,
             HolderUpdate(h, i, j)
      PROVE  ItemsPassOn' /\ SyncedAccumulated' /\ Followed'
  BY <1>9, UpdatePassesOn
<1>10. CASE UNCHANGED vars
  BY <1>1, <1>10
  DEF vars, ItemsPassOn, SyncedAccumulated, Followed, OwnRemoval, IssuedToMembers, Epoch
<1> QED BY <1>4, <1>5, <1>6, <1>7, <1>8, <1>9, <1>10 DEF Next

(* A holder that follows an epoch was accumulated in it, whatever callers   *)
(* revoke, if they issue witnesses to members only; and a witness that no   *)
(* update out of turn has touched follows an epoch or comes from the update *)
(* of the holder's own removal.                                             *)
THEOREM MembershipInvariance == Spec => []MInv
<1>1. Init => MInv
  <2> SUFFICES ASSUME Init PROVE MInv OBVIOUS
  <2>1. IInv /\ Labelled BY InitIInv DEF Init, Labelled
  <2>2. Len(published) = 0 /\ Len(history) = 1 /\ history[1].items = elements
    BY DEF Init
  <2> QED BY <2>1, <2>2 DEF Init, MInv, ItemsPassOn, SyncedAccumulated, Followed, Epoch
<1> QED BY <1>1, NextMInv, PTL DEF Spec

-----------------------------------------------------------------------------
(* No two values of the accumulator meet by chance: no two epochs have the  *)
(* same one, and an element takes the value after a removal to the value of *)
(* another epoch only if it was what was removed, and to the one before.    *)
(* What the issuer divides out in between would have to multiply to 1, or   *)
(* to the element, modulo the order of the group.                           *)
ValuesDiffer == \A d, e \in 1..Epoch : history[d].value = history[e].value => d = e

NoPowerMeets ==
  \A h \in Elements, e \in 1..Len(published), f \in 1..Epoch :
    modpow(history[e + 1].value, h) = history[f].value =>
      f = e /\ history[e + 1].removed = {h}

(* As long as updates are applied in turn, verify_mem accepts a witness for *)
(* an epoch only if the holder follows it, or if it is the one ended by the *)
(* holder's own removal.                                                    *)
LEMMA AcceptedInTurn ==
  ASSUME MInv, slips = 0, ValuesDiffer, NoPowerMeets,
         NEW h \in Elements, NEW f \in 1..Epoch, Verifies(h, f)
  PROVE  synced[h] = f \/ (Relapsed(h, f) /\ (IssuedToMembers => h \in history[f].items))
<1>1. /\ IInv /\ Followed /\ synced \in [Elements -> 0..Epoch]
      /\ modpow(wit[h], h) = history[f].value /\ wit[h] # NoWitness
  BY DEF MInv, IInv, TypeOK, Verifies, verify_mem
<1>2. CASE synced[h] # 0
  <2>1. modpow(wit[h], h) = history[synced[h]].value
    BY <1>1, <1>2 DEF IInv, InSyncVerifies, Verifies, verify_mem
  <2>2. synced[h] \in 1..Epoch BY <1>1, <1>2, EpochPositive DEF IInv, TypeOK
  <2> QED BY <1>1, <2>1, <2>2 DEF ValuesDiffer
<1>3. CASE synced[h] = 0
  <2>1. PICK e \in 1..Len(published) :
          (IssuedToMembers => h \in history[e].items) /\ wit[h] = history[e + 1].value
    BY <1>1, <1>3 DEF Followed, OwnRemoval
  <2>2. f = e /\ history[e + 1].removed = {h} BY <1>1, <2>1 DEF NoPowerMeets
  <2> QED BY <2>1, <2>2 DEF Relapsed
<1> QED BY <1>2, <1>3

(* A relapsed holder has a witness for the epoch its removal ended.         *)
LEMMA RelapsedVerifies ==
  ASSUME IInv, Labelled, NEW h \in Elements, NEW e \in 1..Epoch, Relapsed(h, e)
  PROVE  Verifies(h, e)
<1>1. /\ e \in 1..Len(published) /\ history[e + 1].removed = {h}
      /\ wit[h] = history[e + 1].value
  BY DEF Relapsed
<1>2. published[e] = h
  <2>1. Product({h}) = h BY ElementsNat, ProductSingle DEF Product
  <2> QED BY <1>1, <2>1 DEF Labelled
<1>3. modpow(wit[h], h) = history[e].value
  BY <1>1, <1>2 DEF IInv, PublishedExplainsValues
<1>4. wit[h] # NoWitness
  <2>1. history \in Seq(Era) /\ e + 1 \in 1..Len(history)
    BY <1>1 DEF IInv, TypeOK, Era, Epoch
  <2>2. history[e + 1] \in Era BY <2>1
  <2>3. wit[h] \in Group BY <1>1, <2>2 DEF Era
  <2> QED BY <2>3, OrdPositive DEF Group, NoWitness
<1> QED BY <1>3, <1>4 DEF Verifies, verify_mem

(* So verify_mem is a complete check of whether a holder applied every      *)
(* update, once and in order, for callers of any kind and either build.     *)
THEOREM DetectsMissedUpdates ==
  Spec => [](slips = 0 /\ ValuesDiffer /\ NoPowerMeets => VerifyDetectsBadUpdate)
<1>1. MInv => (slips = 0 /\ ValuesDiffer /\ NoPowerMeets => VerifyDetectsBadUpdate)
  <2> SUFFICES ASSUME MInv, slips = 0, ValuesDiffer, NoPowerMeets,
                      NEW h \in Elements, NEW e \in 1..Epoch
               PROVE  Verifies(h, e) <=> synced[h] = e \/ Relapsed(h, e)
    BY DEF VerifyDetectsBadUpdate
  <2>1. IInv /\ Labelled BY DEF MInv
  <2>2. ASSUME Verifies(h, e) PROVE synced[h] = e \/ Relapsed(h, e)
    BY <2>2, AcceptedInTurn
  <2>3. ASSUME synced[h] = e PROVE Verifies(h, e)
    <3>1. e # 0 BY <2>1 DEF IInv, TypeOK, Epoch
    <3> QED BY <2>1, <2>3, <3>1 DEF IInv, InSyncVerifies
  <2>4. ASSUME Relapsed(h, e) PROVE Verifies(h, e)
    BY <2>1, <2>4, RelapsedVerifies
  <2> QED BY <2>2, <2>3, <2>4
<1> QED BY <1>1, MembershipInvariance, PTL

(* And a witness is accepted for no epoch in which its element was not      *)
(* accumulated: not by a revoked holder for one after its revocation.  The  *)
(* issuer must not compute witnesses for elements that are not accumulated, *)
(* which a release build leaves to its callers.                             *)
THEOREM RevokedRejected ==
  IssuedToMembers /\ Spec =>
    [](slips = 0 /\ ValuesDiffer /\ NoPowerMeets => OnlyAccumulatedVerify)
<1> SUFFICES ASSUME IssuedToMembers
             PROVE  Spec => [](slips = 0 /\ ValuesDiffer /\ NoPowerMeets => OnlyAccumulatedVerify)
  OBVIOUS
<1>1. MInv => (slips = 0 /\ ValuesDiffer /\ NoPowerMeets => OnlyAccumulatedVerify)
  <2> SUFFICES ASSUME MInv, slips = 0, ValuesDiffer, NoPowerMeets,
                      NEW h \in Elements, NEW e \in 1..Epoch, Verifies(h, e)
               PROVE  h \in history[e].items
    BY DEF OnlyAccumulatedVerify
  <2>1. synced[h] = e \/ h \in history[e].items
    BY AcceptedInTurn
  <2>2. SyncedAccumulated /\ e # 0 BY DEF MInv, IInv, TypeOK, Epoch
  <2> QED BY <2>1, <2>2 DEF SyncedAccumulated
<1> QED BY <1>1, MembershipInvariance, PTL

-----------------------------------------------------------------------------
(* The refinement of Lifecycle with what verify_mem answers for a           *)
(* credential: GoodFor, instead of the epoch a holder follows.              *)
GoodEpoch == [h \in Elements |-> GoodFor(h)]

(* It is the epoch, and the only one, that a witness verifies for.          *)
GoodRight ==
  /\ GoodEpoch = [h \in Elements |-> GoodEpoch[h]]
  /\ \A h \in Elements :
       /\ GoodEpoch[h] \in 0..Epoch
       /\ \A e \in 1..Epoch : Verifies(h, e) <=> GoodEpoch[h] = e

(* Verifying for two epochs, a witness would make their values meet.        *)
LEMMA GoodIsRight == IInv /\ ValuesDiffer => GoodRight
<1> SUFFICES ASSUME IInv, ValuesDiffer PROVE GoodRight
  OBVIOUS
<1>1. Epoch \in Nat BY DEF IInv, TypeOK, Epoch
<1>2. ASSUME NEW h \in Elements
      PROVE  /\ GoodFor(h) \in 0..Epoch
             /\ \A e \in 1..Epoch : Verifies(h, e) <=> GoodFor(h) = e
  <2>1. CASE \E e \in 1..Epoch : Verifies(h, e)
    <3> DEFINE good == { e \in 1..Epoch : Verifies(h, e) }
               g == CHOOSE e \in good : TRUE
    <3>5. good # {} BY <2>1
    <3>1. g \in 1..Epoch /\ Verifies(h, g)
      <4>1. g \in good BY <3>5
      <4> QED BY <4>1
    <3>2. GoodFor(h) = g BY <3>5 DEF GoodFor
    <3> HIDE DEF g, good
    <3>3. \A e \in 1..Epoch : Verifies(h, e) => g = e
      BY <3>1 DEF Verifies, verify_mem, ValuesDiffer
    <3> QED BY <1>1, <3>1, <3>2, <3>3
  <2>2. CASE ~ \E e \in 1..Epoch : Verifies(h, e)
    <3>3. { e \in 1..Epoch : Verifies(h, e) } = {} BY <2>2
    <3>1. GoodFor(h) = 0 BY <3>3 DEF GoodFor
    <3> QED BY <1>1, <2>2, <3>1
  <2> QED BY <2>1, <2>2
<1>3. \A h \in Elements : GoodEpoch[h] = GoodFor(h) BY DEF GoodEpoch
<1>4. GoodEpoch = [h \in Elements |-> GoodEpoch[h]] BY <1>3 DEF GoodEpoch
<1> QED BY <1>2, <1>3, <1>4 DEF GoodRight

(* What a step leaves of the epochs a witness it does not touch is good for.*)
LEMMA SameWitness ==
  ASSUME IInv, SameValues, GoodRight, GoodRight', NEW h \in Elements, wit'[h] = wit[h]
  PROVE  GoodEpoch'[h] = GoodEpoch[h]
<1>1. Epoch' = Epoch BY DEF SameValues, Epoch
<1>2. \A e \in 1..Epoch : Verifies(h, e)' <=> Verifies(h, e)
  BY DEF SameValues, Epoch, Verifies, verify_mem, NoWitness
<1>3. \A e \in 1..Epoch : GoodEpoch'[h] = e <=> GoodEpoch[h] = e
  BY <1>1, <1>2 DEF GoodRight
<1>4. /\ GoodEpoch[h] \in 0..Epoch /\ GoodEpoch'[h] \in 0..Epoch /\ Epoch \in Nat
  BY <1>1 DEF GoodRight, IInv, TypeOK, Epoch
<1> QED BY <1>3, <1>4

(* Who is handed a witness is served in the contract.                       *)
LEMMA GoodServes ==
  ASSUME IInv, SameValues, GoodRight, GoodRight', InSyncVerifies',
         NEW x \in Elements, HandOver(x)
  PROVE  GoodEpoch' = [h \in Elements |-> IF h \in {x} THEN Epoch ELSE GoodEpoch[h]]
<1>1. /\ Epoch' = Epoch /\ Epoch \in 1..Epoch /\ Epoch # 0
      /\ synced \in [Elements -> 0..Epoch] /\ wit \in [Elements -> Witness]
  BY EpochPositive DEF SameValues, IInv, TypeOK, Epoch
<1>2. synced'[x] = Epoch /\ \A h \in Elements : h # x => wit'[h] = wit[h]
  BY <1>1 DEF HandOver
<1>3. Verifies(x, synced[x])'
  BY <1>1, <1>2 DEF InSyncVerifies
<1>4. \A e \in 1..Epoch : e = synced'[x] => Verifies(x, e)'
  BY <1>3 DEF Verifies
<1>5. GoodEpoch'[x] = Epoch
  BY <1>1, <1>2, <1>4 DEF GoodRight
<1>6. \A h \in Elements : h # x => GoodEpoch'[h] = GoodEpoch[h]
  BY <1>2, SameWitness
<1>7. GoodEpoch' = [h \in Elements |-> GoodEpoch'[h]]
  BY DEF GoodRight
<1> QED BY <1>5, <1>6, <1>7

(* A removal leaves every witness good for what it was good for.            *)
LEMMA GoodSurvives ==
  ASSUME IInv, GoodRight, GoodRight', VerifyDetectsBadUpdate', NEW item,
         NEW items \in SUBSET Elements, Subtract(item, items)
  PROVE  GoodEpoch' = GoodEpoch
<1>1. /\ history \in Seq(Era) /\ published \in Seq(Exponents) /\ Len(published) \in Nat
      /\ Len(history) = Len(published) + 1 /\ Epoch = Len(history)
      /\ synced \in [Elements -> 0..Epoch]
  BY DEF IInv, TypeOK, Era, Epoch
<1>2. /\ Epoch' = Epoch + 1 /\ Len(published') = Len(published) + 1
      /\ \A e \in 1..Epoch : history'[e] = history[e]
      /\ wit' = wit /\ synced' = synced
  BY <1>1 DEF Subtract, Epoch
<1>3. ASSUME NEW h \in Elements PROVE GoodEpoch'[h] = GoodEpoch[h]
  <2>1. \A e \in 1..Epoch : Verifies(h, e)' <=> Verifies(h, e)
    BY <1>2 DEF Verifies, verify_mem, NoWitness
  <2>2. \A e \in 1..Epoch : GoodEpoch'[h] = e <=> GoodEpoch[h] = e
    BY <1>1, <1>2, <2>1 DEF GoodRight
  <2>3. GoodEpoch'[h] # Epoch'
    <3>1. ASSUME NEW e \in {Epoch + 1}, Verifies(h, e)' PROVE FALSE
      <4>1. synced'[h] = e \/ Relapsed(h, e)'
        BY <1>1, <1>2, <3>1 DEF VerifyDetectsBadUpdate
      <4>2. synced'[h] # e BY <1>1, <1>2
      <4>3. e \notin 1..Len(published') BY <1>1, <1>2
      <4> QED BY <4>1, <4>2, <4>3 DEF Relapsed
    <3>2. \A e \in 1..Epoch' : Verifies(h, e)' <=> GoodEpoch'[h] = e
      BY DEF GoodRight
    <3> QED BY <1>1, <1>2, <3>1, <3>2
  <2>4. GoodEpoch[h] \in 0..Epoch /\ GoodEpoch'[h] \in 0..Epoch'
    BY DEF GoodRight
  <2> QED BY <1>1, <1>2, <2>2, <2>3, <2>4
<1> QED BY <1>3 DEF GoodRight

(* An update, whatever it is and whenever it is applied, is a step of the   *)
(* contract by its holder.                                                  *)
LEMMA GoodUpdates ==
  ASSUME IInv, Labelled, GoodRight, GoodRight', VerifyDetectsBadUpdate',
         InSyncVerifies, InSyncVerifies',
         NEW h \in Elements, NEW i \in 1..Len(published), NEW j \in 1..Epoch,
         HolderUpdate(h, i, j)
  PROVE  LET good == GoodEpoch[h]
         IN  \/ GoodEpoch' = GoodEpoch
             \/ /\ good # 0
                /\ \E e \in (good + 1)..Epoch :
                     /\ \A k \in good..(e - 1) : h \notin revocations[k]
                     /\ GoodEpoch' = [GoodEpoch EXCEPT ![h] = e]
             \/ good # 0 /\ GoodEpoch' = [GoodEpoch EXCEPT ![h] = 0]
             \/ \E e \in 1..Len(published) :
                  revocations[e] = {h} /\ GoodEpoch' = [GoodEpoch EXCEPT ![h] = e]
<1>1. /\ Len(published) \in Nat /\ Epoch = Len(published) + 1
      /\ history \in Seq(Era) /\ synced \in [Elements -> 0..Epoch]
  BY DEF IInv, TypeOK, Era
<1>2. /\ UpdateOutcome(h, j) /\ UNCHANGED <<elements, published, history>>
      /\ \A g \in Elements : g # h => wit'[g] = wit[g]
  BY UpdateOutcomes
<1>3. SameValues /\ Epoch' = Epoch BY <1>1, <1>2 DEF SameValues, Epoch
<1>4. \A g \in Elements : g # h => GoodEpoch'[g] = GoodEpoch[g]
  BY <1>2, <1>3, SameWitness
<1>5. \A n : GoodEpoch'[h] = n => GoodEpoch' = [GoodEpoch EXCEPT ![h] = n]
  BY <1>4 DEF GoodRight
<1>6. GoodEpoch'[h] = GoodEpoch[h] => GoodEpoch' = GoodEpoch
  BY <1>4 DEF GoodRight
<1>7. synced[h] # 0 => GoodEpoch[h] = synced[h]
  <2>1. \A e \in 1..Epoch : e = synced[h] => Verifies(h, e)
    BY DEF InSyncVerifies
  <2> QED BY <1>1, <2>1 DEF GoodRight
<1>8. \A e \in 1..Epoch : synced'[h] = e => GoodEpoch'[h] = e
  <2>1. \A e \in 1..Epoch : e = synced'[h] => Verifies(h, e)'
    BY DEF InSyncVerifies, Verifies
  <2> QED BY <1>3, <2>1 DEF GoodRight
<1>9. CASE wit'[h] = wit[h]
  BY <1>3, <1>6, <1>9, SameWitness
<1>10. CASE /\ synced'[h] = j /\ synced[h] \in 1..Len(published)
             /\ j \in (synced[h] + 1)..Epoch
             /\ \A k \in synced[h]..(j - 1) : h \notin history[k + 1].removed
  <2>1. GoodEpoch[h] = synced[h] /\ GoodEpoch'[h] = j /\ synced[h] # 0
    BY <1>1, <1>7, <1>8, <1>10
  <2>2. \A k \in synced[h]..(j - 1) : k \in 1..Len(published) BY <1>1, <1>10
  <2>3. \A k \in synced[h]..(j - 1) : h \notin revocations[k]
    BY <1>10, <2>2 DEF revocations
  <2> QED BY <1>5, <1>10, <2>1, <2>3
<1>11. CASE synced'[h] = 0
  <2>1. CASE GoodEpoch'[h] = 0
    <3>1. GoodEpoch[h] = 0 \/ GoodEpoch[h] # 0 OBVIOUS
    <3> QED BY <1>5, <1>6, <2>1, <3>1
  <2>2. CASE GoodEpoch'[h] # 0
    <3>1. PICK e \in 1..Epoch : GoodEpoch'[h] = e
      BY <1>1, <1>3, <2>2 DEF GoodRight
    <3>2. Verifies(h, e)' BY <1>3, <3>1 DEF GoodRight
    <3>3. Relapsed(h, e)' BY <1>1, <1>3, <1>11, <3>2 DEF VerifyDetectsBadUpdate
    <3>4. e \in 1..Len(published) /\ history[e + 1].removed = {h}
      BY <1>2, <3>3 DEF Relapsed
    <3>5. revocations[e] = {h} BY <3>4 DEF revocations
    <3> QED BY <1>5, <3>1, <3>4, <3>5
  <2> QED BY <2>1, <2>2
<1> QED BY <1>2, <1>9, <1>10, <1>11 DEF UpdateOutcome

(* What verify_mem answers keeps the promises of Lifecycle, and every call  *)
(* is a step of it: for callers that revoke, and issue witnesses for,       *)
(* accumulated elements only, in either build, with updates in and out of   *)
(* turn, re-admissions and a holder's own removal.  The premise is that the *)
(* values of no two epochs meet and that verify_mem accepts what is         *)
(* accounted for.  An update whose x happens to be the product of several   *)
(* removals is accounted for, so this excludes no such history: what it     *)
(* excludes is a coincidence of residues.                                   *)
THEOREM Implements ==
  MemberOnly /\ Spec /\ [](ValuesDiffer /\ VerifyDetectsBadUpdate) => ImplementsLifecycle
<1> SUFFICES ASSUME MemberOnly
             PROVE  Spec /\ [](ValuesDiffer /\ VerifyDetectsBadUpdate) => ImplementsLifecycle
  OBVIOUS
<1>1. Init /\ GoodRight => Abstract!Init
  <2> SUFFICES ASSUME Init, GoodRight PROVE Abstract!Init OBVIOUS
  <2>1. [e \in 1..Len(published) |-> history[e + 1].removed] = << >> BY DEF Init
  <2>2. ASSUME NEW h \in Elements PROVE GoodEpoch[h] = 0
    <3>1. Epoch = 1 /\ ~ Verifies(h, 1) BY DEF Init, Epoch, Verifies
    <3> QED BY <3>1 DEF GoodRight
  <2>3. GoodEpoch = [h \in Elements |-> 0] BY <2>2 DEF GoodRight
  <2> QED BY <2>1, <2>3 DEF Init, Abstract!Init, GoodEpoch
<1>2. /\ IInv /\ Labelled /\ IInv' /\ GoodRight /\ GoodRight'
      /\ VerifyDetectsBadUpdate' /\ [Next]_vars
      => [Abstract!Next]_(Abstract!vars)
  <2> SUFFICES ASSUME IInv, Labelled, IInv', GoodRight, GoodRight',
                      VerifyDetectsBadUpdate', [Next]_vars
               PROVE  Abstract!Next \/ UNCHANGED Abstract!vars
    OBVIOUS
  <2>1. InSyncVerifies /\ InSyncVerifies' BY DEF IInv
  <2>2. ASSUME NEW new \in SUBSET Elements, NEW served \in SUBSET Elements,
               Contract!Add(new, served),
               GoodEpoch' = [h \in Elements |-> IF h \in served THEN Epoch ELSE GoodEpoch[h]]
        PROVE  Abstract!Next
    <3>1. Contract!epoch = Epoch BY SameEpoch
    <3>2. Abstract!Add(new, served)
      BY <2>2, <3>1
         DEF Contract!Add, Contract!epoch, revocations, Abstract!Add, Abstract!epoch, GoodEpoch
    <3> QED BY <3>2 DEF Abstract!Next
  <2>3. ASSUME NEW out \in SUBSET Elements, Contract!Revoke(out), GoodEpoch' = GoodEpoch
        PROVE  Abstract!Next
    <3>1. Abstract!Revoke(out)
      BY <2>3 DEF Contract!Revoke, revocations, Abstract!Revoke, GoodEpoch
    <3> QED BY <3>1 DEF Abstract!Next
  <2>4. ASSUME NEW x \in Elements, insert(x) PROVE Abstract!Next
    <3>1. Accumulate({x}) /\ HandOver(x) BY <2>4 DEF insert
    <3>2. SameValues BY <3>1, AccumulateStep
    <3> QED BY <2>1, <2>2, <2>4, <3>1, <3>2, AdditionSteps, GoodServes
  <2>5. ASSUME NEW items \in SUBSET Elements, insert_batch(items) PROVE Abstract!Next
    <3>1. Accumulate(items) /\ wit' = wit BY <2>5 DEF insert_batch
    <3>2. SameValues BY <3>1, AccumulateStep
    <3>3. \A h \in Elements : GoodEpoch'[h] = GoodEpoch[h] BY <3>1, <3>2, SameWitness
    <3>4. GoodEpoch' = [h \in Elements |-> IF h \in {} THEN Epoch ELSE GoodEpoch[h]]
      BY <3>3 DEF GoodRight
    <3> QED BY <2>2, <2>5, <3>4, AdditionSteps
  <2>6. ASSUME NEW x \in Elements, issue_witness(x) PROVE Abstract!Next
    <3>1. HandOver(x) /\ history' = history BY <2>6 DEF issue_witness
    <3>2. SameValues BY <3>1 DEF SameValues, IInv, TypeOK, Era
    <3> QED BY <2>1, <2>2, <2>6, <3>1, <3>2, AdditionSteps, GoodServes
  <2>7. ASSUME NEW x \in Elements, remove(x) PROVE Abstract!Next
    <3>1. GoodEpoch' = GoodEpoch BY <2>7, GoodSurvives DEF remove
    <3> QED BY <2>3, <2>7, <3>1, RevocationSteps
  <2>8. ASSUME NEW items \in SUBSET Elements, remove_batch(items) PROVE Abstract!Next
    <3>1. GoodEpoch' = GoodEpoch BY <2>8, GoodSurvives DEF remove_batch
    <3> QED BY <2>3, <2>8, <3>1, RevocationSteps
  <2>9. ASSUME NEW h \in Elements, NEW i \in 1..Len(published), NEW j \in 1..Epoch,
               HolderUpdate(h, i, j)
        PROVE  Abstract!Next \/ UNCHANGED Abstract!vars
    <3> DEFINE good == GoodEpoch[h]
    <3>1. /\ UNCHANGED <<elements, published, history>>
          /\ Len(revocations) = Len(published)
      BY <2>9, RevocationsType DEF HolderUpdate
    <3>2. UNCHANGED <<elements, revocations>> BY <3>1 DEF revocations
    <3>3. \/ GoodEpoch' = GoodEpoch
          \/ /\ good # 0
             /\ \E e \in (good + 1)..Epoch :
                  /\ \A k \in good..(e - 1) : h \notin revocations[k]
                  /\ GoodEpoch' = [GoodEpoch EXCEPT ![h] = e]
          \/ good # 0 /\ GoodEpoch' = [GoodEpoch EXCEPT ![h] = 0]
          \/ \E e \in 1..Len(published) :
               revocations[e] = {h} /\ GoodEpoch' = [GoodEpoch EXCEPT ![h] = e]
      BY <2>1, <2>9, GoodUpdates
    <3>4. CASE GoodEpoch' = GoodEpoch
      BY <3>2, <3>4 DEF revocations, GoodEpoch, Abstract!vars
    <3>5. CASE /\ good # 0
               /\ \E e \in (good + 1)..Epoch :
                    /\ \A k \in good..(e - 1) : h \notin revocations[k]
                    /\ GoodEpoch' = [GoodEpoch EXCEPT ![h] = e]
      <4>1. Abstract!epoch = Epoch
        BY SameEpoch DEF Contract!epoch, Abstract!epoch, revocations
      <4>2. Abstract!Refresh(h)
        BY <3>2, <3>5, <4>1 DEF revocations, GoodEpoch, Abstract!Refresh
      <4> QED BY <4>2 DEF Abstract!Next
    <3>6. CASE good # 0 /\ GoodEpoch' = [GoodEpoch EXCEPT ![h] = 0]
      <4>1. Abstract!Spoil(h)
        BY <3>2, <3>6 DEF revocations, GoodEpoch, Abstract!Spoil
      <4> QED BY <4>1 DEF Abstract!Next
    <3>7. CASE \E e \in 1..Len(published) :
                 revocations[e] = {h} /\ GoodEpoch' = [GoodEpoch EXCEPT ![h] = e]
      <4>1. Abstract!Relapse(h)
        BY <3>1, <3>2, <3>7 DEF revocations, GoodEpoch, Abstract!Relapse
      <4> QED BY <4>1 DEF Abstract!Next
    <3> QED BY <3>3, <3>4, <3>5, <3>6, <3>7
  <2>10. CASE UNCHANGED vars
    <3>1. GoodEpoch' = GoodEpoch
      <4>1. SameValues BY <2>10 DEF vars, SameValues, IInv, TypeOK, Era
      <4>2. \A h \in Elements : GoodEpoch'[h] = GoodEpoch[h]
        BY <2>10, <4>1, SameWitness DEF vars
      <4> QED BY <4>2 DEF GoodRight
    <3> QED BY <2>10, <3>1 DEF vars, GoodEpoch, Abstract!vars
  <2> QED BY <2>4, <2>5, <2>6, <2>7, <2>8, <2>9, <2>10 DEF Next
<1>3. IInv /\ ValuesDiffer => GoodRight BY GoodIsRight
<1> QED BY <1>1, <1>2, <1>3, LabelInvariance, PTL DEF Spec, ImplementsLifecycle, Abstract!Spec

(* As long as updates are applied in turn nothing need be assumed of        *)
(* witnesses: it is enough that the values of the accumulator do not meet.  *)
THEOREM ImplementsInTurn ==
  MemberOnly /\ Spec /\ [](slips = 0 /\ ValuesDiffer /\ NoPowerMeets) => ImplementsLifecycle
<1>1. Spec /\ [](slips = 0 /\ ValuesDiffer /\ NoPowerMeets)
      => [](ValuesDiffer /\ VerifyDetectsBadUpdate)
  BY DetectsMissedUpdates, PTL
<1> QED BY <1>1, Implements
=============================================================================
