------------------------ MODULE ZKMembership_proofs -------------------------
(***************************************************************************)
(* Proofs about ZKMembership: the proof system is complete, and sound for  *)
(* a prover that follows prove_mem, for any sizes, elements and witnesses, *)
(* any randomness and any challenge.                                       *)
(***************************************************************************)
EXTENDS ZKMembership, RSAGroup_proofs

-----------------------------------------------------------------------------
(* u is the residue of a.                                                   *)
Res(u, a) == u \in Group /\ u \in Int /\ Cong(u, a)

(* The power of a residue ...                                               *)
LEMMA ResPow ==
  ASSUME NEW u \in Int, NEW x \in Int
  PROVE  Res(modpow(u, x), Times(u, x)) /\ Times(u, x) \in Int
<1>1. modpow(u, x) \in Group /\ Cong(modpow(u, x), Times(u, x))
  BY ModPow
<1>2. modpow(u, x) \in Int
  BY <1>1, OrdPositive DEF Group
<1> QED BY <1>1, <1>2, TimesInt DEF Res

(* ... and the product of two.                                              *)
LEMMA ResMul ==
  ASSUME NEW a \in Int, NEW b \in Int, NEW u, NEW v, Res(u, a), Res(v, b)
  PROVE  Res(modmul(u, v), a + b)
<1>1. u \in Int /\ v \in Int /\ Cong(u, a) /\ Cong(v, b)
  BY DEF Res
<1>2. modmul(u, v) \in Group /\ Cong(modmul(u, v), u + v)
  BY <1>1, ModMul
<1>3. modmul(u, v) \in Int
  BY <1>2, OrdPositive DEF Group
<1>4. Cong(u + v, a + b)
  BY <1>1, CongAdd
<1>5. Cong(modmul(u, v), a + b)
  <2>1. u + v \in Int /\ a + b \in Int
    BY <1>1
  <2> QED BY <1>2, <1>3, <1>4, <2>1, CongTrans
<1> QED BY <1>2, <1>3, <1>5 DEF Res

(* Residues of congruent numbers are the same, and the other way round.     *)
LEMMA ResSame ==
  ASSUME NEW a \in Int, NEW b \in Int, NEW u, NEW v, Res(u, a), Res(v, b)
  PROVE  u = v <=> Cong(a, b)
<1>1. u \in Int /\ v \in Int /\ Cong(u, a) /\ Cong(v, b) /\ u \in Group /\ v \in Group
  BY DEF Res
<1>2. ASSUME Cong(a, b) PROVE u = v
  <2>1. Cong(u, b)
    BY <1>1, <1>2, CongTrans
  <2>2. Cong(b, v)
    BY <1>1, CongSym
  <2>3. Cong(u, v)
    BY <1>1, <2>1, <2>2, CongTrans
  <2> QED BY <1>1, <2>3, CongGroup
<1>3. ASSUME u = v PROVE Cong(a, b)
  <2>1. Cong(a, u)
    BY <1>1, CongSym
  <2>2. Cong(u, b)
    BY <1>1, <1>3
  <2> QED BY <1>1, <2>1, <2>2, CongTrans
<1> QED BY <1>2, <1>3

(* A commitment.                                                            *)
LEMMA ResCommit ==
  ASSUME NEW x \in Int, NEW y \in Int, params.g \in Int, params.h \in Int
  PROVE  /\ Res(Commit(x, y), Times(params.g, x) + Times(params.h, y))
         /\ Times(params.g, x) + Times(params.h, y) \in Int
<1>1. /\ Res(modpow(params.g, x), Times(params.g, x)) /\ Times(params.g, x) \in Int
      /\ Res(modpow(params.h, y), Times(params.h, y)) /\ Times(params.h, y) \in Int
  BY ResPow
<1>2. Res(modmul(modpow(params.g, x), modpow(params.h, y)),
          Times(params.g, x) + Times(params.h, y))
  BY <1>1, ResMul
<1> QED BY <1>1, <1>2 DEF Commit

(* A number is added on both sides of a congruence.                         *)
LEMMA CongPlus ==
  ASSUME NEW a \in Int, NEW b \in Int, NEW c \in Int, Cong(a, b)
  PROVE  Cong(a + c, b + c)
  BY CongRefl, CongAdd

-----------------------------------------------------------------------------
(* The equations of verify_mem_proof (zk_positive.rs:273-311), one by one.  *)

(* t_1 and t_2: knowledge of an opening of a commitment.                    *)
LEMMA OpeningEquation ==
  ASSUME NEW a \in Int, NEW b \in Int, NEW x \in Int, NEW y \in Int, NEW c \in Int,
         params.g \in Int, params.h \in Int
  PROVE  Commit(a, b) = modmul(modpow(Commit(x, y), c), Commit(a - c * x, b - c * y))
<1> DEFINE g == params.g
           h == params.h
           P == Commit(x, y)
           p == Times(g, x) + Times(h, y)
           l == Times(g, a) + Times(h, b)
           m == Times(g, a - c * x) + Times(h, b - c * y)
<1>1. a - c * x \in Int /\ b - c * y \in Int
  OBVIOUS
<1>2. Res(P, p) /\ p \in Int /\ Res(Commit(a, b), l) /\ l \in Int
  BY ResCommit
<1>3. Res(Commit(a - c * x, b - c * y), m) /\ m \in Int
  BY <1>1, ResCommit
<1>4. P \in Int /\ Cong(P, p)
  BY <1>2 DEF Res
<1>5. Res(modpow(P, c), Times(P, c)) /\ Times(P, c) \in Int /\ Times(p, c) \in Int
  BY <1>2, <1>4, ResPow, TimesInt
<1>6. l = Times(p, c) + m
  BY DEF Times
<1> HIDE DEF P, p, l, m
<1>7. Cong(Times(p, c) + m, Times(P, c) + m)
  <2>1. Cong(p, P)
    BY <1>2, <1>4, CongSym
  <2>2. Cong(Times(p, c), Times(P, c))
    BY <1>2, <1>4, <2>1, CongMul
  <2> QED BY <1>3, <1>5, <2>2, CongPlus
<1>8. Res(modmul(modpow(P, c), Commit(a - c * x, b - c * y)), Times(P, c) + m)
  BY <1>3, <1>5, ResMul
<1>9. Cong(l, Times(P, c) + m) /\ Times(P, c) + m \in Int
  BY <1>3, <1>5, <1>6, <1>7
<1>10. Commit(a, b) = modmul(modpow(P, c), Commit(a - c * x, b - c * y))
  BY <1>2, <1>8, <1>9, ResSame
<1> QED BY <1>10 DEF P

(* t_4: c_r and c_u use the same randomness.                                *)
LEMMA RandomnessEquation ==
  ASSUME NEW al \in Int, NEW be \in Int, NEW de \in Int, NEW c \in Int,
         NEW item \in Int, NEW r2 \in Int, NEW r3 \in Int,
         params.g \in Int, params.h \in Int
  PROVE  modmul(modpow(Commit(r3, r2), al), Commit(-de, -be))
           = modmul(modpow(Commit(r3, r2), al - c * item),
                    Commit(-(de - c * r3 * item), -(be - c * r2 * item)))
<1> DEFINE g == params.g
           h == params.h
           P == Commit(r3, r2)
           p == Times(g, r3) + Times(h, r2)
           e == c * item
           m1 == Times(g, -de) + Times(h, -be)
           m2 == Times(g, -(de - c * r3 * item)) + Times(h, -(be - c * r2 * item))
<1>1. /\ -de \in Int /\ -be \in Int /\ e \in Int
      /\ -(de - c * r3 * item) \in Int /\ -(be - c * r2 * item) \in Int
  OBVIOUS
<1>2. /\ Res(P, p) /\ p \in Int
      /\ Res(Commit(-de, -be), m1) /\ m1 \in Int
      /\ Res(Commit(-(de - c * r3 * item), -(be - c * r2 * item)), m2) /\ m2 \in Int
  BY <1>1, ResCommit
<1>3. P \in Int /\ Cong(P, p)
  BY <1>2 DEF Res
<1>4. m2 = m1 + Times(p, e)
  BY DEF Times
<1>5. al - e \in Int
  BY <1>1
<1> DEFINE Q == Commit(-de, -be)
           S == Commit(-(de - c * r3 * item), -(be - c * r2 * item))
<1>6. Res(Q, m1) /\ Res(S, m2)
  BY <1>2
<1> HIDE DEF P, p, e, m1, m2, Q, S
<1>7. /\ Times(P, e) \in Int /\ Times(p, e) \in Int
      /\ Res(modpow(P, al), Times(P, al)) /\ Times(P, al) \in Int
      /\ Res(modpow(P, al - e), Times(P, al - e)) /\ Times(P, al - e) \in Int
  BY <1>1, <1>2, <1>3, <1>5, ResPow, TimesInt
<1>8. Res(modmul(modpow(P, al), Q), Times(P, al) + m1)
  BY <1>2, <1>6, <1>7, ResMul
<1>9. Res(modmul(modpow(P, al - e), S), Times(P, al - e) + m2)
  BY <1>2, <1>6, <1>7, ResMul
<1>10. Cong(Times(P, al) + m1, Times(P, al - e) + m2)
  <2>1. Times(P, al) = Times(P, al - e) + Times(P, e)
    BY <1>1, <1>3 DEF Times
  <2>2. Cong(Times(P, e), Times(p, e))
    BY <1>1, <1>2, <1>3, CongMul
  <2> DEFINE rest == Times(P, al - e) + m1
  <2>3. rest \in Int
    BY <1>2, <1>7
  <2>4. Times(P, al) + m1 = Times(P, e) + rest /\ Times(P, al - e) + m2 = Times(p, e) + rest
    BY <1>2, <1>4, <1>7, <2>1
  <2> HIDE DEF rest
  <2>5. Cong(Times(P, e) + rest, Times(p, e) + rest)
    BY <1>7, <2>2, <2>3, CongPlus
  <2> QED BY <2>4, <2>5
<1>11. Times(P, al) + m1 \in Int /\ Times(P, al - e) + m2 \in Int
  BY <1>2, <1>7
<1>12. modmul(modpow(P, al), Q) = modmul(modpow(P, al - e), S)
  BY <1>8, <1>9, <1>10, <1>11, ResSame
<1> QED BY <1>12 DEF P, Q, S, e

(* Every challenge can be divided out of a congruence.                      *)
LEMMA Cancel ==
  ASSUME NEW c \in Challenges, NEW a \in Int, NEW b \in Int
  PROVE  c \in Int /\ (Cong(Times(a, c), Times(b, c)) <=> Cong(a, b))
<1>1. c \in Int
  BY PowersOfTwo DEF Challenges
<1>2. PICK d \in Int : (c * d) % Ord = 1
  BY ChallengesInvertible, OrdPositive DEF Group
<1>3. Cong(1, Times(c, d))
  <2> DEFINE cd == c * d
  <2>1. cd \in Int
    BY <1>1
  <2>2. cd % Ord = 1
    BY <1>2
  <2> HIDE DEF cd
  <2>3. Cong(1, cd)
    BY <2>1, <2>2, CongRemainder
  <2> QED BY <2>3 DEF cd, Times
<1>4. ASSUME NEW x \in Int
      PROVE  Cong(x, Times(Times(x, c), d)) /\ Times(Times(x, c), d) \in Int
  <2>1. Cong(Times(1, x), Times(Times(c, d), x))
    BY <1>1, <1>3, TimesInt, CongMul
  <2>2. Times(1, x) = x /\ Times(Times(c, d), x) = Times(Times(x, c), d)
    BY <1>1 DEF Times
  <2>3. Times(Times(x, c), d) \in Int
    BY <1>1, TimesInt
  <2> QED BY <2>1, <2>2, <2>3
<1>5. ASSUME Cong(Times(a, c), Times(b, c))
      PROVE  Cong(a, b)
  <2> DEFINE A == Times(Times(a, c), d)
             B == Times(Times(b, c), d)
  <2>1. /\ Cong(a, A) /\ A \in Int /\ Cong(b, B) /\ B \in Int
    BY <1>4
  <2>2. Cong(A, B)
    <3>1. Times(a, c) \in Int /\ Times(b, c) \in Int
      BY <1>1, TimesInt
    <3> QED BY <1>5, <3>1, CongMul
  <2> HIDE DEF A, B
  <2>3. Cong(a, B)
    BY <2>1, <2>2, CongTrans
  <2>4. Cong(B, b)
    BY <2>1, CongSym
  <2> QED BY <2>1, <2>3, <2>4, CongTrans
<1>6. Cong(a, b) => Cong(Times(a, c), Times(b, c))
  BY <1>1, CongMul
<1> QED BY <1>1, <1>5, <1>6

(* What verify_mem decides, without the group.                              *)
LEMMA Membership ==
  ASSUME NEW acc \in Group, NEW item \in Int, NEW u \in Int
  PROVE  verify_mem(acc, item, u) <=> Cong(Times(u, item), acc)
<1>1. Res(modpow(u, item), Times(u, item)) /\ Times(u, item) \in Int
  BY ResPow
<1>2. acc \in Int
  BY OrdPositive DEF Group
<1>3. Res(acc, acc)
  BY <1>2, CongRefl DEF Res
<1> QED BY <1>1, <1>2, <1>3, ResSame DEF verify_mem

(* t_3, the equation that names the accumulator.                            *)
ValueMatches(acc, v, u, item, c, al, be, r2) ==
  LET cu == modmul(u, modpow(params.h, r2))
  IN  modmul(modpow(cu, al), modpow(params.h, -be))
        = modmul(modmul(modpow(acc, v), modpow(cu, al - c * item)),
                 modpow(params.h, -(be - c * r2 * item)))

(* The randomness cancels out: a proof made with challenge c and verified   *)
(* with challenge v compares u^item and the value, each with its own.       *)
LEMMA ValueEquation ==
  ASSUME NEW acc \in Group, NEW u \in Group, NEW item \in Int,
         NEW c \in Challenges, NEW v \in Challenges,
         NEW al \in Int, NEW be \in Int, NEW r2 \in Int, params.h \in Int
  PROVE  ValueMatches(acc, v, u, item, c, al, be, r2)
           <=> Cong(Times(Times(u, item), c), Times(acc, v))
<1> DEFINE h == params.h
           e == c * item
           f == -(be - c * r2 * item)
           cu == modmul(u, modpow(h, r2))
           A == Times(acc, v)
           Z == Times(Times(u, item), c)
           Y == Times(h, r2 * e)
           L == Times(cu, al) + Times(h, -be)
           R == (A + Times(cu, al - e)) + Times(h, f)
<1>1. c \in Int /\ v \in Int /\ u \in Int /\ acc \in Int
  BY Cancel, OrdPositive DEF Group
<1>2. e \in Int /\ f \in Int /\ -be \in Int /\ al - e \in Int /\ r2 * e \in Int
  BY <1>1
<1>3. /\ A \in Int /\ Z \in Int /\ Y \in Int
      /\ Times(u, item) \in Int
  BY <1>1, <1>2, TimesInt
<1>4. Res(cu, u + Times(h, r2)) /\ u + Times(h, r2) \in Int
  <2>1. Res(u, u)
    BY <1>1, CongRefl DEF Res
  <2>2. Res(modpow(h, r2), Times(h, r2)) /\ Times(h, r2) \in Int
    BY ResPow
  <2> QED BY <1>1, <2>1, <2>2, ResMul
<1>5. cu \in Int /\ Cong(cu, u + Times(h, r2))
  BY <1>4 DEF Res
<1>6. PICK k \in Int : Times(cu, e) = Z + Y + k * Ord
  <2>1. Cong(Times(cu, e), Times(u + Times(h, r2), e))
    BY <1>2, <1>4, <1>5, CongMul
  <2>2. Times(u + Times(h, r2), e) = Z + Y
    BY <1>1 DEF Times
  <2> QED BY <2>1, <2>2 DEF Cong
<1>7. L = R + Times(cu, e) - A - Y
  BY <1>1, <1>5 DEF Times
<1>8. L \in Int /\ R \in Int /\ Times(cu, e) \in Int
  <2>1. /\ Times(cu, al) \in Int /\ Times(h, -be) \in Int
        /\ Times(cu, al - e) \in Int /\ Times(h, f) \in Int /\ Times(cu, e) \in Int
    BY <1>2, <1>5, TimesInt
  <2> QED BY <1>3, <2>1
<1>9. Res(modmul(modpow(cu, al), modpow(h, -be)), L)
  <2>1. /\ Res(modpow(cu, al), Times(cu, al)) /\ Times(cu, al) \in Int
        /\ Res(modpow(h, -be), Times(h, -be)) /\ Times(h, -be) \in Int
    BY <1>2, <1>5, ResPow
  <2> QED BY <2>1, ResMul
<1>10. Res(modmul(modmul(modpow(acc, v), modpow(cu, al - e)), modpow(h, f)), R)
  <2>1. /\ Res(modpow(acc, v), A)
        /\ Res(modpow(cu, al - e), Times(cu, al - e)) /\ Times(cu, al - e) \in Int
        /\ Res(modpow(h, f), Times(h, f)) /\ Times(h, f) \in Int
    BY <1>1, <1>2, <1>5, ResPow
  <2>2. Res(modmul(modpow(acc, v), modpow(cu, al - e)), A + Times(cu, al - e))
    BY <1>3, <2>1, ResMul
  <2>3. A + Times(cu, al - e) \in Int
    BY <1>3, <2>1
  <2> QED BY <2>1, <2>2, <2>3, ResMul
<1>11. (modmul(modpow(cu, al), modpow(h, -be))
          = modmul(modmul(modpow(acc, v), modpow(cu, al - e)), modpow(h, f)))
       <=> Cong(L, R)
  BY <1>8, <1>9, <1>10, ResSame
<1> HIDE DEF e, f, A, Y, L, R, Z
<1>12. Cong(L, R) <=> Cong(Z, A)
  <2>1. L = R + Z - A + k * Ord
    BY <1>3, <1>6, <1>7, <1>8, OrdPositive
  <2>2. ASSUME Cong(L, R) PROVE Cong(Z, A)
    <3>1. PICK n \in Int : L = R + n * Ord
      BY <2>2 DEF Cong
    <3>2. Z = A + (n - k) * Ord /\ n - k \in Int
      BY <1>3, <1>8, <2>1, <3>1, OrdPositive
    <3> QED BY <3>2 DEF Cong
  <2>3. ASSUME Cong(Z, A) PROVE Cong(L, R)
    <3>1. PICK n \in Int : Z = A + n * Ord
      BY <2>3 DEF Cong
    <3>2. L = R + (n + k) * Ord /\ n + k \in Int
      BY <1>3, <1>8, <2>1, <3>1, OrdPositive
    <3> QED BY <3>2 DEF Cong
  <2> QED BY <2>2, <2>3
<1> QED BY <1>11, <1>12 DEF ValueMatches, e, f, A, Z

(* With the same challenge, that is membership.                             *)
LEMMA ValueEquationSame ==
  ASSUME NEW acc \in Group, NEW u \in Group, NEW item \in Int, NEW c \in Challenges,
         NEW al \in Int, NEW be \in Int, NEW r2 \in Int, params.h \in Int
  PROVE  ValueMatches(acc, c, u, item, c, al, be, r2) <=> verify_mem(acc, item, u)
<1>1. u \in Int /\ acc \in Int
  BY OrdPositive DEF Group
<1>2. Times(u, item) \in Int
  BY <1>1, TimesInt
<1>3. Cong(Times(Times(u, item), c), Times(acc, c)) <=> Cong(Times(u, item), acc)
  BY <1>1, <1>2, Cancel
<1>4. Cong(Times(u, item), acc) <=> verify_mem(acc, item, u)
  BY <1>1, Membership
<1> QED BY <1>3, <1>4, ValueEquation

-----------------------------------------------------------------------------
(* The inductive invariant.  The parameters are residues, and every answer  *)
(* the oracle remembers is a challenge ...                                  *)
Sane ==
  /\ params.g \in Int /\ params.h \in Int
  /\ \A tr \in DOMAIN oracle : oracle[tr] \in Challenges

(* ... a proof is what prove_mem makes of its inputs, some randomness and   *)
(* the challenge that the oracle remembers for its transcript ...           *)
MadeFrom(r) ==
  /\ proof.k = Commitments(stmt.item, stmt.u, r)
  /\ proof.s = Responses(stmt.item, r, stmt.c)

Made ==
  proof # None =>
    /\ stmt.item \in Items /\ stmt.u \in Witnesses
    /\ Transcript(proof.k, stmt.extra) \in DOMAIN oracle
    /\ oracle[Transcript(proof.k, stmt.extra)] = stmt.c
    /\ \E r \in Coins : MadeFrom(r)

(* ... and a verdict is what the verifier makes of the proof, with the      *)
(* challenge the oracle remembers for its own transcript.                   *)
Judged ==
  verdict # None =>
    /\ proof # None
    /\ verdict.acc \in Values
    /\ verdict.ok = ( /\ Equations(verdict.acc, proof.k, proof.s, verdict.c)
                      /\ WithinBound(proof.s.s_alpha) )
    /\ Transcript(proof.k, verdict.extra) \in DOMAIN oracle
    /\ oracle[Transcript(proof.k, verdict.extra)] = verdict.c

ZInv == Sane /\ Made /\ Judged

(* What the oracle answers is a challenge, what it has answered it answers  *)
(* again, and it forgets nothing.                                           *)
LEMMA OracleRemembers ==
  ASSUME Sane, NEW tr, NEW c \in hash_to_k_bits(tr), Remember(tr, c)
  PROVE  /\ c \in Challenges
         /\ tr \in DOMAIN oracle'
         /\ oracle'[tr] = c
         /\ tr \in DOMAIN oracle => c = oracle[tr]
         /\ \A q \in DOMAIN oracle : q \in DOMAIN oracle' /\ oracle'[q] = oracle[q]
         /\ \A q \in DOMAIN oracle' : oracle'[q] \in Challenges
<1>1. /\ c \in Challenges
      /\ tr \in DOMAIN oracle => c = oracle[tr]
  BY DEF Sane, hash_to_k_bits
<1>2. /\ DOMAIN oracle' = DOMAIN oracle \cup {tr}
      /\ \A q \in DOMAIN oracle \cup {tr} : oracle'[q] = IF q = tr THEN c ELSE oracle[q]
  BY DEF Remember
<1> QED BY <1>1, <1>2 DEF Sane

(* It holds at the start: nothing is asked, made or verified yet.           *)
LEMMA ZInit == Init => ZInv
<1> SUFFICES ASSUME Init PROVE ZInv
  OBVIOUS
<1>1. PICK b \in Bases : params = gen_param(b)
  BY DEF Init
<1>2. b[1] \in Int /\ b[2] \in Int
  BY <1>1, ZKAssumption, OrdPositive DEF Group
<1>3. modpow(b[1], b[2]) \in Int
  BY <1>2, ResPow DEF Res
<1>4. params.g \in Int /\ params.h \in Int
  BY <1>1, <1>2, <1>3 DEF gen_param
<1>5. Sane
  BY <1>4 DEF Init, Sane
<1> QED BY <1>5 DEF Init, ZInv, Made, Judged

(* ... and every step keeps it.                                             *)
LEMMA ZNext == ZInv /\ [Next]_vars => ZInv'
<1> SUFFICES ASSUME ZInv, [Next]_vars PROVE ZInv'
  OBVIOUS
<1> USE DEF ZInv
<1>1. ASSUME NEW item \in Items, NEW u \in Witnesses, NEW extra \in Nonces,
             prove_mem(item, u, extra)
      PROVE  ZInv'
  <2> DEFINE K(r) == Commitments(item, u, r)
  <2>1. PICK r \in Coins : \E c \in hash_to_k_bits(Transcript(K(r), extra)) :
               /\ Remember(Transcript(K(r), extra), c)
               /\ proof' = [k |-> K(r), s |-> Responses(item, r, c)]
               /\ stmt'  = [item |-> item, u |-> u, extra |-> extra, c |-> c]
    BY <1>1 DEF prove_mem
  <2>2. PICK c \in hash_to_k_bits(Transcript(K(r), extra)) :
               /\ Remember(Transcript(K(r), extra), c)
               /\ proof' = [k |-> K(r), s |-> Responses(item, r, c)]
               /\ stmt'  = [item |-> item, u |-> u, extra |-> extra, c |-> c]
    BY <2>1
  <2>3. proof = None /\ params' = params /\ verdict' = verdict
    BY <1>1 DEF prove_mem
  <2>4. verdict = None
    BY <2>3 DEF Judged
  <2>5. /\ Transcript(K(r), extra) \in DOMAIN oracle'
        /\ oracle'[Transcript(K(r), extra)] = c
        /\ \A q \in DOMAIN oracle' : oracle'[q] \in Challenges
    BY <2>2, OracleRemembers
  <2>6. Sane'
    BY <2>3, <2>5 DEF Sane
  <2>7. /\ stmt'.item = item /\ stmt'.u = u /\ stmt'.extra = extra /\ stmt'.c = c
        /\ proof'.k = K(r) /\ proof'.s = Responses(item, r, c)
    BY <2>2
  <2>8. MadeFrom(r)'
    BY <2>3, <2>7 DEF MadeFrom, Commitments, Commit, Responses
  <2> HIDE DEF K
  <2>9. Made'
    BY <2>3, <2>5, <2>7, <2>8 DEF Made, Transcript
  <2>10. Judged'
    BY <2>3, <2>4 DEF Judged
  <2> QED BY <2>6, <2>9, <2>10
<1>2. ASSUME NEW acc \in Values, NEW extra \in Nonces, verify_mem_proof(acc, extra)
      PROVE  ZInv'
  <2> DEFINE tr == Transcript(proof.k, extra)
             ok(c) == Equations(acc, proof.k, proof.s, c) /\ WithinBound(proof.s.s_alpha)
  <2>1. PICK c \in hash_to_k_bits(tr) :
               /\ Remember(tr, c)
               /\ verdict' = [acc |-> acc, extra |-> extra, c |-> c, ok |-> ok(c)]
    BY <1>2 DEF verify_mem_proof
  <2>2. proof # None /\ params' = params /\ stmt' = stmt /\ proof' = proof
    BY <1>2 DEF verify_mem_proof
  <2>3. /\ tr \in DOMAIN oracle => c = oracle[tr]
        /\ \A q \in DOMAIN oracle : q \in DOMAIN oracle' /\ oracle'[q] = oracle[q]
        /\ \A q \in DOMAIN oracle' : oracle'[q] \in Challenges
    BY <2>1, OracleRemembers
  <2>4. Sane'
    BY <2>2, <2>3 DEF Sane
  <2>5. Made'
    <3>1. PICK r \in Coins : MadeFrom(r)
      BY <2>2 DEF Made
    <3>2. MadeFrom(r)'
      BY <2>2, <3>1 DEF MadeFrom, Commitments, Commit
    <3> QED BY <2>2, <2>3, <3>2 DEF Made, Transcript
  <2>6. /\ verdict'.acc = acc /\ verdict'.extra = extra /\ verdict'.c = c
        /\ verdict'.ok = ok(c)
    BY <2>1
  <2>7. /\ Transcript(proof.k, verdict.extra)' \in DOMAIN oracle'
        /\ oracle'[Transcript(proof.k, verdict.extra)'] = verdict'.c
    BY <2>1, <2>2, <2>3, <2>6, OracleRemembers DEF Transcript
  <2>8. Judged'
    BY <2>2, <2>6, <2>7 DEF Judged, Equations, Commit
  <2> QED BY <2>4, <2>5, <2>8
<1>3. CASE UNCHANGED vars
  BY <1>3 DEF vars, Sane, Made, MadeFrom, Judged, Transcript, Equations,
              Commitments, Commit
<1> QED BY <1>1, <1>2, <1>3 DEF Next

(* The invariant holds for every size, element, witness and draw.           *)
THEOREM Invariance == Spec => []ZInv
<1>1. Init => ZInv
  BY ZInit
<1>2. ZInv /\ [Next]_vars => ZInv'
  BY ZNext
<1> QED BY <1>1, <1>2, PTL DEF Spec

(* A proof k, s written out: what was drawn for it, the commitments and the *)
(* responses made of that (prove_mem, zk_positive.rs:81-215).              *)
Shaped(k, s, item, u, c, r1, r2, r3, al, be, de, ep, et, ze) ==
  /\ k.c_e = Commit(item, r1) /\ k.c_r = Commit(r3, r2)
  /\ k.c_u = modmul(u, modpow(params.h, r2))
  /\ k.t_1 = Commit(ze, ep) /\ k.t_2 = Commit(al, et)
  /\ k.t_3 = modmul(modpow(modmul(u, modpow(params.h, r2)), al), modpow(params.h, -be))
  /\ k.t_4 = modmul(modpow(Commit(r3, r2), al), Commit(-de, -be))
  /\ s.s_alpha = al - c * item /\ s.s_eta = et - c * r1
  /\ s.s_beta = be - c * r2 * item /\ s.s_epsilon = ep - c * r2
  /\ s.s_zeta = ze - c * r3 /\ s.s_delta = de - c * r3 * item
  /\ al \in Draw(AlphaRange)

(* Every proof has that shape.                                              *)
LEMMA ProofShape ==
  ASSUME ZInv, proof # None
  PROVE  /\ stmt.item \in Nat /\ stmt.u \in Group /\ stmt.c \in Challenges
         /\ params.g \in Int /\ params.h \in Int
         /\ \E r1, r2, r3, al, be, de, ep, et, ze \in Int :
              Shaped(proof.k, proof.s, stmt.item, stmt.u, stmt.c,
                     r1, r2, r3, al, be, de, ep, et, ze)
<1>1. /\ stmt.item \in Items /\ stmt.u \in Witnesses
      /\ \E tr \in DOMAIN oracle : oracle[tr] = stmt.c
      /\ \E r \in Coins : MadeFrom(r)
  BY DEF ZInv, Made
<1>2. stmt.item \in Nat /\ stmt.u \in Group
  BY <1>1, ZKAssumption
<1>3. stmt.c \in Challenges /\ params.g \in Int /\ params.h \in Int
  BY <1>1 DEF ZInv, Sane
<1>4. PICK r \in Coins : MadeFrom(r)
  BY <1>1
<1>5. /\ r.r_1 \in Int /\ r.r_2 \in Int /\ r.r_3 \in Int /\ r.alpha \in Int
      /\ r.epsilon \in Int /\ r.eta \in Int /\ r.zeta \in Int
      /\ r.beta \in Int /\ r.delta \in Int /\ r.alpha \in Draw(AlphaRange)
  BY ZKAssumption, PowersOfTwo DEF Draw
<1>6. Shaped(proof.k, proof.s, stmt.item, stmt.u, stmt.c,
             r.r_1, r.r_2, r.r_3, r.alpha, r.beta, r.delta, r.epsilon, r.eta, r.zeta)
  BY <1>4, <1>5 DEF MadeFrom, Commitments, Responses, Shaped
<1> QED BY <1>2, <1>3, <1>5, <1>6

(* The verdict with the nonce of the proof is membership.                   *)
LEMMA VerdictIsMembership ==
  ASSUME ZInv, Verified, SameNonce
  PROVE  verdict.ok <=> GoodWitness
<1> DEFINE item == stmt.item
           c == stmt.c
           u == stmt.u
           acc == verdict.acc
           k == proof.k
           s == proof.s
<1>1. proof # None /\ acc \in Group /\ verdict.c = c
  <2>1. proof # None /\ acc \in Values /\ verdict.c = c
    BY DEF ZInv, Judged, Made, Verified, SameNonce
  <2> HIDE DEF acc, c
  <2> QED BY <2>1, ZKAssumption
<1>2. verdict.ok = (Equations(acc, k, s, c) /\ WithinBound(s.s_alpha))
  BY <1>1 DEF ZInv, Judged, Verified
<1>3. /\ item \in Nat /\ u \in Group /\ c \in Challenges
      /\ params.g \in Int /\ params.h \in Int
      /\ \E r1, r2, r3, al, be, de, ep, et, ze \in Int :
           Shaped(k, s, item, u, c, r1, r2, r3, al, be, de, ep, et, ze)
  BY <1>1, ProofShape
<1> HIDE DEF item, c, u, acc, k, s
<1>4. PICK r1, r2, r3, al, be, de, ep, et, ze \in Int :
        Shaped(k, s, item, u, c, r1, r2, r3, al, be, de, ep, et, ze)
  BY <1>3
<1>5. c \in Int /\ item \in Int
  BY <1>3, Cancel
<1>9. k.t_1 = modmul(modpow(k.c_r, c), Commit(s.s_zeta, s.s_epsilon))
  <2>1. Commit(ze, ep) = modmul(modpow(Commit(r3, r2), c), Commit(ze - c * r3, ep - c * r2))
    BY <1>3, <1>5, OpeningEquation
  <2> QED BY <1>4, <2>1 DEF Shaped
<1>10. k.t_2 = modmul(modpow(k.c_e, c), Commit(s.s_alpha, s.s_eta))
  <2>1. Commit(al, et)
          = modmul(modpow(Commit(item, r1), c), Commit(al - c * item, et - c * r1))
    BY <1>3, <1>5, OpeningEquation
  <2> QED BY <1>4, <2>1 DEF Shaped
<1>11. k.t_4 = modmul(modpow(k.c_r, s.s_alpha), Commit(-s.s_delta, -s.s_beta))
  <2>1. modmul(modpow(Commit(r3, r2), al), Commit(-de, -be))
          = modmul(modpow(Commit(r3, r2), al - c * item),
                   Commit(-(de - c * r3 * item), -(be - c * r2 * item)))
    BY <1>3, <1>5, RandomnessEquation
  <2> QED BY <1>4, <2>1 DEF Shaped
<1>12. (k.t_3 = modmul(modmul(modpow(acc, c), modpow(k.c_u, s.s_alpha)),
                       modpow(params.h, -s.s_beta)))
         <=> verify_mem(acc, item, u)
  <2>1. ValueMatches(acc, c, u, item, c, al, be, r2) <=> verify_mem(acc, item, u)
    BY <1>1, <1>3, <1>5, ValueEquationSame
  <2> QED BY <1>4, <2>1 DEF ValueMatches, Shaped
<1>13. WithinBound(s.s_alpha)
  <2>1. c * item \in Int
    BY <1>5
  <2>2. s.s_alpha \in Int
    BY <1>4, <2>1 DEF Shaped
  <2>3. Bound \in Nat \ {0}
    BY PowersOfTwo DEF Bound
  <2> QED BY <2>2, <2>3 DEF WithinBound
<1>14. Equations(acc, k, s, c) <=> verify_mem(acc, item, u)
  BY <1>9, <1>10, <1>11, <1>12 DEF Equations
<1> QED BY <1>2, <1>13, <1>14 DEF GoodWitness, item, u, acc

(* A proof from a witness verify_mem accepts is accepted under its nonce.   *)
THEOREM Completeness == Spec => []ProofComplete
<1>1. ZInv => ProofComplete
  BY VerdictIsMembership DEF ProofComplete
<1> QED BY <1>1, Invariance, PTL

(* A proof from any other witness is rejected: none of the randomness and   *)
(* no challenge makes the equation that names the accumulator come true.    *)
THEOREM StaleRejected == Spec => []StaleWitnessRejected
<1>1. ZInv => StaleWitnessRejected
  BY VerdictIsMembership DEF StaleWitnessRejected
<1> QED BY <1>1, Invariance, PTL

-----------------------------------------------------------------------------
(* The sizes fit: c * item is less than the range alpha is drawn from, and  *)
(* the bound is twice that range.  So the response of an honest prover is   *)
(* within the bound on both sides, and the check the verifier means to make *)
(* (zk_positive.rs:313-323) would refuse no honest proof.                   *)
THEOREM HonestBound == Spec => []HonestWithinBound
<1>1. ASSUME ZInv, proof # None, stmt.item < 2^H2P_SIZE
      PROVE  Abs(proof.s.s_alpha) < Bound
  <2> DEFINE item == stmt.item
             c == stmt.c
             range == AlphaRange
             chal == 2^CHALLENGE_SIZE
             size == 2^H2P_SIZE
  <2>1. /\ item \in Nat /\ c \in Challenges
        /\ \E al \in Draw(range) : proof.s.s_alpha = al - c * item
    BY <1>1, ProofShape DEF Shaped
  <2>2. item < size
    BY <1>1
  <2>3. /\ range \in Nat \ {0} /\ chal \in Nat \ {0} /\ size \in Nat \ {0}
        /\ chal * size <= range /\ Bound = 2 * range
    BY PowersOfTwo DEF Bound
  <2>4. c \in 1 .. (chal - 1)
    BY <2>1 DEF Challenges
  <2> HIDE DEF item, c, range, chal, size
  <2>5. PICK al \in -range .. (range - 1) : proof.s.s_alpha = al - c * item
    BY <2>1 DEF Draw
  <2> DEFINE prod == c * item
  <2>6. prod \in Nat /\ prod < range
    <3>1. prod <= chal * item
      BY <2>1, <2>3, <2>4
    <3>2. chal * item <= chal * (size - 1)
      BY <2>1, <2>2, <2>3
    <3>3. chal * (size - 1) < chal * size
      BY <2>3
    <3>4. /\ prod \in Nat /\ chal * item \in Nat
          /\ chal * (size - 1) \in Nat /\ chal * size \in Nat
      BY <2>1, <2>3, <2>4
    <3> HIDE DEF prod
    <3> QED BY <2>3, <3>1, <3>2, <3>3, <3>4
  <2>7. proof.s.s_alpha = al - prod
    BY <2>5
  <2> HIDE DEF prod
  <2>8. Abs(al - prod) < 2 * range
    BY <2>3, <2>6 DEF Abs
  <2> QED BY <2>3, <2>7, <2>8
<1>2. ZInv => HonestWithinBound
  BY <1>1 DEF HonestWithinBound
<1> QED BY <1>2, Invariance, PTL

-----------------------------------------------------------------------------
(* What satisfies a commitment equation for two challenges is neutral.      *)
LEMMA TwoChallenges ==
  ASSUME NEW c \in Challenges, NEW v \in Challenges, c # v,
         NEW P \in Group, NEW X, NEW x \in Int, Res(X, x),
         modmul(modpow(P, c), X) = modmul(modpow(P, v), X)
  PROVE  P = 0
<1>1. c \in Int /\ v \in Int /\ P \in Int /\ 0 \in Int /\ 0 \in Group
  BY Cancel, OrdPositive DEF Group
<1>2. /\ Res(modpow(P, c), Times(P, c)) /\ Times(P, c) \in Int
      /\ Res(modpow(P, v), Times(P, v)) /\ Times(P, v) \in Int
  BY <1>1, ResPow
<1>3. /\ Res(modmul(modpow(P, c), X), Times(P, c) + x) /\ Times(P, c) + x \in Int
      /\ Res(modmul(modpow(P, v), X), Times(P, v) + x) /\ Times(P, v) + x \in Int
  BY <1>2, ResMul
<1>4. Cong(Times(P, c) + x, Times(P, v) + x)
  BY <1>3, ResSame
<1>5. PICK n \in Int : Times(P, c) + x = Times(P, v) + x + n * Ord
  BY <1>4 DEF Cong
<1>6. Times(P, c) = Times(P, v) + n * Ord /\ n * Ord \in Int
  <2>1. n * Ord \in Int
    BY OrdPositive
  <2> QED BY <1>2, <1>5, <2>1
<1>7. ASSUME NEW d \in Challenges,
             \/ Times(P, d) = Times(P, c) - Times(P, v)
             \/ Times(P, d) = Times(P, v) - Times(P, c)
      PROVE  P = 0
  <2>1. d \in Int
    BY Cancel
  <2>2. Times(0, d) = 0 /\ Times(P, d) \in Int
    BY <1>1, <2>1, TimesInt DEF Times
  <2>3. Cong(Times(P, d), Times(0, d))
    <3>1. CASE Times(P, d) = Times(P, c) - Times(P, v)
      <4>1. Times(P, d) = 0 + n * Ord
        BY <1>2, <1>6, <3>1
      <4> QED BY <2>2, <4>1 DEF Cong
    <3>2. CASE Times(P, d) = Times(P, v) - Times(P, c)
      <4>1. Times(P, d) = 0 + (-n) * Ord /\ -n \in Int
        BY <1>2, <1>6, <3>2, OrdPositive
      <4> QED BY <2>2, <4>1 DEF Cong
    <3> QED BY <1>7, <3>1, <3>2
  <2>4. Cong(P, 0)
    BY <1>1, <2>3, Cancel
  <2> QED BY <1>1, <2>4, CongGroup
<1>8. \/ c - v \in Challenges
      \/ v - c \in Challenges
  BY <1>1, PowersOfTwo DEF Challenges
<1>9. /\ Times(P, c - v) = Times(P, c) - Times(P, v)
      /\ Times(P, v - c) = Times(P, v) - Times(P, c)
  BY <1>1 DEF Times
<1> QED BY <1>7, <1>8, <1>9

(* An opening verified with another challenge than it was made for.         *)
LEMMA OpeningOtherChallenge ==
  ASSUME NEW c \in Challenges, NEW v \in Challenges, c # v,
         NEW a \in Int, NEW b \in Int, NEW x \in Int, NEW y \in Int,
         params.g \in Int, params.h \in Int,
         Commit(a, b) = modmul(modpow(Commit(x, y), v), Commit(a - c * x, b - c * y))
  PROVE  Commit(x, y) = 0
<1> DEFINE P == Commit(x, y)
           X == Commit(a - c * x, b - c * y)
           m == Times(params.g, a - c * x) + Times(params.h, b - c * y)
<1>1. c \in Int /\ a - c * x \in Int /\ b - c * y \in Int
  <2>1. c \in Int
    BY Cancel
  <2> QED BY <2>1
<1>2. Res(X, m) /\ m \in Int
  BY <1>1, ResCommit
<1>3. P \in Group
  BY ResCommit DEF Res
<1>4. modmul(modpow(P, c), X) = modmul(modpow(P, v), X)
  BY <1>1, OpeningEquation
<1> HIDE DEF P, X, m
<1>5. P = 0
  BY <1>2, <1>3, <1>4, TwoChallenges
<1> QED BY <1>5 DEF P

(* Two residues raised to a power.                                          *)
LEMMA PowersEqual ==
  ASSUME NEW acc \in Group, NEW u \in Group, NEW item \in Int,
         NEW c \in Int, NEW v \in Int,
         Cong(Times(Times(u, item), c), Times(acc, v))
  PROVE  modpow(acc, v) = modpow(modpow(u, item), c)
<1> DEFINE w == modpow(u, item)
           t == Times(u, item)
<1>1. acc \in Int /\ u \in Int
  BY OrdPositive DEF Group
<1>2. Res(w, t) /\ t \in Int
  BY <1>1, ResPow
<1>3. w \in Int /\ Cong(w, t)
  BY <1>2 DEF Res
<1> HIDE DEF w, t
<1>4. /\ Res(modpow(w, c), Times(w, c)) /\ Times(w, c) \in Int
      /\ Res(modpow(acc, v), Times(acc, v)) /\ Times(acc, v) \in Int
      /\ Times(t, c) \in Int
  BY <1>1, <1>2, <1>3, ResPow, TimesInt
<1>5. Cong(Times(w, c), Times(t, c))
  BY <1>2, <1>3, CongMul
<1>6. Cong(Times(t, c), Times(acc, v))
  BY DEF t
<1>7. Cong(Times(w, c), Times(acc, v))
  BY <1>4, <1>5, <1>6, CongTrans
<1>8. modpow(w, c) = modpow(acc, v)
  BY <1>4, <1>7, ResSame
<1> QED BY <1>8 DEF w

(* Under a nonce other than its own a proof is accepted only by chance:     *)
(* with the same challenge the oracle has answered two questions alike, and *)
(* with another one every equation has to hold for two challenges at once.  *)
THEOREM NonceBinds == Spec => []BoundToNonce
<1>1. ASSUME ZInv, Verified, ~SameNonce, verdict.ok, verdict.c = stmt.c
      PROVE  \E q, r \in DOMAIN oracle : q # r /\ oracle[q] = oracle[r]
  <2> DEFINE q == Transcript(proof.k, stmt.extra)
             r == Transcript(proof.k, verdict.extra)
  <2>1. proof # None /\ r \in DOMAIN oracle /\ oracle[r] = verdict.c
    BY <1>1 DEF ZInv, Judged, Verified
  <2>2. q \in DOMAIN oracle /\ oracle[q] = stmt.c
    BY <1>1, <2>1 DEF ZInv, Made
  <2>3. q # r
    <3>1. q.extra = stmt.extra /\ r.extra = verdict.extra
      BY DEF Transcript
    <3>2. stmt.extra # verdict.extra
      BY <1>1 DEF SameNonce
    <3> QED BY <3>1, <3>2
  <2> HIDE DEF q, r
  <2> QED BY <1>1, <2>1, <2>2, <2>3
<1>2. ASSUME ZInv, Verified, verdict.ok, verdict.c # stmt.c
      PROVE  /\ proof.k.c_e = 0 /\ proof.k.c_r = 0
             /\ modpow(verdict.acc, verdict.c) = modpow(modpow(stmt.u, stmt.item), stmt.c)
  <2> DEFINE item == stmt.item
             c == stmt.c
             v == verdict.c
             u == stmt.u
             acc == verdict.acc
             k == proof.k
             s == proof.s
  <2>1. proof # None /\ acc \in Group /\ v \in Challenges /\ c # v
    <3>1. /\ proof # None /\ acc \in Values
          /\ \E tr \in DOMAIN oracle : oracle[tr] = v
      BY <1>2 DEF ZInv, Judged, Verified
    <3>2. v \in Challenges
      BY <1>2, <3>1 DEF ZInv, Sane
    <3> HIDE DEF acc, v
    <3> QED BY <1>2, <3>1, <3>2, ZKAssumption DEF v
  <2>2. Equations(acc, k, s, v)
    BY <1>2 DEF ZInv, Judged, Verified
  <2>3. /\ item \in Nat /\ u \in Group /\ c \in Challenges
        /\ params.g \in Int /\ params.h \in Int
        /\ \E r1, r2, r3, al, be, de, ep, et, ze \in Int :
             Shaped(k, s, item, u, c, r1, r2, r3, al, be, de, ep, et, ze)
    BY <1>2, <2>1, ProofShape
  <2> HIDE DEF item, c, v, u, acc, k, s
  <2>4. PICK r1, r2, r3, al, be, de, ep, et, ze \in Int :
          Shaped(k, s, item, u, c, r1, r2, r3, al, be, de, ep, et, ze)
    BY <2>3
  <2>5. c \in Int /\ v \in Int /\ item \in Int
    BY <2>1, <2>3, Cancel
  <2>6. k.c_r = 0
    <3>1. Commit(ze, ep)
            = modmul(modpow(Commit(r3, r2), v), Commit(ze - c * r3, ep - c * r2))
      BY <2>2, <2>4 DEF Equations, Shaped
    <3>2. Commit(r3, r2) = 0
      BY <2>1, <2>3, <3>1, OpeningOtherChallenge
    <3> QED BY <2>4, <3>2 DEF Shaped
  <2>7. k.c_e = 0
    <3>1. Commit(al, et)
            = modmul(modpow(Commit(item, r1), v), Commit(al - c * item, et - c * r1))
      BY <2>2, <2>4 DEF Equations, Shaped
    <3>2. Commit(item, r1) = 0
      BY <2>1, <2>3, <2>5, <3>1, OpeningOtherChallenge
    <3> QED BY <2>4, <3>2 DEF Shaped
  <2>8. modpow(acc, v) = modpow(modpow(u, item), c)
    <3>1. ValueMatches(acc, v, u, item, c, al, be, r2)
      BY <2>2, <2>4 DEF Equations, Shaped, ValueMatches
    <3>2. Cong(Times(Times(u, item), c), Times(acc, v))
      BY <2>1, <2>3, <2>5, <3>1, ValueEquation
    <3> QED BY <2>1, <2>3, <2>5, <3>2, PowersEqual
  <2> QED BY <2>6, <2>7, <2>8 DEF item, c, v, u, acc, k
<1>3. ZInv => BoundToNonce
  BY <1>1, <1>2 DEF BoundToNonce
<1> QED BY <1>3, Invariance, PTL

=============================================================================
