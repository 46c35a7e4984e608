------------------------- MODULE SignedPairs_proofs -------------------------
(***************************************************************************)
(* A case of the signed pairs, of either kind: the scan of Holder Update   *)
(* is exact on lists of any length; the non-revocation proof is exact for  *)
(* every field, range, word size and set of identifiers that GapAssumption *)
(* allows.                                                                 *)
(***************************************************************************)
EXTENDS SignedPairs, TLAPS

(* The two numbers % and \div produce, for any positive modulus.            *)
LEMMA Remainder ==
  ASSUME NEW N \in Nat \ {0}, NEW a \in Int
  PROVE  a % N \in 0..(N-1) /\ a \div N \in Int /\ a = N * (a \div N) + (a % N)
OBVIOUS

(* Two numbers below N that differ by a multiple of N are equal.            *)
LEMMA SameRemainder ==
  ASSUME NEW N \in Nat \ {0}, NEW a \in 0..(N-1), NEW b \in 0..(N-1), NEW k \in Int,
         a - b = N * k
  PROVE  a = b
<1>1. CASE k >= 1
  <2>1. N * k >= N BY <1>1
  <2> QED BY <2>1
<1>2. CASE k <= -1
  <2>1. N * k <= -N BY <1>2
  <2> QED BY <2>1
<1>3. CASE k = 0
  BY <1>3
<1> QED BY <1>1, <1>2, <1>3

(* Numbers that differ by a multiple of N have the same remainder.          *)
LEMMA Congruent ==
  ASSUME NEW N \in Nat \ {0}, NEW a \in Int, NEW b \in Int, NEW k \in Int, a - b = N * k
  PROVE  a % N = b % N
<1> DEFINE ra == a % N
           rb == b % N
           qa == a \div N
           qb == b \div N
<1>1. ra \in 0..(N-1) /\ qa \in Int /\ a = N * qa + ra BY Remainder
<1>2. rb \in 0..(N-1) /\ qb \in Int /\ b = N * qb + rb BY Remainder
<1> HIDE DEF ra, rb, qa, qb
<1>3. ra - rb = N * (k - qa + qb) BY <1>1, <1>2
<1>4. ra = rb BY <1>1, <1>2, <1>3, SameRemainder
<1> QED BY <1>4 DEF ra, rb

(* Subtracting remainders is subtracting the numbers.                       *)
LEMMA SubRemainders ==
  ASSUME NEW N \in Nat \ {0}, NEW a \in Int, NEW b \in Int
  PROVE  ((a % N) - (b % N)) % N = (a - b) % N
<1> DEFINE ra == a % N
           rb == b % N
           qa == a \div N
           qb == b \div N
           c  == ra - rb
           d  == a - b
           k  == qb - qa
<1>1. ra \in Int /\ qa \in Int /\ a = N * qa + ra BY Remainder
<1>2. rb \in Int /\ qb \in Int /\ b = N * qb + rb BY Remainder
<1> HIDE DEF ra, rb, qa, qb
<1>3. c \in Int /\ d \in Int /\ k \in Int /\ c - d = N * k BY <1>1, <1>2
<1> HIDE DEF c, d, k
<1>4. c % N = d % N BY <1>3, Congruent
<1> QED BY <1>4 DEF c, d, ra, rb

(* What the assumption says of the moduli, as the solvers want it.          *)
LEMMA FieldNonZero ==
  F \in Nat \ {0} /\ U64 \in Nat \ {0} /\ U64 < F /\ 1 < F
BY GapAssumption

(* The homomorphism the verifier relies on: the difference of two           *)
(* commitments less G commits to the difference of the values less one.     *)
LEMMA Homomorphic ==
  ASSUME NEW x \in Int, NEW y \in Int, NEW r \in Int, NEW s \in Int
  PROVE  minus(minus(commitment(x, r), commitment(y, s)), G)
           = commitment(x - y - 1, r - s)
<1>1. ((x % F) - (y % F)) % F = (x - y) % F
  BY SubRemainders, FieldNonZero
<1>2. ((r % F) - (s % F)) % F = (r - s) % F
  BY SubRemainders, FieldNonZero
<1>3. (((x - y) % F) - 1) % F = (x - y - 1) % F
  <2>1. 1 % F = 1 BY FieldNonZero
  <2> DEFINE z == x - y
  <2>3. z \in Int /\ 1 \in Int OBVIOUS
  <2> HIDE DEF z
  <2>2. ((z % F) - (1 % F)) % F = (z - 1) % F
    BY <2>3, SubRemainders, FieldNonZero
  <2> USE DEF z
  <2> QED BY <2>1, <2>2
<1>4. (((r - s) % F) - 0) % F = (r - s) % F
  <2>1. (r - s) % F \in 0..(F-1) BY Remainder, FieldNonZero
  <2> QED BY <2>1, FieldNonZero
<1> QED BY <1>1, <1>2, <1>3, <1>4 DEF minus, commitment, G

(* A small negative number wraps once.                                      *)
LEMMA WrapsOnce ==
  ASSUME NEW N \in Nat \ {0}, NEW e \in Int, -N <= e, e <= -1
  PROVE  e % N = N + e
<1> DEFINE w == N + e
           k == 1
<1>1. w \in 0..(N-1) /\ w - e = N * k /\ k \in Int
  OBVIOUS
<1>2. w % N = w BY <1>1
<1>3. w \in Int BY <1>1
<1> HIDE DEF w, k
<1>4. w % N = e % N BY <1>1, <1>3, Congruent
<1> QED BY <1>2, <1>4 DEF w

(* One half of the aggregate: the opening the prover computes opens the     *)
(* verifier's commitment, and is in range, exactly when y lies below x;     *)
(* otherwise it has wrapped to a number the field tells apart, whatever the *)
(* range.                                                                   *)
LEMMA HalfExact ==
  ASSUME range \in Nat,
         NEW x \in 0..(U64-1), NEW y \in 0..(U64-1), x < range,
         NEW r \in Int, NEW s \in Int
  PROVE  InRange(minus(minus(commitment(x, r), commitment(y, s)), G),
                 (x - y - 1) % U64, r - s)
         <=> y < x
<1>1. F \in Nat \ {0} /\ U64 \in Nat \ {0} /\ U64 < F
  BY FieldNonZero
<1>2. minus(minus(commitment(x, r), commitment(y, s)), G) = commitment(x - y - 1, r - s)
  BY Homomorphic, <1>1
<1> DEFINE e == x - y - 1
<1>3. CASE y < x
  <2>1. e \in 0..(U64 - 1) /\ e < range BY <1>1, <1>3
  <2>2. e % U64 = e BY <2>1, <1>1
  <2> QED BY <1>2, <1>3, <2>1, <2>2 DEF InRange
<1>4. CASE ~(y < x)
  <2>1. e \in Int /\ -U64 <= e /\ e <= -1 BY <1>1, <1>4
  <2>2. e % U64 = U64 + e BY <2>1, <1>1, WrapsOnce
  <2>3. e % F = F + e BY <2>1, <1>1, WrapsOnce
  <2>4. (U64 + e) % F = U64 + e
    <3>1. U64 + e \in 0..(F-1) BY <2>1, <1>1
    <3> QED BY <3>1, <1>1
  <2>5. commitment(e, r - s) # commitment(e % U64, r - s)
    BY <2>2, <2>3, <2>4, <1>1, <2>1 DEF commitment
  <2> HIDE DEF e
  <2>6. ~InRange(commitment(e, r - s), e % U64, r - s) BY <2>5 DEF InRange
  <2> QED BY <2>6, <1>2, <1>4 DEF e
<1> QED BY <1>3, <1>4

(* What a range statement says, whatever opening it is proved from.         *)
LEMMA HalfSound ==
  ASSUME range \in Nat, 2 * range <= F,
         NEW x \in 0..(U64-1), NEW y \in 0..(U64-1), x < range, y < range,
         NEW r \in Int, NEW s \in Int
  PROVE  Provable(minus(minus(commitment(x, r), commitment(y, s)), G)) <=> y < x
<1>1. F \in Nat \ {0} /\ U64 \in Nat \ {0} /\ U64 < F
  BY FieldNonZero
<1>2. minus(minus(commitment(x, r), commitment(y, s)), G) = commitment(x - y - 1, r - s)
  BY Homomorphic, <1>1
<1> DEFINE e == x - y - 1
<1>3. commitment(e, r - s)[1] = e % F
  BY DEF commitment
<1>4. ASSUME NEW v \in 0 .. (range - 1) PROVE v % F = v
  BY <1>1
<1>5. CASE y < x
  <2>1. e \in 0 .. (range - 1) BY <1>5
  <2> HIDE DEF e
  <2>2. \E v \in 0 .. (range - 1) : v % F = e % F BY <2>1
  <2>3. Provable(commitment(e, r - s)) BY <2>2, <1>3 DEF Provable
  <2> QED BY <2>3, <1>5, <1>2 DEF e
<1>6. CASE ~(y < x)
  <2>1. e \in Int /\ -U64 <= e /\ e <= -1 /\ e >= -range BY <1>1, <1>6
  <2>2. e % F = F + e BY <2>1, <1>1, WrapsOnce
  <2>3. F + e >= range BY <2>1, <1>1
  <2>4. ASSUME NEW v \in 0 .. (range - 1) PROVE v % F # e % F
    <3>1. v < F + e BY <2>3, <2>1, <1>1
    <3> QED BY <3>1, <2>2, <1>4, <2>1, <1>1
  <2> HIDE DEF e
  <2>5. ~Provable(commitment(e, r - s)) BY <2>4, <1>3 DEF Provable
  <2> QED BY <2>5, <1>6, <1>2 DEF e
<1> QED BY <1>5, <1>6

-----------------------------------------------------------------------------
(* What the steps establish on the way to a verdict.                        *)
GType  == /\ kind \in Kinds /\ range \in Widths \cup {RANGE}
          /\ signed \in [l: Ids, h: Ids, u: Ids]
          /\ ids \in [l: Ids, h: Ids, u: Ids]
GComs  == coms # << >> => \E r \in Rands : coms = Commitments(ids, r)
GComp  == composite # << >> =>
            /\ composite.msgs = rev_msgs(signed)
            /\ kind \in WithComposite =>
                 composite.witness = ids /\ composite.blinded = ProverEqualities
            /\ kind \in WithComposite => coms # << >>
GBpp   == bpp # << >> => coms # << >> /\ bpp = Openings(ids, coms.r)

(* What each pair of cases is there to tell.                                *)
Claim ==
  /\ kind = "membership"  => ids = signed /\ StrictlyInside(signed)
  /\ kind = "bbs_pedcomm" => ids = signed
  /\ kind = "bpp_single"  => ids.l < ids.h
  /\ kind \in {"bpp_aggregate", "bitwidth"} => StrictlyInside(ids)

GExact == verdict # "none" => (verdict = "accepted" <=> Claim)
GInv   == GType /\ GComs /\ GComp /\ GBpp /\ GExact

(* The identifiers fit the word and the range.                              *)
LEMMA IdsFit ==
  ASSUME GInv
  PROVE  /\ range \in Nat
         /\ \A i \in {ids.l, ids.h, ids.u, signed.l, signed.h, signed.u} :
               i \in 0..(U64-1) /\ i < range /\ i \in Int
<1>1. range \in Widths \cup {RANGE}
  BY DEF GInv, GType
<1>2. range \in Nat
  BY <1>1, GapAssumption
<1>3. Ids \subseteq 0 .. (range - 1) /\ Ids \subseteq 0 .. (U64 - 1)
  BY <1>1, GapAssumption
<1>4. {ids.l, ids.h, ids.u, signed.l, signed.h, signed.u} \subseteq Ids
  BY DEF GInv, GType
<1>5. ASSUME NEW i \in Ids PROVE i \in 0..(U64-1) /\ i < range /\ i \in Int
  BY <1>2, <1>3, FieldNonZero
<1> QED BY <1>2, <1>4, <1>5

(* Each half of the range proof that was built from the identifiers.        *)
LEMMA HalvesExact ==
  ASSUME GInv, bpp # << >>
  PROVE  /\ InRange(Difference1(coms), bpp.diff1, bpp.dr1) <=> ids.l < ids.h
         /\ InRange(Difference2(coms), bpp.diff2, bpp.dr2) <=> ids.h < ids.u
<1>1. bpp = Openings(ids, coms.r) /\ coms # << >>
  BY DEF GInv, GBpp
<1>2. PICK r \in Rands : coms = Commitments(ids, r)
  BY <1>1 DEF GInv, GComs
<1>3. r[1] \in Int /\ r[2] \in Int /\ r[3] \in Int
  BY GapAssumption
<1>4. range \in Nat /\ \A i \in {ids.l, ids.h, ids.u} : i \in 0..(U64-1) /\ i < range
  BY IdsFit
<1>5. InRange(Difference1(coms), bpp.diff1, bpp.dr1) <=> ids.l < ids.h
  BY <1>1, <1>2, <1>3, <1>4, HalfExact DEF Difference1, Openings, Commitments
<1>6. InRange(Difference2(coms), bpp.diff2, bpp.dr2) <=> ids.h < ids.u
  BY <1>1, <1>2, <1>3, <1>4, HalfExact DEF Difference2, Openings, Commitments
<1> QED BY <1>5, <1>6

(* The equalities bind the commitments to the credential.                   *)
LEMMA EqualitiesExact ==
  ASSUME GInv, composite # << >>, kind \in WithComposite
  PROVE  EqualitiesHold <=> ids = signed
<1>1. /\ composite.msgs = rev_msgs(signed) /\ composite.witness = ids
      /\ composite.blinded = ProverEqualities /\ coms # << >>
  BY DEF GInv, GComp
<1>2. PICK r \in Rands : coms = Commitments(ids, r)
  BY <1>1 DEF GInv, GComs
<1>3. \A x \in Names : coms[x][1] = composite.witness[x] % F
  BY <1>1, <1>2 DEF Names, Commitments, commitment
<1>4. \A x \in Names : composite.blinded[x] = VerifierEqualities[x]
  BY <1>1 DEF ProverEqualities, VerifierEqualities
<1>5. (\A x \in Names : composite.msgs[VerifierEqualities[x]] = composite.witness[x])
        <=> signed.l = ids.l /\ signed.h = ids.h /\ signed.u = ids.u
  BY <1>1 DEF Names, VerifierEqualities, rev_msgs
<1>6. signed.l = ids.l /\ signed.h = ids.h /\ signed.u = ids.u <=> ids = signed
  BY DEF GInv, GType
<1> QED BY <1>3, <1>4, <1>5, <1>6 DEF EqualitiesHold

(* The verdict on what was built from the statement is the claim.           *)
LEMMA VerdictExact ==
  ASSUME GInv, Verify
  PROVE  Accepts <=> Claim
<1>1. kind \notin RangeOnly => composite # << >> /\ SignatureHolds
  BY DEF Verify, GInv, GComp, SignatureHolds
<1>2. kind \in WithComposite => (EqualitiesHold <=> ids = signed)
  BY <1>1, EqualitiesExact DEF WithComposite, RangeOnly
<1>3. kind \in WithRange =>
        /\ InRange(Difference1(coms), bpp.diff1, bpp.dr1) <=> ids.l < ids.h
        /\ InRange(Difference2(coms), bpp.diff2, bpp.dr2) <=> ids.h < ids.u
  BY HalvesExact DEF Verify
<1>4. kind \in Kinds
  BY DEF GInv, GType
<1> HIDE DEF GInv
<1>5. CASE kind = "membership"
  BY <1>1, <1>2, <1>3, <1>5
  DEF Accepts, Claim, StrictlyInside, WithRange, WithComposite, RangeOnly
<1>6. CASE kind = "bbs_only"
  BY <1>1, <1>6 DEF Accepts, Claim, WithRange, WithComposite, RangeOnly
<1>7. CASE kind = "bbs_pedcomm"
  BY <1>1, <1>2, <1>7 DEF Accepts, Claim, WithRange, WithComposite, RangeOnly
<1>8. CASE kind = "bpp_single"
  BY <1>3, <1>8 DEF Accepts, Claim, WithRange, WithComposite, RangeOnly
<1>9. CASE kind \in {"bpp_aggregate", "bitwidth"}
  BY <1>3, <1>9 DEF Accepts, Claim, StrictlyInside, WithRange, WithComposite, RangeOnly
<1> QED BY <1>4, <1>5, <1>6, <1>7, <1>8, <1>9 DEF Kinds, WithComposite, RangeOnly

(* Before anything is committed to.                                         *)
LEMMA GapInit == ProofInit => GInv
  BY DEF ProofInit, GInv, GType, GComs, GComp, GBpp, GExact

(* Every step of a proof.                                                   *)
LEMMA GapStep == GInv /\ [ProofNext]_proofVars => GInv'
<1> SUFFICES ASSUME GInv, [ProofNext]_proofVars PROVE GInv'
  OBVIOUS
<1> USE DEF statement
<1>1. CASE build_composite_proof
  BY <1>1 DEF build_composite_proof, GInv, GType, GComs, GComp, GBpp, GExact, Claim,
              StrictlyInside, Commitments
<1>2. CASE build_bbs_only_proof
  BY <1>2 DEF build_bbs_only_proof, GInv, GType, GComs, GComp, GBpp, GExact, Claim,
              StrictlyInside, WithComposite
<1>3. CASE build_bpp_setup
  BY <1>3 DEF build_bpp_setup, GInv, GType, GComs, GComp, GBpp, GExact, Claim,
              StrictlyInside, Commitments
<1>4. CASE build_bpp_proof
  BY <1>4 DEF build_bpp_proof, GInv, GType, GComs, GComp, GBpp, GExact, Claim,
              StrictlyInside
<1>5. CASE Verify
  <2>1. GType' /\ GComs' /\ GComp' /\ GBpp'
    BY <1>5 DEF Verify, GInv, GType, GComs, GComp, GBpp
  <2>2. Claim' <=> Claim
    BY <1>5 DEF Verify, Claim, StrictlyInside
  <2>3. Accepts <=> Claim
    BY <1>5, VerdictExact
  <2>4. verdict' = IF Accepts THEN "accepted" ELSE "rejected"
    BY <1>5 DEF Verify
  <2>5. GExact'
    BY <2>2, <2>3, <2>4 DEF GExact
  <2> QED BY <2>1, <2>5 DEF GInv
<1>6. CASE UNCHANGED proofVars
  BY <1>6 DEF proofVars, GInv, GType, GComs, GComp, GBpp, GExact, Claim, StrictlyInside
<1> QED BY <1>1, <1>2, <1>3, <1>4, <1>5, <1>6 DEF ProofNext

(* What the invariant says of the verdict on the whole proof ...            *)
LEMMA WholeExact == GInv => AcceptsStrictlyInside
  BY DEF GInv, GExact, Claim, AcceptsStrictlyInside

(* ... on a part measured alone ...                                         *)
LEMMA PartsExact == GInv => PartsAsClaimed
  BY DEF GInv, GExact, Claim, PartsAsClaimed

(* ... and of the range statements themselves.                              *)
LEMMA RangeExact == GInv => RangeStatementExact
<1> SUFFICES ASSUME GInv, coms # << >>, 2 * range <= F
             PROVE  Provable(Difference1(coms)) /\ Provable(Difference2(coms))
                      <=> StrictlyInside(ids)
  BY DEF RangeStatementExact
<1>1. PICK r \in Rands : coms = Commitments(ids, r)
  BY DEF GInv, GComs
<1>2. r[1] \in Int /\ r[2] \in Int /\ r[3] \in Int
  BY GapAssumption
<1>3. range \in Nat /\ \A i \in {ids.l, ids.h, ids.u} : i \in 0..(U64-1) /\ i < range
  BY IdsFit
<1>4. Provable(Difference1(coms)) <=> ids.l < ids.h
  BY <1>1, <1>2, <1>3, HalfSound DEF Difference1, Commitments
<1>5. Provable(Difference2(coms)) <=> ids.h < ids.u
  BY <1>1, <1>2, <1>3, HalfSound DEF Difference2, Commitments
<1> QED BY <1>4, <1>5 DEF StrictlyInside

(* The invariant holds at first and every step keeps it.                    *)
LEMMA GapInvariance == ProofSpec => []GInv
  BY GapInit, GapStep, PTL DEF ProofSpec

-----------------------------------------------------------------------------
(* Where the scan is and, once it has succeeded, what it stands on.         *)
Standing ==
  /\ mech \in {"none", "ecdsa", "bbs"}
  /\ n \in Nat /\ pos \in Nat
  /\ mech # "none" => n \in Nat \ {0} /\ pos \in 1 .. (n + 1)
  /\ outcome = "ok" => mech # "none" /\ pos <= n /\ Covers(gap(pos))

(* Half of the list, rounded down, is a number of gaps.                     *)
LEMMA HalfNatural == n \in Nat => half \in Nat
  BY DEF half

(* The gaps of bench_ecdsa are ten apart and ten long: one of them has the  *)
(* holder's identifier.                                                     *)
LEMMA EcdsaOnce ==
  ASSUME mech = "ecdsa", half \in Nat, NEW i \in Int, Covers(gap(i))
  PROVE  i = half + 1
<1>1. gap(i) = [lo |-> 10 * (i - 1), hi |-> 10 * (i - 1) + 9]
  BY DEF gap, EcdsaGap
<1>2. uid = 10 * half + 4
  BY DEF uid
<1>3. 10 * (i - 1) <= 10 * half + 4 /\ 10 * half + 4 <= 10 * (i - 1) + 9
  BY <1>1, <1>2 DEF Covers
<1> HIDE DEF half
<1> QED BY <1>3

(* In the list of bench_bbs_bpp the gap in the middle ends where its        *)
(* neighbours begin, and the holder's identifier is strictly inside.        *)
LEMMA BbsOnce ==
  ASSUME mech = "bbs", half \in Nat, NEW i \in Int, Covers(gap(i))
  PROVE  i = half + 1
<1> DEFINE mid == half
<1>1. uid = 2 * mid + 1 /\ gap(i) = BbsGap(i) /\ mid \in Int
  BY DEF uid, gap
<1>2. CASE i <= mid
  <2>1. gap(i).hi = 2 * (i - 1) + 1
    BY <1>1, <1>2 DEF BbsGap
  <2>2. uid <= 2 * (i - 1) + 1
    BY <2>1 DEF Covers
  <2> HIDE DEF mid
  <2> QED BY <2>2, <1>1, <1>2
<1>3. CASE i > mid + 1
  <2>1. gap(i).lo = 2 * mid + 2 + 1 + 2 * (i - mid - 2)
    BY <1>1, <1>3 DEF BbsGap
  <2>2. 2 * mid + 2 + 1 + 2 * (i - mid - 2) <= uid
    BY <2>1 DEF Covers
  <2> HIDE DEF mid
  <2> QED BY <2>2, <1>1, <1>3
<1> QED BY <1>1, <1>2, <1>3

(* So no two gaps cover the holder's identifier.                            *)
LEMMA CoveredOnce ==
  ASSUME mech \in {"ecdsa", "bbs"}, n \in Nat \ {0},
         NEW i \in Int, Covers(gap(i)), NEW j \in Int, Covers(gap(j))
  PROVE  i = j
<1>1. half \in Nat
  BY HalfNatural
<1>2. i = half + 1 /\ j = half + 1
  BY <1>1, EcdsaOnce, BbsOnce
<1> QED BY <1>2

(* A success is a success on the only gap there is.                         *)
LEMMA StandingExact == Standing => OnlyHit
<1> SUFFICES ASSUME Standing, outcome = "ok", NEW i \in 1 .. n
             PROVE  Covers(gap(i)) <=> i = pos
  BY DEF OnlyHit
<1>1. /\ mech \in {"ecdsa", "bbs"} /\ n \in Nat \ {0}
      /\ pos \in Int /\ i \in Int /\ Covers(gap(pos))
  BY DEF Standing
<1> QED BY <1>1, CoveredOnce

-----------------------------------------------------------------------------
(* No scan succeeds before it has begun.                                    *)
LEMMA InitOK == Init => Standing
<1>1. CASE ScanInit
  <2>1. n \in Nat \ {0} /\ pos = 1 /\ outcome = "scanning" /\ mech \in {"ecdsa", "bbs"}
    BY <1>1, ScanAssumption DEF ScanInit
  <2>2. pos \in 1 .. (n + 1)
    BY <2>1
  <2> QED BY <2>1, <2>2 DEF Standing
<1>2. CASE NoScan
  BY <1>2 DEF NoScan, Standing
<1> QED BY <1>1, <1>2 DEF Init

(* One gap further.                                                         *)
LEMMA SkipOK ==
  ASSUME Standing, mech # "none", Skip
  PROVE  Standing'
<1>1. /\ UNCHANGED <<mech, n, outcome>> /\ pos' = pos + 1
      /\ outcome = "scanning" /\ pos <= n
  BY DEF Skip
<1>2. pos \in 1 .. (n + 1) /\ n \in Nat \ {0}
  BY DEF Standing
<1>3. pos' \in 1 .. (n + 1)
  BY <1>1, <1>2
<1> QED BY <1>1, <1>2, <1>3 DEF Standing

(* The verdict of a repetition.                                             *)
LEMMA DecideOK ==
  ASSUME Standing, mech # "none", Decide
  PROVE  Standing'
<1>1. UNCHANGED <<mech, n, pos>> /\ (outcome' = "ok" => pos <= n /\ Covers(gap(pos)))
  BY DEF Decide
<1>2. Covers(gap(pos))' <=> Covers(gap(pos))
  BY <1>1 DEF Covers, gap, EcdsaGap, BbsGap, uid, half
<1> QED BY <1>1, <1>2 DEF Standing

(* What a proof does is no concern of the scan.                             *)
LEMMA OtherOK ==
  ASSUME Standing, UNCHANGED scanVars
  PROVE  Standing'
<1>1. UNCHANGED <<mech, n, pos, outcome>>
  BY DEF scanVars
<1>2. Covers(gap(pos))' <=> Covers(gap(pos))
  BY <1>1 DEF Covers, gap, EcdsaGap, BbsGap, uid, half
<1> QED BY <1>1, <1>2 DEF Standing

(* A case of the other kind has no list.                                    *)
Apart == kind = "none" => mech # "none"

(* Every step keeps both.                                                   *)
LEMMA NextOK == Standing /\ Apart /\ [Next]_vars => Standing' /\ Apart'
<1> SUFFICES ASSUME Standing, Apart, [Next]_vars PROVE Standing' /\ Apart'
  OBVIOUS
<1>1. CASE kind = "none" /\ ScanNext /\ UNCHANGED proofVars
  <2>1. mech # "none" BY <1>1 DEF Apart
  <2>2. Standing' BY <1>1, <2>1, SkipOK, DecideOK DEF ScanNext
  <2>3. mech' = mech BY <1>1 DEF ScanNext, Skip, Decide
  <2> QED BY <2>1, <2>2, <2>3 DEF Apart
<1>2. CASE UNCHANGED scanVars /\ UNCHANGED kind
  BY <1>2, OtherOK DEF Apart, scanVars
<1>3. CASE mech = "none" /\ ProofNext /\ UNCHANGED scanVars
  <2>1. kind' = kind
    BY <1>3 DEF ProofNext, build_composite_proof, build_bbs_only_proof, build_bpp_setup,
                build_bpp_proof, Verify, statement
  <2> QED BY <1>2, <1>3, <2>1
<1>4. CASE UNCHANGED vars
  BY <1>2, <1>4 DEF vars, proofVars, statement
<1> QED BY <1>1, <1>3, <1>4 DEF Next

(* A case is one or the other from the start.                               *)
LEMMA InitApart == Init => Apart
  BY DEF Init, Apart, ScanInit, NoScan, NoProof, ProofInit, Kinds, WithComposite,
         WithRange, RangeOnly

(* The scan stops at the only gap that has the holder's identifier, with    *)
(* either mechanism and a list of any length.                               *)
THEOREM ScanExact == Spec => []OnlyHit
<1>1. Init => Standing /\ Apart
  BY InitOK, InitApart
<1> QED BY <1>1, NextOK, StandingExact, PTL DEF Spec

-----------------------------------------------------------------------------
(* A case that is a proof keeps what is shown of proofs above; a scan       *)
(* leaves nothing to be said of one.                                        *)
ProofOrNone == IF kind = "none" THEN coms = << >> /\ verdict = "none" ELSE GInv

(* A scan has no proof, a proof starts as GapProof has it start.            *)
LEMMA InitProofOrNone == Init => ProofOrNone
<1>1. NoProof => ProofOrNone
  BY DEF NoProof, ProofOrNone
<1>2. ProofInit => kind # "none"
  BY DEF ProofInit, Kinds, WithComposite, WithRange, RangeOnly
<1> QED BY <1>1, <1>2, GapInit DEF Init, ProofOrNone

(* The steps of a scan change no proof, and those of a proof keep GInv.     *)
LEMMA NextProofOrNone == Apart /\ ProofOrNone /\ [Next]_vars => ProofOrNone'
<1> SUFFICES ASSUME Apart, ProofOrNone, [Next]_vars PROVE ProofOrNone'
  OBVIOUS
<1>1. CASE UNCHANGED proofVars
  <2>1. UNCHANGED <<kind, coms, verdict>>
    BY <1>1 DEF proofVars, statement
  <2>2. GInv => GInv'
    BY <1>1, GapStep
  <2> QED BY <2>1, <2>2 DEF ProofOrNone
<1>2. CASE mech = "none" /\ ProofNext
  <2>1. kind # "none"
    BY <1>2 DEF Apart
  <2>2. GInv'
    BY <1>2, <2>1, GapStep DEF ProofOrNone
  <2>3. kind' = kind
    BY <1>2 DEF ProofNext, build_composite_proof, build_bbs_only_proof, build_bpp_setup,
                build_bpp_proof, Verify, statement
  <2> QED BY <2>1, <2>2, <2>3 DEF ProofOrNone
<1> QED BY <1>1, <1>2 DEF Next, vars

(* The invariant says what the three properties of proofs ask.              *)
LEMMA ProofOrNoneExact ==
  ProofOrNone => AcceptsStrictlyInside /\ PartsAsClaimed /\ RangeStatementExact
<1>1. CASE kind = "none"
  BY <1>1 DEF ProofOrNone, AcceptsStrictlyInside, PartsAsClaimed, RangeStatementExact
<1>2. CASE kind # "none"
  BY <1>2, WholeExact, PartsExact, RangeExact DEF ProofOrNone
<1> QED BY <1>1, <1>2

(* Every step of every case.                                                *)
THEOREM ProofInvariance == Spec => []ProofOrNone
<1>1. Init => Standing /\ Apart /\ ProofOrNone
  BY InitOK, InitApart, InitProofOrNone
<1>2. Standing /\ Apart /\ ProofOrNone /\ [Next]_vars
        => (Standing /\ Apart /\ ProofOrNone)'
  BY NextOK, NextProofOrNone
<1> QED BY <1>1, <1>2, PTL DEF Spec

(* The whole proof is accepted for exactly the signed identifiers strictly  *)
(* inside their gap.                                                        *)
THEOREM ExactGap == Spec => []AcceptsStrictlyInside
  BY ProofInvariance, ProofOrNoneExact, PTL

(* Each part measured alone checks what it is named for, at every width.    *)
THEOREM ExactParts == Spec => []PartsAsClaimed
  BY ProofInvariance, ProofOrNoneExact, PTL

(* The range statements themselves are exact while twice the range fits the *)
(* field.                                                                   *)
THEOREM SoundRange == Spec => []RangeStatementExact
  BY ProofInvariance, ProofOrNoneExact, PTL
=============================================================================
