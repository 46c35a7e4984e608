------------------------------ MODULE GapProof ------------------------------
(***************************************************************************)
(* The proofs of the BBS+ signed pairs (src/bench_bbs_bpp.rs): the whole   *)
(* non-revocation proof and the parts of it that are measured alone.       *)
(* Pedersen commitments C_L, C_H and C_U to lower end, holder's identifier *)
(* and upper end; a composite proof that they commit to what is signed;    *)
(* one aggregate range proof on D1 = C_H - C_L - G and D2 = C_U - C_H - G. *)
(*                                                                         *)
(* A commitment is the pair <<value, randomness>> it opens to, a signature *)
(* the messages it is on.  The benchmark signs and commits to the same     *)
(* triple of constants; here both are any, to ask what is accepted.        *)
(***************************************************************************)
EXTENDS Integers

CONSTANTS
  F,        \* the order of the scalar field
  U64,      \* 2^64, the width the differences are computed in
  RANGE,    \* 2^32
  Widths,   \* 2^bits for the bits of BPP_BIT_WIDTHS
  Ids,      \* the identifiers
  Rands,    \* triples <<r_l, r_h, r_u>> of commitment randomness
  EXPIRY_TS

ASSUME GapAssumption ==
  /\ F \in Nat /\ U64 \in Nat \ {0} /\ U64 < F
  /\ RANGE \in Nat \ {0} /\ Widths \subseteq Nat \ {0}
  /\ Ids \subseteq 0 .. (U64 - 1)
  /\ \A r \in Widths \cup {RANGE} : Ids \subseteq 0 .. (r - 1)
  /\ Rands \subseteq Int \X Int \X Int

VARIABLES
  kind,       \* the pair of cases (prove_, verify_) that is run
  signed,     \* [l, h, u]: the identifiers in the credential
  ids,        \* [l, h, u]: the identifiers the commitments are made to
  range,      \* what the range proof proves the differences to be below
  coms,       \* the commitments and their randomness, << >> before
  composite,  \* the composite proof: what it was made from, << >> before
  bpp,        \* the range proof: what it was made from, << >> before
  verdict     \* "none", "accepted" or "rejected"

statement == <<kind, signed, ids, range>>
proofVars == <<statement, coms, composite, bpp, verdict>>

WithComposite == {"membership", "bbs_pedcomm"}
RangeOnly     == {"bpp_single", "bpp_aggregate", "bitwidth"}
WithRange     == RangeOnly \cup {"membership"}
Kinds         == WithComposite \cup RangeOnly \cup {"bbs_only"}
Names         == {"l", "h", "u"}

commitment(v, r) == <<v % F, r % F>>
minus(a, b)      == <<(a[1] - b[1]) % F, (a[2] - b[2]) % F>>
G                == <<1, 0>>

Commitments(i, r) ==
  [ l |-> commitment(i.l, r[1]),
    h |-> commitment(i.h, r[2]),
    u |-> commitment(i.u, r[3]),
    r |-> r ]

(* A mistake: without - G the ends of the gap themselves get through.       *)
DifferenceClosed(c) == minus(c.h, c.l)

Difference1(c) == minus(minus(c.h, c.l), G)
Difference2(c) == minus(minus(c.u, c.h), G)

rev_msgs(s) == << s.l, s.u, EXPIRY_TS, s.h >>

(* Which message of the credential each commitment must agree with; the     *)
(* expiry, the third, is revealed.  The prover's table, ...                 *)
ProverEqualities == [l |-> 1, u |-> 2, h |-> 4]

(* A mistake: the handle and the upper end change places in one copy.       *)
EqualitiesSwapped == [l |-> 1, u |-> 4, h |-> 2]

(* ... and the verifier's, written out a second time.                       *)
VerifierEqualities == [l |-> 1, u |-> 2, h |-> 4]

(* What BppProver is given besides d1 and d2.                               *)
Openings(i, r) ==
  [ diff1 |-> (i.h - i.l - 1) % U64, dr1 |-> r[2] - r[1],
    diff2 |-> (i.u - i.h - 1) % U64, dr2 |-> r[3] - r[2] ]

-----------------------------------------------------------------------------
ProofInit ==
  /\ kind \in Kinds
  /\ signed \in [l: Ids, h: Ids, u: Ids]
  /\ ids \in [l: Ids, h: Ids, u: Ids]
  /\ kind \notin WithComposite => ids = signed
  /\ IF kind = "bitwidth" THEN range \in Widths ELSE range = RANGE
  /\ coms = << >> /\ composite = << >> /\ bpp = << >> /\ verdict = "none"

build_composite_proof ==
  /\ kind \in WithComposite /\ coms = << >>
  /\ \E r \in Rands : coms' = Commitments(ids, r)
  /\ composite' = [msgs |-> rev_msgs(signed), witness |-> ids,
                   blinded |-> ProverEqualities]
  /\ UNCHANGED <<statement, bpp, verdict>>

build_bbs_only_proof ==
  /\ kind = "bbs_only" /\ composite = << >>
  /\ composite' = [msgs |-> rev_msgs(signed)]
  /\ UNCHANGED <<statement, coms, bpp, verdict>>

(* The setup of the cases that measure the range proof alone.               *)
build_bpp_setup ==
  /\ kind \in RangeOnly /\ coms = << >>
  /\ \E r \in Rands : coms' = Commitments(ids, r)
  /\ UNCHANGED <<statement, composite, bpp, verdict>>

build_bpp_proof ==
  /\ kind \in WithRange /\ coms # << >> /\ bpp = << >>
  /\ bpp' = Openings(ids, coms.r)
  /\ UNCHANGED <<statement, coms, composite, verdict>>

(* The library's verifier accepts d when the proof was made from an opening *)
(* of it that lies in the range.                                            *)
InRange(d, diff, dr) == d = commitment(diff, dr) /\ diff < range

SignatureHolds == composite.msgs = rev_msgs(signed)

(* Each commitment opens to the witness, and the response for it is the one *)
(* for the message the verifier ties it to: the two are equal, and blinded  *)
(* alike because the prover tied them too.                                  *)
EqualitiesHold ==
  \A x \in Names :
    /\ coms[x][1] = composite.witness[x] % F
    /\ composite.blinded[x] = VerifierEqualities[x]
    /\ composite.msgs[VerifierEqualities[x]] = composite.witness[x]

(* A mistake: only the lower half of the aggregate is looked at.            *)
AcceptsLowerOnly ==
  /\ kind \notin RangeOnly => SignatureHolds
  /\ kind \in WithComposite => EqualitiesHold
  /\ kind \in WithRange => InRange(Difference1(coms), bpp.diff1, bpp.dr1)

Accepts ==
  /\ kind \notin RangeOnly => SignatureHolds
  /\ kind \in WithComposite => EqualitiesHold
  /\ kind \in WithRange => InRange(Difference1(coms), bpp.diff1, bpp.dr1)
  /\ kind \in WithRange \ {"bpp_single"} =>
       InRange(Difference2(coms), bpp.diff2, bpp.dr2)

Verify ==
  /\ verdict = "none"
  /\ kind \notin RangeOnly => composite # << >>
  /\ kind \in WithRange => bpp # << >>
  /\ verdict' = IF Accepts THEN "accepted" ELSE "rejected"
  /\ UNCHANGED <<statement, coms, composite, bpp>>

ProofNext ==
  \/ build_composite_proof \/ build_bbs_only_proof
  \/ build_bpp_setup \/ build_bpp_proof
  \/ Verify

ProofSpec == ProofInit /\ [][ProofNext]_proofVars

-----------------------------------------------------------------------------
(* Properties.                                                              *)
StrictlyInside(i) == i.l < i.h /\ i.h < i.u

(* The whole proof is accepted exactly when the commitments are to the      *)
(* signed identifiers and lower_id < rev_handle < upper_id, strictly, at    *)
(* both ends (bench_bbs_bpp.rs:11-13): two differences taken in u64, opened *)
(* in a field and checked against a range let no identifier at an end of    *)
(* the gap, or outside it, pass, and turn no holder inside away.            *)
AcceptsStrictlyInside ==
  verdict # "none" /\ kind = "membership" =>
    (verdict = "accepted" <=> ids = signed /\ StrictlyInside(signed))

(* The cases measured alone check the part they are named for, no more and  *)
(* no less (the decomposition, bench_bbs_bpp.rs:540-676), whatever the      *)
(* width of the sweep, the ones at and above the word size included.        *)
PartsAsClaimed ==
  verdict # "none" =>
    /\ kind = "bbs_only"    => verdict = "accepted"
    /\ kind = "bbs_pedcomm" => (verdict = "accepted" <=> ids = signed)
    /\ kind = "bpp_single"  => (verdict = "accepted" <=> ids.l < ids.h)
    /\ kind \in {"bpp_aggregate", "bitwidth"} =>
         (verdict = "accepted" <=> StrictlyInside(ids))

Provable(d) == \E v \in 0 .. (range - 1) : v % F = d[1]

(* The two range statements say the same as lower_id < rev_handle <         *)
(* upper_id whatever opening the prover would use, as long as twice the     *)
(* range fits the field: true of 32 bits and of every width of the sweep    *)
(* but 256, which the field of BLS12-381 has no room for.                   *)
RangeStatementExact ==
  coms # << >> /\ 2 * range <= F =>
    (Provable(Difference1(coms)) /\ Provable(Difference2(coms))
       <=> StrictlyInside(ids))
=============================================================================
