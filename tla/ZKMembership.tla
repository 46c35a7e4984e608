---------------------------- MODULE ZKMembership ----------------------------
(***************************************************************************)
(* The zero-knowledge membership proof of the CL-RSA-B accumulator         *)
(* (cl-rsa-b/src/zk_positive.rs): a holder proves that it knows an element *)
(* and its witness for some nonce (`extra`), a verifier checks the proof   *)
(* with the accumulator and the nonce it has itself.                       *)
(*                                                                         *)
(* Exponents and responses are integers, as in the code, and may be        *)
(* negative; commitments are residues (discrete logarithms, RSAGroup).     *)
(* The hash is a random oracle, drawn when it is first asked.  The holder  *)
(* follows prove_mem, but the element and the witness it feeds in may be   *)
(* anything an update left behind.                                         *)
(***************************************************************************)
EXTENDS RSAGroup

CONSTANTS
  H2P_SIZE, CHALLENGE_SIZE, NONCE_SIZE,
  Items,       \* what a holder may prove membership of
  Witnesses,   \* the u it may hold
  Values,      \* the accumulator values a verifier may hold
  Nonces,      \* the extra bytes
  Bases,       \* pairs <<g, exp>> gen_param may draw
  Coins        \* records of what random_range may return in prove_mem

(* &self.modulus >> 2                                                       *)
n_fourths == ((2*PP + 1) * (2*QQ + 1)) \div 4

AlphaRange == 2^(H2P_SIZE + CHALLENGE_SIZE + NONCE_SIZE)
AuxRange   == n_fourths * 2^(CHALLENGE_SIZE + NONCE_SIZE)
ProdRange  == n_fourths * AlphaRange

(* A challenge is drawn from CHALLENGE_SIZE bits.  Zero, for which every    *)
(* proof passes, is left out: the hash gives it once in 2^256.              *)
Challenges == 1 .. (2^CHALLENGE_SIZE - 1)

Draw(range) == -range .. (range - 1)

ASSUME ZKAssumption ==
  /\ Items \subseteq Nat /\ Witnesses \subseteq Group /\ Values \subseteq Group
  /\ Bases \subseteq Group \X Nat
  /\ 2^CHALLENGE_SIZE <= PP /\ 2^CHALLENGE_SIZE <= QQ   \* 2^256 against 2^1535
  /\ \A r \in Coins :
       /\ {r.r_1, r.r_2, r.r_3} \subseteq 0 .. (n_fourths - 1)
       /\ r.alpha \in Draw(AlphaRange)
       /\ {r.epsilon, r.eta, r.zeta} \subseteq Draw(AuxRange)
       /\ {r.beta, r.delta} \subseteq Draw(ProdRange)

(* What follows from the line on challenges: none of them has a factor in   *)
(* common with the order of the group.                                      *)
ASSUME ChallengesInvertible ==
  \A c \in Challenges : \E d \in Group : (c * d) % Ord = 1

(* Powers of two are positive, and multiply by adding exponents.            *)
ASSUME PowersOfTwo ==
  /\ {AlphaRange, AuxRange, ProdRange} \subseteq Nat \ {0}
  /\ 2^CHALLENGE_SIZE \in Nat \ {0} /\ 2^H2P_SIZE \in Nat \ {0}
  /\ 2^CHALLENGE_SIZE * 2^H2P_SIZE <= AlphaRange
  /\ 2^(H2P_SIZE + CHALLENGE_SIZE + NONCE_SIZE + 1) = 2 * AlphaRange

VARIABLES
  params,    \* CLRSABMemParams
  oracle,    \* the challenges drawn so far, by transcript
  stmt,      \* history variable: what the proof was made from
  proof,     \* CLRSABMemProof
  verdict    \* the last call of verify_mem_proof: its inputs and its answer

vars == <<params, oracle, stmt, proof, verdict>>

None == [none |-> TRUE]

verify_mem(acc, item, u) == modpow(u, item) = acc

-----------------------------------------------------------------------------
gen_param(base) == [g |-> base[1], h |-> modpow(base[1], base[2])]

(* The challenge a transcript may get, and the oracle that remembers it.    *)
hash_to_k_bits(tr) == IF tr \in DOMAIN oracle THEN {oracle[tr]} ELSE Challenges

Remember(tr, c) ==
  oracle' = [q \in DOMAIN oracle \cup {tr} |-> IF q = tr THEN c ELSE oracle[q]]

(* g^a * h^b                                                                *)
Commit(a, b) == modmul(modpow(params.g, a), modpow(params.h, b))

(* What prove_mem commits to before it asks for a challenge.                *)
Commitments(item, u, r) ==
  LET c_u == modmul(u, modpow(params.h, r.r_2))
      c_r == Commit(r.r_3, r.r_2)
  IN  [ c_e |-> Commit(item, r.r_1),
        c_u |-> c_u,
        c_r |-> c_r,
        t_1 |-> Commit(r.zeta, r.epsilon),
        t_2 |-> Commit(r.alpha, r.eta),
        t_3 |-> modmul(modpow(c_u, r.alpha), modpow(params.h, -r.beta)),
        t_4 |-> modmul(modpow(c_r, r.alpha), Commit(-r.delta, -r.beta)) ]

(* A mistake: s_beta forgets the element.                                   *)
ResponsesShort(item, r, c) ==
  [ s_alpha   |-> r.alpha   - c * item,
    s_eta     |-> r.eta     - c * r.r_1,
    s_beta    |-> r.beta    - c * r.r_2,
    s_epsilon |-> r.epsilon - c * r.r_2,
    s_zeta    |-> r.zeta    - c * r.r_3,
    s_delta   |-> r.delta   - c * r.r_3 * item ]

Responses(item, r, c) ==
  [ s_alpha   |-> r.alpha   - c * item,
    s_eta     |-> r.eta     - c * r.r_1,
    s_beta    |-> r.beta    - c * r.r_2 * item,
    s_epsilon |-> r.epsilon - c * r.r_2,
    s_zeta    |-> r.zeta    - c * r.r_3,
    s_delta   |-> r.delta   - c * r.r_3 * item ]

(* A mistake: the equation that names the accumulator is left out.          *)
EquationsNoValue(acc, k, s, c) ==
  /\ k.t_1 = modmul(modpow(k.c_r, c), Commit(s.s_zeta, s.s_epsilon))
  /\ k.t_2 = modmul(modpow(k.c_e, c), Commit(s.s_alpha, s.s_eta))
  /\ k.t_4 = modmul(modpow(k.c_r, s.s_alpha), Commit(-s.s_delta, -s.s_beta))

(* k: the commitments and ts, s: the responses, c: the challenge.           *)
Equations(acc, k, s, c) ==
  /\ k.t_1 = modmul(modpow(k.c_r, c), Commit(s.s_zeta, s.s_epsilon))
  /\ k.t_2 = modmul(modpow(k.c_e, c), Commit(s.s_alpha, s.s_eta))
  /\ k.t_3 = modmul(modmul(modpow(acc, c), modpow(k.c_u, s.s_alpha)),
                    modpow(params.h, -s.s_beta))
  /\ k.t_4 = modmul(modpow(k.c_r, s.s_alpha), Commit(-s.s_delta, -s.s_beta))

(* A mistake: no room for what the challenge takes off the randomness.      *)
BoundTight == 2^(H2P_SIZE + CHALLENGE_SIZE + NONCE_SIZE)

Bound == 2^(H2P_SIZE + CHALLENGE_SIZE + NONCE_SIZE + 1)

(* The last check negates a response that is not negative.                  *)
WithinBound(s_alpha) == (IF s_alpha < 0 THEN s_alpha ELSE -s_alpha) < Bound

(* A mistake: the nonce does not go into the hash.                          *)
TranscriptNoNonce(k, extra) == [params |-> params, nums |-> k]

Transcript(k, extra) == [params |-> params, nums |-> k, extra |-> extra]

-----------------------------------------------------------------------------
Init ==
  /\ params \in { gen_param(b) : b \in Bases }
  /\ oracle = << >>
  /\ stmt = None /\ proof = None /\ verdict = None

prove_mem(item, u, extra) ==
  /\ proof = None
  /\ \E r \in Coins :
       LET k  == Commitments(item, u, r)
           tr == Transcript(k, extra)
       IN  \E c \in hash_to_k_bits(tr) :
             /\ Remember(tr, c)
             /\ proof' = [k |-> k, s |-> Responses(item, r, c)]
             /\ stmt'  = [item |-> item, u |-> u, extra |-> extra, c |-> c]
  /\ UNCHANGED <<params, verdict>>

verify_mem_proof(acc, extra) ==
  /\ proof # None
  /\ LET tr == Transcript(proof.k, extra)
     IN  \E c \in hash_to_k_bits(tr) :
           /\ Remember(tr, c)
           /\ verdict' = [ acc |-> acc, extra |-> extra, c |-> c,
                           ok  |-> /\ Equations(acc, proof.k, proof.s, c)
                                   /\ WithinBound(proof.s.s_alpha) ]
  /\ UNCHANGED <<params, stmt, proof>>

Next ==
  \/ \E item \in Items, u \in Witnesses, extra \in Nonces : prove_mem(item, u, extra)
  \/ \E acc \in Values, extra \in Nonces : verify_mem_proof(acc, extra)

Spec == Init /\ [][Next]_vars

-----------------------------------------------------------------------------
(* Properties.                                                              *)
Verified   == verdict # None
SameNonce  == verdict.extra = stmt.extra
GoodWitness == verify_mem(verdict.acc, stmt.item, stmt.u)
Abs(i) == IF i < 0 THEN -i ELSE i

(* A proof made from a witness that verify_mem accepts is accepted, for     *)
(* every draw of the randomness and every challenge (phases v and vi).      *)
ProofComplete ==
  Verified /\ SameNonce /\ GoodWitness => verdict.ok

(* A proof made from any other witness - one that missed a removal, or one  *)
(* of a revoked element - is rejected, though prove_mem looks at neither    *)
(* the accumulator nor the witness it is given.                             *)
StaleWitnessRejected ==
  Verified /\ SameNonce /\ ~GoodWitness => ~verdict.ok

(* A proof counts for the nonce it was made with: for another one it is     *)
(* accepted only by chance, when the hash gives two different questions the *)
(* same answer, or when both commitments are neutral and the value is the   *)
(* one that makes up for the difference of the challenges.                  *)
BoundToNonce ==
  Verified /\ ~SameNonce /\ verdict.ok =>
    \/ verdict.c = stmt.c /\ \E q, r \in DOMAIN oracle : q # r /\ oracle[q] = oracle[r]
    \/ /\ proof.k.c_e = 0 /\ proof.k.c_r = 0
       /\ modpow(verdict.acc, verdict.c) = modpow(modpow(stmt.u, stmt.item), stmt.c)

(* The response of a prover whose element has at most H2P_SIZE bits stays   *)
(* within the bound the verifier means to check, so the check can be as     *)
(* strict as it reads and no honest proof is lost.                          *)
HonestWithinBound ==
  proof # None /\ stmt.item < 2^H2P_SIZE => Abs(proof.s.s_alpha) < Bound

(* zk_positive.rs:313-323: the last check is on the absolute value of       *)
(* s_alpha ("find a better way to get the absolute value"), so an accepted  *)
(* proof has a response within the bound.                                   *)
AcceptedWithinBound ==
  Verified /\ verdict.ok => Abs(proof.s.s_alpha) < Bound
=============================================================================
