-------------------------------- MODULE KB21 --------------------------------
(***************************************************************************)
(* The KB21 accumulators as src/bench_kb21.rs and benches/server.rs use    *)
(* them: issuer and holders calling the crate vb_accumulator, which is not *)
(* in the repository and modelled here by the algebra the module comment   *)
(* of bench_kb21.rs names.  A group element is its discrete logarithm, so  *)
(* scalars and group elements alike are residues modulo the group's order  *)
(* and the accumulator with members Y is a fixed value divided by y + Alpha*)
(* for each y ever revoked.  Additions leave it alone.                     *)
(*                                                                         *)
(* The benchmark measures one call of each kind; here the calls come in    *)
(* any order, and a holder may apply a published update out of turn.       *)
(***************************************************************************)
EXTENDS Integers, Sequences, SequencesExt, FiniteSetsExt

CONSTANTS
  R,             \* the order of the group, a prime
  Alpha,         \* the secret key
  Elements,      \* the members there can be, scalars
  Prf,           \* Prf[e]: what the adaptive construction accumulates for e
  InitialValue,
  MaxRemovals, MaxSlips     \* bounds: revocations, updates out of turn

Scalar == 0 .. (R - 1)
Unit   == 1 .. (R - 1)

ASSUME KB21Assumption ==
  /\ R \in Nat /\ R > 2
  /\ Alpha \in Unit /\ InitialValue \in Unit
  /\ Elements \subseteq Scalar /\ IsFiniteSet(Elements)
  /\ Prf \in [Elements -> Scalar]
  /\ \A e \in Elements : (e + Alpha) % R # 0 /\ (Prf[e] + Alpha) % R # 0
  /\ MaxRemovals \in Nat /\ MaxSlips \in Nat

(* R is a prime: what is not zero has an inverse.                           *)
ASSUME UnitsInvertible == \A a \in Unit : \E b \in Unit : (a * b) % R = 1

(* Two members whose signatures are the same scalar, one chance in R, would *)
(* be revoked together.                                                     *)
ASSUME NoCollision == \A e, f \in Elements : Prf[e] = Prf[f] => e = f

VARIABLES
  kind,        \* "adaptive" or "non_adaptive"
  state,       \* SimpleState: the accumulated members
  values,      \* values[e]: acc.value() in epoch e
  published,   \* the (omega, revoked) of each revocation
  witness,     \* the witness each holder has, NoWitness for none
  at,          \* history variable: the epoch whose updates, all of them and
               \* in order, a holder has applied; 0 if it went astray
  slips        \* how many updates were applied out of turn

vars == <<kind, state, values, published, witness, at, slips>>

NoWitness == 0
Epoch     == Len(values)
value     == values[Epoch]

inv == [a \in Unit |-> CHOOSE b \in Unit : (a * b) % R = 1]

(* accumulator_member: the adaptive construction accumulates a signature of *)
(* the member under the secret key, the other one the member itself.        *)
accumulator_member(e) == IF kind = "adaptive" THEN Prf[e] ELSE e

membership_witness(e, v) == (v * inv[(accumulator_member(e) + Alpha) % R]) % R

(* A proof of membership made with witness w, checked against value v: the  *)
(* pairing equation e(w, pk + y G2) = e(v, G2).  Making or checking a proof *)
(* changes no state.                                                        *)
verify(e, w, v) ==
  w # NoWitness /\ (w * (accumulator_member(e) + Alpha)) % R = v

-----------------------------------------------------------------------------
(* Polynomials over the scalars, as their coefficients from the constant on.*)
MulLinear(p, y) ==      \* p(x) * (y - x)
  [i \in 1 .. (Len(p) + 1) |->
     ((IF i <= Len(p) THEN y * p[i] ELSE 0) - (IF i > 1 THEN p[i - 1] ELSE 0)) % R]

AddScaled(p, c, q) ==   \* p + c q, for q one longer than p
  [i \in DOMAIN q |-> ((IF i <= Len(p) THEN p[i] ELSE 0) + c * q[i]) % R]

Evaluate(p, x) ==      \* Horner's rule, from the highest coefficient down
  LET h[n \in 0 .. Len(p)] ==
        IF n = 0 THEN 0 ELSE (p[Len(p) + 1 - n] + x * h[n - 1]) % R
  IN  h[Len(p)]

ProductOf(f) ==
  LET prod[n \in 0 .. Len(f)] == IF n = 0 THEN 1 ELSE (prod[n - 1] * f[n]) % R
  IN  prod[Len(f)]

(* A mistake: the denominators are not accumulated.                         *)
OmegaStepAlone(t, y) ==
  LET den == inv[(y + Alpha) % R]
  IN  [den |-> den, prod |-> MulLinear(t.prod, y), sum |-> AddScaled(t.sum, den, t.prod)]

(* One revoked member's share of                                            *)
(*   sum over s of prod(i <= s) 1 / (y_i + Alpha) * prod(j < s) (y_j - x).  *)
OmegaStep(t, y) ==
  LET den == (t.den * inv[(y + Alpha) % R]) % R
  IN  [den |-> den, prod |-> MulLinear(t.prod, y), sum |-> AddScaled(t.sum, den, t.prod)]

(* The published message: one group element for each revoked member.        *)
Omega(ys, old) ==
  LET t[n \in 0 .. Len(ys)] == IF n = 0 THEN [den |-> 1, prod |-> << 1 >>, sum |-> << >>]
                                          ELSE OmegaStep(t[n - 1], ys[n])
      sum == t[Len(ys)].sum
  IN  [i \in DOMAIN sum |-> (sum[i] * old) % R]

(* The value v once ys are revoked.                                         *)
divided(ys, v) == (v * ProductOf([i \in DOMAIN ys |-> inv[(ys[i] + Alpha) % R]])) % R

(* prod (y_i - x): zero iff x is among the revoked.                         *)
Discriminant(ys, x) == ProductOf([i \in DOMAIN ys |-> ys[i] - x])

Init ==
  /\ kind \in {"adaptive", "non_adaptive"}
  /\ state = {} /\ values = << InitialValue >> /\ published = << >>
  /\ witness = [e \in Elements |-> NoWitness] /\ at = [e \in Elements |-> 0]
  /\ slips = 0

Hand(e) ==
  /\ witness' = [witness EXCEPT ![e] = membership_witness(e, value)]
  /\ at' = [at EXCEPT ![e] = Epoch]

(* Neither construction changes its value when members are added.           *)
add(e) ==
  /\ e \notin state
  /\ state' = state \cup {e}
  /\ Hand(e)
  /\ UNCHANGED <<kind, values, published, slips>>

add_batch(new) ==
  /\ new # {} /\ new \cap state = {}
  /\ state' = state \cup new
  /\ UNCHANGED <<kind, values, published, witness, at, slips>>

(* A mistake: the state is not asked.                                       *)
get_witnessAnyone(e) ==
  /\ Hand(e)
  /\ UNCHANGED <<kind, state, values, published, slips>>

get_witness(e) ==
  /\ e \in state
  /\ Hand(e)
  /\ UNCHANGED <<kind, state, values, published, slips>>

(* Mistakes: the value stays; the members are published as they are.        *)
revoke_batchKeepsValue(out) ==
  LET revoked == SetToSeq(out)
      ys      == [i \in DOMAIN revoked |-> accumulator_member(revoked[i])]
  IN  /\ out # {} /\ out \subseteq state /\ Len(published) < MaxRemovals
      /\ state' = state \ out
      /\ published' = Append(published, [revoked |-> revoked, ys |-> ys,
                                         omega |-> Omega(ys, value)])
      /\ values' = Append(values, value)
      /\ UNCHANGED <<kind, witness, at, slips>>

revoke_batchUnmapped(out) ==
  LET ys == SetToSeq(out)
  IN  /\ out # {} /\ out \subseteq state /\ Len(published) < MaxRemovals
      /\ state' = state \ out
      /\ published' = Append(published, [revoked |-> ys, ys |-> ys,
                                         omega |-> Omega(ys, value)])
      /\ values' = Append(values, divided(ys, value))
      /\ UNCHANGED <<kind, witness, at, slips>>

(* Omega is made from the value before the revocation and published with    *)
(* the accumulated form of the revoked members.                             *)
revoke_batch(out) ==
  LET revoked == SetToSeq(out)
      ys      == [i \in DOMAIN revoked |-> accumulator_member(revoked[i])]
  IN  /\ out # {} /\ out \subseteq state /\ Len(published) < MaxRemovals
      /\ state' = state \ out
      /\ published' = Append(published, [revoked |-> revoked, ys |-> ys,
                                         omega |-> Omega(ys, value)])
      /\ values' = Append(values, divided(ys, value))
      /\ UNCHANGED <<kind, witness, at, slips>>

(* What update_using_public_info_after_batch_updates returns in Ok.         *)
Updated(e, pub) ==
  LET y == accumulator_member(e)
  IN  ((witness[e] - Evaluate(pub.omega, y)) * inv[Discriminant(pub.ys, y)]) % R

(* Err, and the witness as it was, for a holder that is among the revoked.  *)
Fails(e, pub) == Discriminant(pub.ys, accumulator_member(e)) = 0

HolderUpdate(e, i) ==
  /\ witness[e] # NoWitness
  /\ ~Fails(e, published[i])
  /\ witness' = [witness EXCEPT ![e] = Updated(e, published[i])]
  /\ IF at[e] = i
     THEN at' = [at EXCEPT ![e] = i + 1] /\ UNCHANGED slips
     ELSE /\ slips < MaxSlips
          /\ at' = [at EXCEPT ![e] = 0] /\ slips' = slips + 1
  /\ UNCHANGED <<kind, state, values, published>>

Next ==
  \/ \E e \in Elements : add(e) \/ get_witness(e)
  \/ \E s \in SUBSET Elements : add_batch(s) \/ revoke_batch(s)
  \/ \E e \in Elements, i \in DOMAIN published : HolderUpdate(e, i)

Spec == Init /\ [][Next]_vars

-----------------------------------------------------------------------------
(* Properties.                                                              *)

(* A holder that applied every update once, in order, has a witness that    *)
(* verifies against the new accumulator: what the benchmark takes for       *)
(* granted when it counts Ok as verified (bench_kb21.rs:139, :256).         *)
UpdatedVerifies ==
  \A e \in Elements : at[e] = Epoch => verify(e, witness[e], value)

(* A holder is refused an update exactly when it is among the revoked: the  *)
(* members published with it are in the form the construction accumulates.  *)
OnlyRevokedRefused ==
  \A e \in Elements, i \in DOMAIN published :
    Fails(e, published[i]) <=> e \in Range(published[i].revoked)

(* A proof is accepted only against the value of the epoch whose updates    *)
(* the prover has applied, each once and in order: one made with a witness  *)
(* that missed, repeated or anticipated an update is good for no epoch, one *)
(* made before a revocation not good after it.                              *)
ProofsExact ==
  \A e \in Elements, i \in DOMAIN values : verify(e, witness[e], values[i]) => at[e] = i

(* The epoch a holder's witness is good for.                                *)
GoodFor(e) ==
  LET good == { i \in DOMAIN values : verify(e, witness[e], values[i]) }
  IN  IF good = {} THEN 0 ELSE Max(good)

Abstract == INSTANCE Lifecycle WITH
  Holders <- Elements,
  members <- state,
  revoked <- [i \in DOMAIN published |-> Range(published[i].revoked)],
  cred    <- [e \in Elements |-> GoodFor(e)]

(* Both constructions keep the promises of Lifecycle, as CL-RSA-B does: the *)
(* benchmark compares mechanisms that do the same thing.                    *)
ImplementsLifecycle == Abstract!Spec
=============================================================================
