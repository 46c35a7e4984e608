----------------------------- MODULE Catalogue ------------------------------
(***************************************************************************)
(* The cases each mechanism registers with the suite (the register         *)
(* functions of src/bench_*.rs), in order, and the order in which main()   *)
(* calls them.                                                             *)
(***************************************************************************)
EXTENDS Integers, Sequences, SequencesExt

DEL_BATCH      == << 1, 8, 64, 512, 4096 >>
BPP_BIT_WIDTHS == << 16, 32, 64, 128, 256 >>

None == 0    \* batch_k of a case that has none

Case(category, name, phase, k) ==
  [category |-> category, name |-> name, phase |-> phase, batch_k |-> k]

ForEach(ks, category, name, phase) ==
  [i \in DOMAIN ks |-> Case(category, name, phase, ks[i])]

kb21_adaptive ==
  ForEach(DEL_BATCH, "KB21-Adaptive", "adaptive_witness_update", "iv")
  \o << Case("KB21-Adaptive", "adaptive_prove_membership", "v", None),
        Case("KB21-Adaptive", "adaptive_verify_membership", "vi", None) >>

kb21_non_adaptive ==
  ForEach(DEL_BATCH, "KB21-NonAdaptive", "non_adaptive_witness_update", "iv")
  \o << Case("KB21-NonAdaptive", "non_adaptive_prove_membership", "v", None),
        Case("KB21-NonAdaptive", "non_adaptive_verify_membership", "vi", None) >>

(* A mistake: the adaptive proofs come after the other construction.        *)
kb21_split ==
  LET n == Len(DEL_BATCH)
  IN  SubSeq(kb21_adaptive, 1, n) \o kb21_non_adaptive
      \o SubSeq(kb21_adaptive, n + 1, n + 2)

kb21 == kb21_adaptive \o kb21_non_adaptive

clrsab ==
  ForEach(DEL_BATCH, "CL-RSA-B", "witness_update", "iv")
  \o << Case("CL-RSA-B", "prove_membership", "v", None),
        Case("CL-RSA-B", "verify_membership", "vi", None) >>

(* A proof and its verification, for a part of the BBS+/BPP construction.   *)
Part(prove, verify, k) ==
  << Case("BBS-BP", prove, "v", k), Case("BBS-BP", verify, "vi", k) >>

bitwidth_sweep ==
  FlattenSeq([i \in DOMAIN BPP_BIT_WIDTHS |->
    Part("bpp_aggregate_bitwidth_prove", "bpp_aggregate_bitwidth_verify",
         BPP_BIT_WIDTHS[i])])

bbsbpp ==
  ForEach(DEL_BATCH, "BBS-BP", "witness_update", "iv")
  \o Part("prove_membership", "verify_membership", None)
  \o Part("prove_bbs_only", "verify_bbs_only", None)
  \o Part("prove_bbs_pedcomm", "verify_bbs_pedcomm", None)
  \o Part("prove_bpp_single_unaggregated", "verify_bpp_single_unaggregated", None)
  \o Part("prove_bpp_aggregate", "verify_bpp_aggregate", None)
  \o bitwidth_sweep

(* Presentation and Verification of this mechanism are run by scripts.      *)
ecdsa == ForEach(DEL_BATCH, "ECDSA-LF", "witness_update", "iv")

Of(mech, cases) == [i \in DOMAIN cases |-> [mech |-> mech, case |-> cases[i]]]

(* Every case there is, with the --only name that runs it, in the order in  *)
(* which main() asks for the names.                                         *)
Catalogue ==
  Of("kb21", kb21) \o Of("clrsab", clrsab) \o Of("bbsbpp", bbsbpp) \o Of("ecdsa", ecdsa)
=============================================================================
