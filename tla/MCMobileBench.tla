--------------------------- MODULE MCMobileBench ----------------------------
(* The binary with its real catalogue of cases; --quick and full runs scaled *)
(* down to two or three repetitions; limits of 0, 40 and 45 degrees or none; *)
(* an unknown mechanism and filters that match labels of several mechanisms, *)
(* of two categories, or none.                                               *)
EXTENDS MobileBench

Args(q, c, j, t, r, o, s) ==
  [quick |-> q, csv |-> c, json |-> j, thermal |-> t, reps |-> r, only |-> o, case |-> s]

(* --case adaptive_prove, --case _k8, --case typo                            *)
MCFilters ==
  { { <<"adaptive_prove_membership", None>>, <<"non_adaptive_prove_membership", None>> },
    { <<n, 8>> : n \in {"adaptive_witness_update", "non_adaptive_witness_update",
                        "witness_update"} },
    {} }

Selections == { NoFlag, "kb21" } \X (MCFilters \cup {NoFlag})
              \cup {"other"} \X {NoFlag, {}}

MCArguments ==
  { Args(q, FALSE, FALSE, t, NoFlag, "clrsab", NoFlag) :
      q \in BOOLEAN, t \in {NoFlag, 0, 40000} }
  \cup { Args(TRUE, FALSE, FALSE, NoFlag, r, s[1], s[2]) : r \in {0, 1}, s \in Selections }
  \cup { Args(q, ~q, FALSE, NoFlag, 1, s[1], s[2]) : q \in BOOLEAN, s \in Selections }
  \cup { Args(TRUE, c, TRUE, NoFlag, 1, o, NoFlag) : c \in BOOLEAN, o \in {"ecdsa", "other"} }

Defaults(w, n, b) == [warmup_reps |-> w, bench_reps |-> n, batch_size |-> b]
MCQuick == Defaults(1, 3, 2)
MCFull  == Defaults(0, 2, 1)

MCCaseNames == DOMAIN Catalogue

MCOutcomes == { [size |-> 1, ok |-> TRUE, us |-> 25] }
MCRaw      == { 44, 46000 }
=============================================================================
