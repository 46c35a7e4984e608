--------------------------- MODULE MCBenchRunner ----------------------------
(* Small instances of BenchRunner: two cases, bench_reps on both sides of a *)
(* multiple of batch_size; one case and seven repetitions, enough to tell   *)
(* the percentiles apart; no limit, one of 0 degrees and one of 45; zones   *)
(* that report degrees, thousandths of a degree, an implausible value or    *)
(* nothing.                                                                 *)
EXTENDS BenchRunner

Outcome(s, o, t) == [size |-> s, ok |-> o, us |-> t]
MCOutcomes == { Outcome(0, FALSE, 38), Outcome(1, TRUE, 12), Outcome(2, TRUE, 25) }

Config(w, n, b, t) ==
  [warmup_reps |-> w, bench_reps |-> n, batch_size |-> b, thermal_limit |-> t]

MCJobs ==
  [ cfg   : { Config(1, n, b, t) : n \in {0, 3}, b \in {0, 2}, t \in {NoLimit, 45000} },
    cases : { <<"update", "prove">> } ]
  \cup
  [ cfg   : { Config(1, 4, b, t) : b \in {0, 2}, t \in {NoLimit, 0, 45000} }
              \cup { Config(0, n, 3, NoLimit) : n \in {1, 7} },
    cases : { <<"update">> } ]

MCRaw == { 44, 46000, 400 }
=============================================================================
