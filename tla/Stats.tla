-------------------------------- MODULE Stats -------------------------------
(***************************************************************************)
(* SampleStats::from_durations (src/types.rs): the statistics of a case.   *)
(* A duration is in microseconds, a statistic in hundredths of a           *)
(* millisecond, the unit r2 rounds to.  Exact arithmetic stands for f64;   *)
(* the standard deviation is left out.                                     *)
(***************************************************************************)
EXTENDS Integers, Sequences, SequencesExt

(* Where the i-th element goes when s is sorted: past the smaller ones and, *)
(* the sort being stable, past its equals that come before it.              *)
rank(s, i) == Cardinality({ j \in DOMAIN s : s[j] < s[i] \/ (s[j] = s[i] /\ j <= i) })

(* The samples of a result (runner.rs:176-180) and the durations that       *)
(* from_durations works on are both sorted.                                 *)
ascending[s \in Seq(Nat)] ==
  [k \in DOMAIN s |-> s[CHOOSE i \in DOMAIN s : rank(s, i) = k]]

(* To the nearest hundredth, halves up.                                     *)
r2(us) == (us + 5) \div 10

(* A mistake: the rank is scaled by the number of samples, not by the last  *)
(* index.                                                                   *)
percentileOfLength(sorted, p) ==
  sorted[Min({ (2 * p * Len(sorted) + 100) \div 200, Len(sorted) - 1 }) + 1]

(* The sample at index round(p / 100 * (n - 1)), counting from zero.        *)
percentile(sorted, p) ==
  LET last == Len(sorted) - 1
  IN  sorted[Min({ (2 * p * last + 100) \div 200, last }) + 1]

Percentiles == {25, 50, 75, 90, 95, 99}

total(s) ==
  LET t[n \in 0 .. Len(s)] == IF n = 0 THEN 0 ELSE t[n - 1] + s[n]
  IN  t[Len(s)]

(* The mean, rounded: floor(sum / (10 n) + 1/2).                            *)
mean(s) == (2 * total(s) + 10 * Len(s)) \div (20 * Len(s))

statistics[ms \in Seq(Nat)] ==
  [ mean |-> mean(ms),
    min  |-> r2(ms[1]),
    max  |-> r2(Last(ms)),
    pct  |-> [p \in Percentiles |-> r2(percentile(ms, p))] ]

from_durations(us) == statistics[ascending[us]]

-----------------------------------------------------------------------------
(* What a p-th percentile is, whatever the index arithmetic: up to half a   *)
(* rank, p percent of the other samples are no larger and the rest no       *)
(* smaller.                                                                 *)
IsPercentile(v, p, s) ==
  LET last    == Len(s) - 1
      below   == Cardinality({ i \in DOMAIN s : s[i] < v })
      upto    == Cardinality({ i \in DOMAIN s : s[i] <= v })
  IN  /\ v \in Range(s)
      /\ 200 * below <= 2 * p * last + 100
      /\ 200 * (upto - 1) >= 2 * p * last - 100

(* The samples are the durations, each rounded, in ascending order; the     *)
(* extremes are their first and last, every percentile is one of them and   *)
(* the mean lies between the extremes.                                      *)
Describes(stats, samples, us) ==
  /\ \A v \in Range(samples) \cup { r2(us[i]) : i \in DOMAIN us } :
       Cardinality({ i \in DOMAIN samples : samples[i] = v })
         = Cardinality({ i \in DOMAIN us : r2(us[i]) = v })
  /\ \A i, j \in DOMAIN samples : i <= j => samples[i] <= samples[j]
  /\ stats.min = samples[1] /\ stats.max = samples[Len(samples)]
  /\ stats.min <= stats.mean /\ stats.mean <= stats.max
  /\ \A p \in Percentiles : IsPercentile(stats.pct[p], p, samples)
  /\ \A p, q \in Percentiles : p < q => stats.pct[p] <= stats.pct[q]
=============================================================================
