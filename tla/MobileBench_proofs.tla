------------------------- MODULE MobileBench_proofs -------------------------
(***************************************************************************)
(* Proofs about BenchRunner, for any configuration, any cases and whatever *)
(* the repetitions return and the sensors read; and about main()           *)
(* (MobileBench), which runs it, for any command line.                     *)
(***************************************************************************)
EXTENDS MobileBench, FiniteSetTheorems, WellFoundedInduction, TLAPS

(* The configurations the assumptions admit.                                *)
CfgOK ==
  /\ cfg \in [warmup_reps: Nat, bench_reps: Nat, batch_size: Nat, thermal_limit: Limits]
  /\ cases \in Seq(CaseNames)
  /\ cfg.bench_reps + cfg.batch_size + 1 <= U32

Locals == [ warmed: Nat, batch: Nat, rep: Nat, measured: Seq(Outcomes),
            all_ok: BOOLEAN, naps: Nat, rested: Nat ]

(* The largest proof is among the samples; no induction over the samples is *)
(* needed for this, since it holds after every repetition.                  *)
Largest(m) ==
  m # << >> => \E j \in 1 .. Len(m) : \A k \in 1 .. Len(m) : m[k].size <= m[j].size

(* What the locals say of the repetitions measured so far.                  *)
Counted(c) ==
  /\ c.rep = Len(c.measured) /\ c.rep <= cfg.bench_reps
  /\ c.all_ok <=> \A j \in 1 .. Len(c.measured) : c.measured[j].ok
  /\ Largest(c.measured)
  /\ c.naps = IF c.rep < cfg.bench_reps \/ c.rep = 0 THEN c.rep ELSE c.rep - 1

(* How many repetitions and pauses there are, by the place run() is at.     *)
Placed ==
  /\ pc = "warmup" => cur.batch = 0 /\ cur.rep = 0 /\ cur.rested = 0
  /\ pc = "gate" =>
       /\ cur.batch < num_batches => cur.rep = cur.batch * batch_size
       /\ cur.batch = num_batches => cur.rep = cfg.bench_reps
       /\ cfg.thermal_limit = NoLimit =>
            cur.rested = IF cur.batch = 0 THEN 0 ELSE cur.batch - 1
  /\ pc = "reps" =>
       /\ cur.batch < num_batches
       /\ cur.rep <= batch_end
       /\ cfg.thermal_limit = NoLimit => cur.rested = cur.batch
  /\ pc \in {"gate", "reps"} => idx <= Len(cases)

(* The statistics and the samples of r are those of the repetitions l timed.*)
DescribedBy(r, l) ==
  Describes(r.stats, r.samples, [j \in DOMAIN l.measured |-> l.measured[j].us])

(* A finished case: what its result says and its locals were.               *)
Finished(i) ==
  LET m == log[i].measured
      r == results[i]
  IN  /\ r.name = cases[i]
      /\ Len(m) = cfg.bench_reps /\ m \in Seq(Outcomes)
      /\ r.all_verified <=> \A j \in 1 .. Len(m) : m[j].ok
      /\ \A j \in 1 .. Len(m) : m[j].size <= r.proof_bytes
      /\ \E j \in 1 .. Len(m) : m[j].size = r.proof_bytes
      /\ log[i].naps = cfg.bench_reps - 1
      /\ DescribedBy(r, log[i])
      /\ cfg.thermal_limit = NoLimit => log[i].rested = num_batches - 1

IsSeq(s) == \E S : s \in Seq(S)

Done ==
  /\ idx \in 1 .. (Len(cases) + 1)
  /\ IsSeq(results) /\ IsSeq(log)
  /\ Len(results) = idx - 1 /\ Len(log) = idx - 1
  /\ \A i \in 1 .. (idx - 1) : Finished(i)

TypesInv ==
  /\ CfgOK
  /\ pc \in {"warmup", "gate", "reps", "finished", "panicked"}
  /\ cur \in Locals
  /\ cur.warmed <= cfg.warmup_reps
  /\ cur.batch <= num_batches
  /\ zones \in [Zones -> RawReadings \cup {Unreadable}]

IInv == TypesInv /\ Counted(cur) /\ Placed /\ Done

-----------------------------------------------------------------------------
(* The smaller of two numbers.                                              *)
LEMMA MinOfTwo ==
  ASSUME NEW a \in Int, NEW c \in Int
  PROVE  Min({a, c}) = IF a <= c THEN a ELSE c
  BY DEF Min

(* The larger of two numbers.                                               *)
LEMMA MaxOfTwo ==
  ASSUME NEW a \in Int, NEW c \in Int
  PROVE  Max({a, c}) = IF a <= c THEN c ELSE a
  BY DEF Max

(* A set of numbers that has a largest element: Max is it.                  *)
LEMMA MaxIsLargest ==
  ASSUME NEW S \in SUBSET Int, NEW x \in S, \A y \in S : y <= x
  PROVE  Max(S) \in S /\ \A y \in S : y <= Max(S)
<1>1. \E z \in S : \A y \in S : z >= y
  OBVIOUS
<1> QED BY <1>1 DEF Max

(* A ceiling of a quotient, by what it is for.                              *)
LEMMA CeilingDivision ==
  ASSUME NEW n \in Nat, NEW b \in Nat \ {0}, NEW k \in Nat
  PROVE  /\ (n + b - 1) \div b \in Nat
         /\ k < (n + b - 1) \div b => k * b < n
         /\ k >= (n + b - 1) \div b => k * b >= n
  BY SMTT(20)

(* runner.rs:135-136: the batches before the last are full, there is work   *)
(* for every one of them, and all of them together are enough.              *)
LEMMA Batches ==
  ASSUME CfgOK
  PROVE  /\ batch_size \in Nat \ {0} /\ batch_size <= cfg.batch_size + 1
         /\ num_batches \in Nat
         /\ \A k \in Nat : k < num_batches => k * batch_size < cfg.bench_reps
         /\ \A k \in Nat : k >= num_batches => k * batch_size >= cfg.bench_reps
<1>1. batch_size = IF cfg.batch_size <= 1 THEN 1 ELSE cfg.batch_size
  BY MaxOfTwo DEF batch_size, CfgOK
<1>2. batch_size \in Nat \ {0} /\ batch_size <= cfg.batch_size + 1
  BY <1>1 DEF CfgOK
<1>3. cfg.bench_reps \in Nat
  BY DEF CfgOK
<1> DEFINE b == batch_size
           n == cfg.bench_reps
<1>4. num_batches = (n + b - 1) \div b
  BY DEF num_batches
<1>5. b \in Nat \ {0} /\ n \in Nat
  BY <1>2, <1>3
<1> HIDE DEF b, n
<1>6. /\ num_batches \in Nat
      /\ \A k \in Nat : k < num_batches => k * b < n
      /\ \A k \in Nat : k >= num_batches => k * b >= n
  BY <1>4, <1>5, CeilingDivision
<1> QED BY <1>2, <1>6 DEF b, n

(* runner.rs:158: nothing wraps, and a batch ends where it is full or the   *)
(* work is done.                                                            *)
LEMMA BatchEnd ==
  ASSUME CfgOK, cur.batch \in Nat, cur.batch < num_batches
  PROVE  batch_end = IF cur.batch + 1 < num_batches
                     THEN (cur.batch + 1) * batch_size ELSE cfg.bench_reps
<1> DEFINE full   == (cur.batch + 1) * batch_size
           before == cur.batch * batch_size
<1>1. /\ batch_size \in Nat \ {0} /\ batch_size <= cfg.batch_size + 1
      /\ num_batches \in Nat
      /\ before < cfg.bench_reps
      /\ cur.batch + 1 < num_batches => full < cfg.bench_reps
      /\ cur.batch + 1 >= num_batches => full >= cfg.bench_reps
  BY Batches
<1>2. full = before + batch_size /\ before \in Nat
  BY <1>1
<1>3. /\ cfg.bench_reps \in Nat /\ cfg.batch_size \in Nat /\ U32 \in Nat \ {0}
      /\ cfg.bench_reps + cfg.batch_size + 1 <= U32
  BY RunnerAssumption DEF CfgOK
<1> HIDE DEF full, before
<1>4. full \in Nat /\ full < U32
  BY <1>1, <1>2, <1>3
<1>5. full % U32 = full
  BY <1>3, <1>4, SMTT(20)
<1>6. batch_end = IF full <= cfg.bench_reps THEN full ELSE cfg.bench_reps
  BY <1>3, <1>4, <1>5, MinOfTwo DEF batch_end, full
<1>7. batch_end = IF cur.batch + 1 < num_batches THEN full ELSE cfg.bench_reps
  BY <1>1, <1>3, <1>4, <1>6
<1> QED BY <1>7 DEF full

-----------------------------------------------------------------------------
(* Sorting (types.rs:49, runner.rs:180).                                    *)
Indices(s) == 1 .. Len(s)

(* The elements that go before or at the place of the i-th.                 *)
UpToIt(s, i) == { j \in Indices(s) : s[j] < s[i] \/ (s[j] = s[i] /\ j <= i) }

(* A sequence of numbers and the indices it has.                            *)
LEMMA SeqNat ==
  ASSUME NEW s \in Seq(Nat)
  PROVE  /\ Len(s) \in Nat /\ DOMAIN s = Indices(s) /\ Indices(s) \subseteq Nat
         /\ \A i \in Indices(s) : s[i] \in Nat
         /\ IsFiniteSet(Indices(s)) /\ Cardinality(Indices(s)) = Len(s)
<1>1. Len(s) \in Nat /\ DOMAIN s = Indices(s) /\ \A i \in Indices(s) : s[i] \in Nat
  BY DEF Indices
<1>2. IsFiniteSet(1 .. Len(s)) /\ Cardinality(1 .. Len(s)) = Len(s)
  <2>1. 1 \in Int /\ Len(s) \in Int
    BY <1>1
  <2>2. IsFiniteSet(1 .. Len(s))
        /\ Cardinality(1 .. Len(s)) = IF 1 > Len(s) THEN 0 ELSE Len(s) - 1 + 1
    BY <2>1, FS_Interval
  <2> QED BY <1>1, <2>2
<1> QED BY <1>1, <1>2 DEF Indices

(* A rank is a place in the sequence, and what comes before gets a smaller. *)
LEMMA RankOrder ==
  ASSUME NEW s \in Seq(Nat)
  PROVE  /\ \A i \in Indices(s) : rank(s, i) \in Indices(s)
         /\ \A i, j \in Indices(s) :
              s[i] < s[j] \/ (s[i] = s[j] /\ i < j) => rank(s, i) < rank(s, j)
<1>1. \A i \in Indices(s) :
        /\ UpToIt(s, i) \subseteq Indices(s) /\ i \in UpToIt(s, i)
        /\ rank(s, i) = Cardinality(UpToIt(s, i))
  <2> SUFFICES ASSUME NEW i \in Indices(s)
               PROVE  /\ UpToIt(s, i) \subseteq Indices(s) /\ i \in UpToIt(s, i)
                      /\ rank(s, i) = Cardinality(UpToIt(s, i))
    OBVIOUS
  <2>1. DOMAIN s = Indices(s) /\ i \in Nat /\ s[i] \in Nat
    BY SeqNat
  <2>2. UpToIt(s, i) \subseteq Indices(s) /\ i \in UpToIt(s, i)
    BY <2>1 DEF UpToIt
  <2> QED BY <2>1, <2>2 DEF UpToIt, rank
<1>2. \A i \in Indices(s) : IsFiniteSet(UpToIt(s, i)) /\ rank(s, i) \in Nat /\ rank(s, i) <= Len(s)
  BY <1>1, SeqNat, FS_Subset, FS_CardinalityType
<1>3. ASSUME NEW i \in Indices(s) PROVE rank(s, i) \in Indices(s)
  <2>1. rank(s, i) # 0
    BY <1>1, <1>2, FS_EmptySet
  <2> QED BY <1>2, <2>1, SeqNat DEF Indices
<1>4. ASSUME NEW i \in Indices(s), NEW j \in Indices(s),
             s[i] < s[j] \/ (s[i] = s[j] /\ i < j)
      PROVE  rank(s, i) < rank(s, j)
  <2>1. UpToIt(s, i) \subseteq UpToIt(s, j)
    BY <1>4, SeqNat DEF UpToIt
  <2>2. j \notin UpToIt(s, i)
    BY <1>4, SeqNat DEF UpToIt
  <2>3. UpToIt(s, i) # UpToIt(s, j)
    BY <1>1, <2>2
  <2>4. Cardinality(UpToIt(s, i)) < Cardinality(UpToIt(s, j))
    BY <1>1, <1>2, <2>1, <2>3, FS_Subset, FS_CardinalityType
  <2> QED BY <1>1, <2>4
<1> QED BY <1>3, <1>4

(* s is t with its elements in another order.                               *)
Rearranged(s, t, place) ==
  /\ place \in Bijection(Indices(t), Indices(s))
  /\ \A k \in Indices(t) : t[k] = s[place[k]]

InOrder(t) == \A k, l \in Indices(t) : k <= l => t[k] <= t[l]

(* A sorted sequence has the elements of the original one, in order.        *)
LEMMA Sorted ==
  ASSUME NEW s \in Seq(Nat)
  PROVE  /\ ascending[s] \in Seq(Nat) /\ Len(ascending[s]) = Len(s)
         /\ InOrder(ascending[s])
         /\ \E place : Rearranged(s, ascending[s], place)
<1> DEFINE I == Indices(s)
           t == ascending[s]
           r == [i \in I |-> rank(s, i)]
           place == [k \in I |-> CHOOSE i \in I : rank(s, i) = k]
<1>1. /\ Len(s) \in Nat /\ DOMAIN s = I /\ I \subseteq Nat /\ \A i \in I : s[i] \in Nat
      /\ IsFiniteSet(I) /\ I = 1 .. Len(s)
  BY SeqNat DEF Indices
<1>2. /\ \A i \in I : rank(s, i) \in I
      /\ \A i, j \in I : s[i] < s[j] \/ (s[i] = s[j] /\ i < j) => rank(s, i) < rank(s, j)
  BY RankOrder
<1>3. t = [k \in I |-> s[CHOOSE i \in I : rank(s, i) = k]]
  BY <1>1 DEF ascending
<1> HIDE DEF I, t
<1>4. \A i, j \in I : rank(s, i) = rank(s, j) => i = j
  <2> SUFFICES ASSUME NEW i \in I, NEW j \in I, rank(s, i) = rank(s, j), i # j PROVE FALSE
    OBVIOUS
  <2>1. i \in Nat /\ j \in Nat /\ s[i] \in Nat /\ s[j] \in Nat
        /\ rank(s, i) \in Nat /\ rank(s, j) \in Nat
    BY <1>1, <1>2
  <2>2. ~(rank(s, i) < rank(s, j)) /\ ~(rank(s, j) < rank(s, i))
    BY <2>1
  <2>3. (s[i] < s[j] \/ (s[i] = s[j] /\ i < j)) \/ (s[j] < s[i] \/ (s[j] = s[i] /\ j < i))
    BY <2>1
  <2> QED BY <1>2, <2>2, <2>3
<1>5. r \in Injection(I, I)
  BY <1>2, <1>4 DEF Injection, IsInjective
<1>6. r \in Surjection(I, I)
  BY <1>1, <1>5, FS_Injection
<1>7. \A k \in I : \E i \in I : rank(s, i) = k
  BY <1>6 DEF Surjection
<1>8. \A k \in I : place[k] \in I /\ rank(s, place[k]) = k
  BY <1>7
<1> HIDE DEF place, r
<1>9. place \in [I -> I]
  BY <1>8 DEF place
<1>10. \A k \in I : t[k] = s[place[k]]
  BY <1>3 DEF place
<1>11. \A k \in I : t[k] \in Nat
  BY <1>1, <1>8, <1>10
<1>12. t \in [1 .. Len(s) -> Nat]
  BY <1>1, <1>3, <1>11
<1>13. t \in Seq(Nat) /\ Len(t) = Len(s) /\ Indices(t) = I
  BY <1>1, <1>12 DEF Indices
<1>14. place \in Bijection(I, I)
  <2>1. \A k, l \in I : place[k] = place[l] => k = l
    BY <1>8
  <2>2. \A i \in I : \E k \in I : place[k] = i
    <3> SUFFICES ASSUME NEW i \in I PROVE \E k \in I : place[k] = i
      OBVIOUS
    <3>1. rank(s, i) \in I /\ rank(s, place[rank(s, i)]) = rank(s, i) /\ place[rank(s, i)] \in I
      BY <1>2, <1>8
    <3> QED BY <1>4, <3>1
  <2> QED BY <1>9, <2>1, <2>2 DEF Bijection, Injection, IsInjective, Surjection
<1>15. InOrder(t)
  <2> SUFFICES ASSUME NEW k \in I, NEW l \in I, k <= l PROVE t[k] <= t[l]
    BY <1>13 DEF InOrder
  <2>1. place[k] \in I /\ place[l] \in I /\ rank(s, place[k]) = k /\ rank(s, place[l]) = l
    BY <1>8
  <2>2. k \in Nat /\ l \in Nat /\ s[place[k]] \in Nat /\ s[place[l]] \in Nat
    BY <1>1, <2>1
  <2>3. s[place[l]] < s[place[k]] => rank(s, place[l]) < rank(s, place[k])
    BY <1>2, <2>1
  <2>4. ~(s[place[l]] < s[place[k]])
    BY <2>1, <2>2, <2>3
  <2> QED BY <1>10, <2>2, <2>4
<1>16. Rearranged(s, t, place)
  BY <1>10, <1>13, <1>14 DEF Rearranged, I
<1> QED BY <1>13, <1>15, <1>16 DEF t


(* How many elements of s have their value in P.                            *)
Count(s, P) == Cardinality({ i \in Indices(s) : s[i] \in P })

(* As many of a sequence as of its rearrangement.                           *)
LEMMA SameCounts ==
  ASSUME NEW s \in Seq(Nat), NEW t \in Seq(Nat), NEW place, Rearranged(s, t, place), NEW P
  PROVE  Count(t, P) = Count(s, P)
<1> DEFINE A == { k \in Indices(t) : t[k] \in P }
           B == { i \in Indices(s) : s[i] \in P }
           g == [k \in A |-> place[k]]
<1>1. /\ place \in [Indices(t) -> Indices(s)]
      /\ \A k, l \in Indices(t) : place[k] = place[l] => k = l
      /\ \A i \in Indices(s) : \E k \in Indices(t) : place[k] = i
      /\ \A k \in Indices(t) : t[k] = s[place[k]]
  BY DEF Rearranged, Bijection, Injection, IsInjective, Surjection
<1>2. g \in [A -> B]
  BY <1>1
<1>3. \A k, l \in A : g[k] = g[l] => k = l
  BY <1>1
<1>4. \A i \in B : \E k \in A : g[k] = i
  <2> SUFFICES ASSUME NEW i \in B PROVE \E k \in A : g[k] = i
    OBVIOUS
  <2>1. PICK k \in Indices(t) : place[k] = i
    BY <1>1
  <2>2. k \in A
    BY <1>1, <2>1
  <2> QED BY <2>1, <2>2
<1>5. IsFiniteSet(A)
  BY SeqNat, FS_Subset
<1> HIDE DEF A, B, g
<1>6. g \in Bijection(A, B)
  BY <1>2, <1>3, <1>4 DEF Bijection, Injection, IsInjective, Surjection
<1>7. ExistsBijection(A, B)
  BY <1>6 DEF ExistsBijection
<1>8. Cardinality(B) = Cardinality(A)
  BY <1>5, <1>7, FS_Bijection
<1> QED BY <1>8 DEF A, B, Count

(* In a sorted sequence at most k - 1 elements are smaller than the k-th,   *)
(* and at least k are not larger.                                           *)
LEMMA Shares ==
  ASSUME NEW t \in Seq(Nat), InOrder(t), NEW k \in Indices(t)
  PROVE  /\ Cardinality({ i \in Indices(t) : t[i] < t[k] }) \in Nat
         /\ Cardinality({ i \in Indices(t) : t[i] < t[k] }) <= k - 1
         /\ Cardinality({ i \in Indices(t) : t[i] <= t[k] }) \in Nat
         /\ Cardinality({ i \in Indices(t) : t[i] <= t[k] }) >= k
<1> DEFINE L == { i \in Indices(t) : t[i] < t[k] }
           U == { i \in Indices(t) : t[i] <= t[k] }
<1>1. k \in Nat /\ 1 <= k /\ k <= Len(t) /\ Len(t) \in Nat /\ IsFiniteSet(Indices(t))
      /\ \A i \in Indices(t) : i \in Nat /\ 1 <= i /\ t[i] \in Nat
  BY SeqNat DEF Indices
<1>2. L \subseteq 1 .. (k - 1)
  <2> SUFFICES ASSUME NEW i \in L PROVE i \in 1 .. (k - 1)
    OBVIOUS
  <2>1. i \in Indices(t) /\ t[i] < t[k]
    OBVIOUS
  <2>2. ~(k <= i)
    BY <1>1, <2>1 DEF InOrder
  <2> QED BY <1>1, <2>1, <2>2
<1>3. 1 .. k \subseteq U
  <2> SUFFICES ASSUME NEW i \in 1 .. k PROVE i \in U
    OBVIOUS
  <2>1. i \in Indices(t) /\ i <= k
    BY <1>1 DEF Indices
  <2> QED BY <2>1 DEF InOrder
<1>4. /\ IsFiniteSet(1 .. (k - 1)) /\ Cardinality(1 .. (k - 1)) = k - 1
      /\ IsFiniteSet(1 .. k) /\ Cardinality(1 .. k) = k
  <2>1. 1 \in Int /\ k \in Int /\ k - 1 \in Int
    BY <1>1
  <2>2. IsFiniteSet(1 .. k) /\ Cardinality(1 .. k) = IF 1 > k THEN 0 ELSE k - 1 + 1
    BY <2>1, FS_Interval
  <2>3. IsFiniteSet(1 .. (k - 1))
        /\ Cardinality(1 .. (k - 1)) = IF 1 > k - 1 THEN 0 ELSE k - 1 - 1 + 1
    BY <2>1, FS_Interval
  <2> QED BY <1>1, <2>2, <2>3
<1>5. IsFiniteSet(U)
  <2>1. U \subseteq Indices(t) OBVIOUS
  <2> QED BY <1>1, <2>1, FS_Subset
<1> HIDE DEF L, U
<1>6. IsFiniteSet(L) /\ Cardinality(L) <= Cardinality(1 .. (k - 1))
  BY <1>2, <1>4, FS_Subset
<1>7. Cardinality(1 .. k) <= Cardinality(U)
  BY <1>3, <1>5, FS_Subset
<1>8. Cardinality(L) \in Nat /\ Cardinality(U) \in Nat
  BY <1>5, <1>6, FS_CardinalityType
<1> QED BY <1>1, <1>4, <1>6, <1>7, <1>8 DEF L, U

(* There is one way to put a sequence in order.                             *)
LEMMA OrderUnique ==
  ASSUME NEW s \in Seq(Nat), NEW t \in Seq(Nat), NEW u \in Seq(Nat),
         Indices(t) = Indices(u), InOrder(t), InOrder(u),
         NEW p, Rearranged(s, t, p), NEW q, Rearranged(s, u, q),
         NEW k \in Indices(t)
  PROVE  ~(t[k] < u[k])
<1> SUFFICES ASSUME t[k] < u[k] PROVE FALSE
  OBVIOUS
<1> DEFINE P == { v \in Nat : v <= t[k] }
           T == { i \in Indices(t) : t[i] <= t[k] }
           U == { i \in Indices(u) : u[i] <= t[k] }
           L == { i \in Indices(u) : u[i] < u[k] }
<1>1. /\ k \in Nat /\ t[k] \in Nat /\ u[k] \in Nat
      /\ \A i \in Indices(t) : t[i] \in Nat /\ u[i] \in Nat
  BY SeqNat
<1>2. T = { i \in Indices(t) : t[i] \in P } /\ U = { i \in Indices(u) : u[i] \in P }
  BY <1>1
<1>3. Cardinality(T) = Cardinality(U)
  <2> HIDE DEF P, T, U
  <2>1. Count(t, P) = Count(s, P) /\ Count(u, P) = Count(s, P)
    BY SameCounts
  <2> QED BY <1>2, <2>1 DEF Count
<1>4. Cardinality(T) >= k /\ Cardinality(L) <= k - 1
      /\ Cardinality(T) \in Nat /\ Cardinality(L) \in Nat
  BY Shares
<1>5. U \subseteq L /\ L \subseteq Indices(u)
  <2> SUFFICES ASSUME NEW i \in U PROVE i \in L
    OBVIOUS
  <2>1. i \in Indices(u) /\ u[i] <= t[k] /\ u[i] \in Nat
    BY <1>1
  <2>2. u[i] < u[k]
    BY <1>1, <2>1
  <2> QED BY <2>1, <2>2
<1>6. Cardinality(U) <= Cardinality(L)
  <2> HIDE DEF U, L
  <2> QED BY <1>5, SeqNat, FS_Subset
<1> HIDE DEF T, U, L
<1> QED BY <1>1, <1>3, <1>4, <1>6

-----------------------------------------------------------------------------
(* Rounding keeps the order.                                                *)
LEMMA Rounding ==
  /\ \A a \in Nat : r2(a) \in Nat
  /\ \A a, b \in Nat : a <= b => r2(a) <= r2(b)
  BY DEF r2

(* It does not matter whether one sorts before rounding, as the statistics  *)
(* do, or after, as the samples of the result are.                          *)
LEMMA RoundedSorted ==
  ASSUME NEW us \in Seq(Nat)
  PROVE  LET rs == [i \in DOMAIN us |-> r2(us[i])]
         IN  /\ rs \in Seq(Nat) /\ Len(rs) = Len(us)
             /\ \A k \in Indices(us) : r2(ascending[us][k]) = ascending[rs][k]
<1> DEFINE rs == [i \in DOMAIN us |-> r2(us[i])]
           t == ascending[us]
           u == [k \in DOMAIN t |-> r2(t[k])]
           v == ascending[rs]
           I == Indices(us)
<1>1. /\ Len(us) \in Nat /\ DOMAIN us = 1 .. Len(us) /\ \A i \in I : us[i] \in Nat
      /\ I = 1 .. Len(us)
  BY SeqNat DEF Indices
<1>2. rs \in Seq(Nat) /\ Len(rs) = Len(us) /\ \A i \in I : rs[i] = r2(us[i])
  <2>1. rs \in [1 .. Len(us) -> Nat]
    BY <1>1, Rounding
  <2> QED BY <1>1, <2>1
<1>3. t \in Seq(Nat) /\ Len(t) = Len(us) /\ InOrder(t)
  BY Sorted
<1>4. PICK p : Rearranged(us, t, p)
  BY Sorted
<1>5. u \in Seq(Nat) /\ Len(u) = Len(us) /\ \A k \in I : u[k] = r2(t[k])
  <2> HIDE DEF t
  <2>1. DOMAIN t = 1 .. Len(us) /\ \A k \in I : t[k] \in Nat
    BY <1>1, <1>3
  <2>2. u \in [1 .. Len(us) -> Nat]
    BY <1>1, <2>1, Rounding
  <2> QED BY <1>1, <2>1, <2>2
<1> HIDE DEF rs
<1>6. v \in Seq(Nat) /\ Len(v) = Len(us) /\ InOrder(v)
  BY <1>2, Sorted
<1>7. PICK q : Rearranged(rs, v, q)
  BY <1>2, Sorted
<1> HIDE DEF t, u, v, I
<1>8. Indices(rs) = I /\ Indices(t) = I /\ Indices(u) = I /\ Indices(v) = I
  BY <1>2, <1>3, <1>5, <1>6 DEF Indices, I
<1>9. Rearranged(rs, u, p)
  <2>1. p \in Bijection(I, I) /\ \A k \in I : t[k] = us[p[k]]
    BY <1>4, <1>8 DEF Rearranged, I
  <2>2. \A k \in I : p[k] \in I
    BY <2>1 DEF Bijection, Injection
  <2>3. ASSUME NEW k \in I PROVE u[k] = rs[p[k]]
    <3>1. u[k] = r2(us[p[k]])
      BY <1>5, <2>1
    <3>2. rs[p[k]] = r2(us[p[k]])
      BY <1>2, <2>2
    <3> QED BY <3>1, <3>2
  <2> QED BY <1>8, <2>1, <2>3 DEF Rearranged
<1>10. InOrder(u)
  <2> SUFFICES ASSUME NEW k \in I, NEW l \in I, k <= l PROVE u[k] <= u[l]
    BY <1>8 DEF InOrder
  <2>1. t[k] <= t[l] /\ t[k] \in Nat /\ t[l] \in Nat
    BY <1>3, <1>8, SeqNat DEF InOrder
  <2> QED BY <1>5, <2>1, Rounding
<1>11. ASSUME NEW k \in I PROVE u[k] = v[k]
  <2>1. u[k] \in Nat /\ v[k] \in Nat
    BY <1>5, <1>6, <1>8, SeqNat
  <2>2. ~(u[k] < v[k])
    BY <1>2, <1>5, <1>6, <1>7, <1>8, <1>9, <1>10, OrderUnique
  <2>3. ~(v[k] < u[k])
    BY <1>2, <1>5, <1>6, <1>7, <1>8, <1>9, <1>10, OrderUnique
  <2> QED BY <2>1, <2>2, <2>3
<1>12. \A k \in I : r2(t[k]) = v[k]
  BY <1>5, <1>11
<1> QED BY <1>2, <1>12 DEF rs, t, v, I

-----------------------------------------------------------------------------
(* Induction up to a bound, as a statement about the numbers it holds for.  *)
LEMMA UpTo ==
  ASSUME NEW N \in Nat, NEW S, 0 \in S, \A n \in 0 .. (N - 1) : n \in S => n + 1 \in S
  PROVE  \A n \in 0 .. N : n \in S
<1> DEFINE T == (0 .. N) \ S
<1> SUFFICES ASSUME T # {} PROVE FALSE
  OBVIOUS
<1> DEFINE less == OpToRel(<, Nat)
<1>1. IsWellFoundedOn(less, Nat)
  BY NatLessThanWellFounded
<1>2. \A a, b \in Nat : a < b => <<a, b>> \in less
  BY DEF OpToRel
<1>3. T \subseteq Nat /\ T # {}
  OBVIOUS
<1> HIDE DEF T, less
<1>4. PICK x \in T : \A y \in T : ~ (<<y, x>> \in less)
  BY <1>1, <1>3, WFMin
<1>5. x \in 0 .. N /\ x \notin S /\ x # 0
  BY <1>4 DEF T
<1>6. x - 1 \in 0 .. (N - 1) /\ x - 1 < x /\ x - 1 \in Nat /\ x \in Nat
  BY <1>5
<1>7. x - 1 \notin T
  BY <1>2, <1>4, <1>6
<1>8. x - 1 \in S
  BY <1>6, <1>7 DEF T
<1>9. (x - 1) + 1 \in S
  BY <1>6, <1>8
<1> QED BY <1>5, <1>6, <1>9

(* f starts at b and takes the step G up to N.                              *)
Steps(f, N, S, b, G) ==
  f \in [0 .. N -> S] /\ f[0] = b /\ \A n \in 1 .. N : f[n] = G[<<f[n - 1], n>>]

(* There is such a function, whatever the step.                             *)
LEMMA Recursion ==
  ASSUME NEW N \in Nat, NEW S, NEW b \in S, NEW G \in [S \X (1 .. N) -> S]
  PROVE  \E f : Steps(f, N, S, b, G)
<1> DEFINE T == { m \in 0 .. N : \E f : Steps(f, m, S, b, G) }
<1>1. 0 \in T
  <2>1. Steps([n \in 0 .. 0 |-> b], 0, S, b, G)
    BY DEF Steps
  <2> QED BY <2>1
<1>2. ASSUME NEW m \in 0 .. (N - 1), m \in T
      PROVE  m + 1 \in T
  <2>1. PICK f : Steps(f, m, S, b, G)
    BY <1>2
  <2> DEFINE g == [n \in 0 .. (m + 1) |-> IF n = m + 1 THEN G[<<f[m], m + 1>>] ELSE f[n]]
  <2>2. m \in Nat /\ m + 1 \in 1 .. N /\ m \in 0 .. m
    BY <1>2
  <2>3. G[<<f[m], m + 1>>] \in S
    BY <2>1, <2>2 DEF Steps
  <2>4. g \in [0 .. (m + 1) -> S]
    BY <2>1, <2>2, <2>3 DEF Steps
  <2>5. g[0] = b
    BY <2>1, <2>2 DEF Steps
  <2>6. ASSUME NEW n \in 1 .. (m + 1)
        PROVE  g[n] = G[<<g[n - 1], n>>]
    <3>1. CASE n = m + 1
      <4>1. n - 1 = m /\ m \in 0 .. (m + 1) /\ m # m + 1
        BY <2>2, <3>1
      <4>2. g[m] = f[m]
        BY <4>1
      <4> QED BY <3>1, <4>1, <4>2
    <3>2. CASE n # m + 1
      <4>1. n \in 1 .. m /\ g[n] = f[n] /\ g[n - 1] = f[n - 1]
        BY <2>2, <3>2
      <4> QED BY <2>1, <4>1 DEF Steps
    <3> QED BY <3>1, <3>2
  <2> HIDE DEF g
  <2>7. Steps(g, m + 1, S, b, G)
    BY <2>4, <2>5, <2>6 DEF Steps
  <2> QED BY <2>2, <2>7
<1> HIDE DEF T
<1>3. \A n \in 0 .. N : n \in T
  BY <1>1, <1>2, UpTo
<1>4. N \in T
  BY <1>3
<1> QED BY <1>4 DEF T

(* The sums of the first elements, one by one.                              *)
LEMMA TotalSteps ==
  ASSUME NEW s \in Seq(Nat)
  PROVE  \E d \in [0 .. Len(s) -> Nat] :
           /\ d[0] = 0 /\ total(s) = d[Len(s)]
           /\ \A n \in 1 .. Len(s) : d[n] = d[n - 1] + s[n]
<1> DEFINE N == Len(s)
           G == [q \in Nat \X (1 .. N) |-> q[1] + s[q[2]]]
           IsRec(d) == d = [n \in 0 .. N |-> IF n = 0 THEN 0 ELSE d[n - 1] + s[n]]
<1>1. N \in Nat /\ 0 \in Nat /\ \A n \in 1 .. N : s[n] \in Nat
  OBVIOUS
<1>2. \A a \in Nat, n \in 1 .. N : a + s[n] \in Nat
  BY <1>1
<1>3. G \in [Nat \X (1 .. N) -> Nat]
  BY <1>2
<1>4. \A a \in Nat, n \in 1 .. N : G[<<a, n>>] = a + s[n]
  OBVIOUS
<1> HIDE DEF G, N
<1>5. PICK g : Steps(g, N, Nat, 0, G)
  BY <1>1, <1>3, Recursion
<1>6. IsRec(g)
  <2>1. g = [n \in 0 .. N |-> g[n]] /\ g[0] = 0
    BY <1>5 DEF Steps
  <2>2. \A n \in 0 .. N : n # 0 => n \in 1 .. N /\ n - 1 \in 0 .. N
    BY <1>1
  <2>3. \A n \in 0 .. N : n # 0 => g[n] = g[n - 1] + s[n]
    BY <1>4, <1>5, <2>2 DEF Steps
  <2> QED BY <2>1, <2>3
<1> DEFINE d == CHOOSE h : IsRec(h)
<1>7. IsRec(d)
  BY <1>6
<1>8. total(s) = d[N]
  BY DEF total, N
<1> HIDE DEF d
<1>9. d[0] = 0 /\ \A n \in 1 .. N : d[n] = d[n - 1] + s[n]
  BY <1>1, <1>7
<1>10. \A n \in 0 .. N : d[n] \in Nat
  <2> DEFINE T == { n \in 0 .. N : d[n] \in Nat }
  <2>1. 0 \in T
    BY <1>1, <1>9
  <2>2. \A n \in 0 .. (N - 1) : n \in T => n + 1 \in T
    <3> SUFFICES ASSUME NEW n \in 0 .. (N - 1), n \in T PROVE n + 1 \in T
      OBVIOUS
    <3>1. n + 1 \in 1 .. N /\ n + 1 \in 0 .. N /\ (n + 1) - 1 = n
      BY <1>1
    <3>2. d[n + 1] = d[n] + s[n + 1] /\ d[n] \in Nat /\ s[n + 1] \in Nat
      BY <1>1, <1>9, <3>1
    <3> QED BY <3>1, <3>2
  <2> HIDE DEF T
  <2>3. \A n \in 0 .. N : n \in T
    BY <1>1, <2>1, <2>2, UpTo
  <2> QED BY <2>3 DEF T
<1>11. d \in [0 .. N -> Nat]
  BY <1>7, <1>10
<1> QED BY <1>8, <1>9, <1>11 DEF N

(* The sum lies between as many times the first and the last of a sorted    *)
(* sequence.                                                                *)
LEMMA TotalBounds ==
  ASSUME NEW s \in Seq(Nat), InOrder(s), Len(s) # 0
  PROVE  /\ total(s) \in Nat
         /\ Len(s) * s[1] <= total(s) /\ total(s) <= Len(s) * s[Len(s)]
<1> DEFINE N == Len(s)
           a == s[1]
           b == s[N]
<1>1. PICK d \in [0 .. N -> Nat] :
        /\ d[0] = 0 /\ total(s) = d[N] /\ \A n \in 1 .. N : d[n] = d[n - 1] + s[n]
  BY TotalSteps
<1>2. /\ N \in Nat /\ N # 0 /\ a \in Nat /\ b \in Nat
      /\ \A n \in 1 .. N : s[n] \in Nat /\ a <= s[n] /\ s[n] <= b
  BY SeqNat DEF InOrder, Indices
<1> HIDE DEF N, a, b
<1> DEFINE T == { n \in 0 .. N : n * a <= d[n] /\ d[n] <= n * b }
<1>3. 0 \in T
  <2>1. 0 * a = 0 /\ 0 * b = 0 /\ 0 \in 0 .. N
    BY <1>2
  <2> QED BY <1>1, <2>1
<1>4. \A n \in 0 .. (N - 1) : n \in T => n + 1 \in T
  <2> SUFFICES ASSUME NEW n \in 0 .. (N - 1), n \in T PROVE n + 1 \in T
    OBVIOUS
  <2>1. n \in Nat /\ n \in 0 .. N /\ n + 1 \in 1 .. N /\ n + 1 \in 0 .. N /\ (n + 1) - 1 = n
    BY <1>2
  <2>2. d[n + 1] = d[n] + s[n + 1] /\ d[n] \in Nat /\ s[n + 1] \in Nat
        /\ a <= s[n + 1] /\ s[n + 1] <= b
    BY <1>1, <1>2, <2>1
  <2>3. (n + 1) * a = n * a + a /\ (n + 1) * b = n * b + b /\ n * a \in Nat /\ n * b \in Nat
    BY <1>2, <2>1
  <2>4. n * a <= d[n] /\ d[n] <= n * b
    OBVIOUS
  <2>5. (n + 1) * a <= d[n + 1] /\ d[n + 1] <= (n + 1) * b
    <3> DEFINE na == n * a
               nb == n * b
    <3>1. /\ na \in Nat /\ nb \in Nat /\ na <= d[n] /\ d[n] <= nb
          /\ (n + 1) * a = na + a /\ (n + 1) * b = nb + b
      BY <2>3, <2>4
    <3> HIDE DEF na, nb, T
    <3>2. na + a <= d[n + 1] /\ d[n + 1] <= nb + b
      <4> DEFINE x == d[n]
                 y == s[n + 1]
                 z == d[n + 1]
      <4>1. z = x + y /\ x \in Nat /\ y \in Nat /\ a <= y /\ y <= b /\ na <= x /\ x <= nb
        BY <2>2, <3>1
      <4> HIDE DEF x, y, z
      <4>2. na + a <= z /\ z <= nb + b
        BY <1>2, <3>1, <4>1
      <4> QED BY <4>2 DEF z
    <3> QED BY <3>1, <3>2
  <2> QED BY <2>1, <2>5
<1> HIDE DEF T
<1>5. N \in T
  <2>1. \A n \in 0 .. N : n \in T
    BY <1>2, <1>3, <1>4, UpTo
  <2> QED BY <1>2, <2>1
<1> QED BY <1>1, <1>2, <1>5 DEF T, N, a, b

(* A quotient is between two numbers if the dividend is between their       *)
(* products with the divisor.                                               *)
LEMMA QuotientBetween ==
  ASSUME NEW x \in Nat, NEW m \in Nat \ {0}, NEW q \in Nat
  PROVE  /\ x \div m \in Nat
         /\ m * q <= x => q <= x \div m
         /\ x < m * (q + 1) => x \div m <= q
<1>1. x \div m \in Nat /\ m * (x \div m) <= x /\ x < m * (x \div m) + m
  BY SMTT(20)
<1> DEFINE y == x \div m
<1>2. y \in Nat /\ m * y <= x /\ x < m * y + m
  BY <1>1
<1> HIDE DEF y
<1>3. ASSUME m * q <= x PROVE q <= y
  <2> SUFFICES ASSUME y + 1 <= q PROVE FALSE
    BY <1>2
  <2>1. PICK k \in Nat : q = y + 1 + k
    <3>1. q - (y + 1) \in Nat /\ q = y + 1 + (q - (y + 1))
      BY <1>2
    <3> QED BY <3>1
  <2>2. m * q = m * y + m + m * k /\ m * k \in Nat /\ m * y \in Nat /\ m * q \in Nat
    BY <1>2, <2>1
  <2> QED BY <1>2, <1>3, <2>2
<1>4. ASSUME x < m * (q + 1) PROVE y <= q
  <2> SUFFICES ASSUME q + 1 <= y PROVE FALSE
    BY <1>2
  <2>1. PICK k \in Nat : y = q + 1 + k
    <3>1. y - (q + 1) \in Nat /\ y = q + 1 + (y - (q + 1))
      BY <1>2
    <3> QED BY <3>1
  <2>2. m * y = m * (q + 1) + m * k /\ m * k \in Nat /\ m * (q + 1) \in Nat /\ m * y \in Nat
    BY <1>2, <2>1
  <2> QED BY <1>2, <1>4, <2>2
<1> QED BY <1>2, <1>3, <1>4 DEF y

(* The rounded mean lies between the rounded extremes.                      *)
LEMMA MeanBetween ==
  ASSUME NEW s \in Seq(Nat), InOrder(s), Len(s) # 0
  PROVE  r2(s[1]) <= mean(s) /\ mean(s) <= r2(s[Len(s)])
<1> DEFINE N == Len(s)
           S == total(s)
           a == s[1]
           b == s[N]
           lo == (a + 5) \div 10
           hi == (b + 5) \div 10
           x == 2 * S + 10 * N
           m == 20 * N
<1>1. /\ N \in Nat \ {0} /\ S \in Nat /\ N * a <= S /\ S <= N * b
      /\ a \in Nat /\ b \in Nat
  BY TotalBounds, SeqNat DEF Indices
<1>2. mean(s) = x \div m /\ r2(a) = lo /\ r2(b) = hi
  BY DEF mean, r2
<1>3. /\ lo \in Nat /\ 10 * lo <= a + 5
      /\ hi \in Nat /\ b + 5 < 10 * hi + 10
  <2> HIDE DEF a, b
  <2> QED BY <1>1
<1> HIDE DEF N, S, a, b, lo, hi
<1>4. /\ x \in Nat /\ m \in Nat \ {0}
      /\ N * a \in Nat /\ N * b \in Nat /\ N * lo \in Nat /\ N * hi \in Nat
  BY <1>1, <1>3
<1>5. m * lo <= x
  <2>1. N * (10 * lo) <= N * (a + 5)
    <3>1. PICK k \in Nat : a + 5 = 10 * lo + k
      <4>1. (a + 5) - 10 * lo \in Nat /\ a + 5 = 10 * lo + ((a + 5) - 10 * lo)
        BY <1>1, <1>3
      <4> QED BY <4>1
    <3>2. N * (10 * lo + k) = N * (10 * lo) + N * k /\ N * k \in Nat /\ N * (10 * lo) \in Nat
      BY <1>1, <1>3
    <3> QED BY <3>1, <3>2
  <2>2. N * (10 * lo) = 10 * (N * lo) /\ N * (a + 5) = N * a + 5 * N
        /\ m * lo = 20 * (N * lo)
    BY <1>1, <1>3
  <2> HIDE DEF m
  <2> QED BY <1>1, <1>4, <2>1, <2>2
<1>6. x < m * (hi + 1)
  <2>1. N * (b + 5) < N * (10 * hi + 10)
    <3>1. PICK k \in Nat \ {0} : 10 * hi + 10 = b + 5 + k
      <4>1. (10 * hi + 10) - (b + 5) \in Nat \ {0}
            /\ 10 * hi + 10 = b + 5 + ((10 * hi + 10) - (b + 5))
        BY <1>1, <1>3
      <4> QED BY <4>1
    <3>2. N * (b + 5 + k) = N * (b + 5) + N * k /\ N * k \in Nat \ {0} /\ N * (b + 5) \in Nat
      BY <1>1, <1>3
    <3> QED BY <3>1, <3>2
  <2>2. N * (b + 5) = N * b + 5 * N /\ N * (10 * hi + 10) = 10 * (N * hi) + 10 * N
        /\ m * (hi + 1) = 20 * (N * hi) + 20 * N
    BY <1>1, <1>3
  <2> HIDE DEF m
  <2> QED BY <1>1, <1>4, <2>1, <2>2
<1> HIDE DEF x, m
<1>7. lo <= x \div m /\ x \div m <= hi
  BY <1>3, <1>4, <1>5, <1>6, QuotientBetween
<1> QED BY <1>2, <1>7 DEF a, b, N


-----------------------------------------------------------------------------
(* The index that percentile takes, counting from zero.                     *)
index(last, p) == Min({ (2 * p * last + 100) \div 200, last })

(* It is an index of the sequence, within half a rank of p percent, and it  *)
(* grows with p (types.rs:70-71).                                           *)
LEMMA IndexOf ==
  ASSUME NEW last \in Nat, NEW p \in Percentiles
  PROVE  /\ index(last, p) \in 0 .. last
         /\ 200 * index(last, p) <= 2 * p * last + 100
         /\ 200 * index(last, p) >= 2 * p * last - 100
         /\ \A q \in Percentiles : p < q => index(last, p) <= index(last, q)
<1>1. ASSUME NEW r \in Percentiles
      PROVE  LET c == (2 * r * last + 100) \div 200
                 x == 2 * r * last
             IN  /\ c \in Nat /\ 200 * c <= x + 100 /\ x + 100 < 200 * c + 200
                 /\ x \in Nat /\ x <= 200 * last
                 /\ index(last, r) = IF c <= last THEN c ELSE last
  <2> DEFINE x == 2 * r * last
             c == (x + 100) \div 200
  <2>1. x \in Nat /\ x <= 200 * last
    BY DEF Percentiles
  <2>2. index(last, r) = Min({c, last})
    BY DEF index
  <2> HIDE DEF x
  <2>3. c \in Nat /\ 200 * c <= x + 100 /\ x + 100 < 200 * c + 200
    BY <2>1
  <2> HIDE DEF c
  <2>4. index(last, r) = IF c <= last THEN c ELSE last
    BY <2>2, <2>3, MinOfTwo
  <2> QED BY <2>1, <2>3, <2>4 DEF c, x
<1>2. ASSUME NEW r \in Percentiles
      PROVE  /\ index(last, r) \in 0 .. last
             /\ 200 * index(last, r) <= 2 * r * last + 100
             /\ 200 * index(last, r) >= 2 * r * last - 100
  <2> DEFINE x == 2 * r * last
             c == (2 * r * last + 100) \div 200
             k == index(last, r)
  <2>1. /\ c \in Nat /\ 200 * c <= x + 100 /\ x + 100 < 200 * c + 200
        /\ x \in Nat /\ x <= 200 * last /\ k = IF c <= last THEN c ELSE last
    BY <1>1
  <2> HIDE DEF x, c, k
  <2>2. k \in 0 .. last /\ 200 * k <= x + 100 /\ 200 * k >= x - 100
    BY <2>1
  <2> QED BY <2>2 DEF x, k
<1>3. ASSUME NEW q \in Percentiles, p < q PROVE index(last, p) <= index(last, q)
  <2> DEFINE x == 2 * p * last
             y == 2 * q * last
             c == (2 * p * last + 100) \div 200
             d == (2 * q * last + 100) \div 200
  <2>1. x <= y
    BY <1>3 DEF Percentiles
  <2>2. /\ c \in Nat /\ 200 * c <= x + 100 /\ x \in Nat
        /\ index(last, p) = IF c <= last THEN c ELSE last
        /\ d \in Nat /\ y + 100 < 200 * d + 200 /\ y \in Nat
        /\ index(last, q) = IF d <= last THEN d ELSE last
    BY <1>1
  <2> HIDE DEF x, y, c, d
  <2> QED BY <2>1, <2>2
<1> QED BY <1>2, <1>3

(* Whatever the index arithmetic, it gives percentiles.                     *)
LEMMA PercentileHolds ==
  ASSUME NEW t \in Seq(Nat), InOrder(t), Len(t) # 0, NEW p \in Percentiles
  PROVE  IsPercentile(t[index(Len(t) - 1, p) + 1], p, t)
<1> DEFINE last == Len(t) - 1
           j == index(last, p)
           k == j + 1
           below == Cardinality({ i \in Indices(t) : t[i] < t[k] })
           upto == Cardinality({ i \in Indices(t) : t[i] <= t[k] })
<1>1. Len(t) \in Nat /\ last \in Nat /\ DOMAIN t = Indices(t)
  BY SeqNat
<1>2. j \in 0 .. last /\ 200 * j <= 2 * p * last + 100 /\ 200 * j >= 2 * p * last - 100
  BY <1>1, IndexOf
<1>3. k \in Indices(t) /\ k - 1 = j
  <2> HIDE DEF j
  <2> QED BY <1>1, <1>2 DEF Indices
<1>4. below \in Nat /\ below <= j /\ upto \in Nat /\ upto >= k
  <2> HIDE DEF j, k
  <2> QED BY <1>3, Shares
<1>5. t[k] \in Range(t)
  BY <1>1, <1>3 DEF Range
<1>6. IsPercentile(t[k], p, t) <=>
        t[k] \in Range(t) /\ 200 * below <= 2 * p * last + 100
                         /\ 200 * (upto - 1) >= 2 * p * last - 100
  BY <1>1 DEF IsPercentile
<1> HIDE DEF below, upto
<1>7. 200 * below <= 2 * p * last + 100 /\ 200 * (upto - 1) >= 2 * p * last - 100
  <2> DEFINE x == 2 * p * last
  <2>1. x \in Nat
    BY <1>1 DEF Percentiles
  <2>2. j \in Nat /\ 200 * j <= x + 100 /\ 200 * j >= x - 100 /\ upto >= j + 1
    BY <1>1, <1>2, <1>4
  <2> HIDE DEF x, j, last
  <2>3. 200 * below <= x + 100 /\ 200 * (upto - 1) >= x - 100
    BY <1>4, <2>1, <2>2
  <2> QED BY <2>3 DEF x, last
<1> QED BY <1>5, <1>6, <1>7

(* The statistics and the sorted samples describe the durations, however    *)
(* many there are and in whatever order they were measured.                 *)
LEMMA StatisticsDescribe ==
  ASSUME NEW us \in Seq(Nat), Len(us) # 0
  PROVE  Describes(from_durations(us), ascending[[i \in DOMAIN us |-> r2(us[i])]], us)
<1> DEFINE rs == [i \in DOMAIN us |-> r2(us[i])]
           t == ascending[us]
           v == ascending[rs]
           st == from_durations(us)
           N == Len(us)
           I == Indices(us)
<1>1. /\ N \in Nat /\ N # 0 /\ I = 1 .. N /\ DOMAIN us = I /\ IsFiniteSet(I)
      /\ 1 \in I /\ N \in I
  BY SeqNat DEF Indices
<1>2. /\ rs \in Seq(Nat) /\ Len(rs) = N /\ \A i \in I : rs[i] = r2(us[i])
      /\ \A k \in I : r2(t[k]) = v[k]
  BY <1>1, RoundedSorted
<1>3. t \in Seq(Nat) /\ Len(t) = N /\ InOrder(t)
  BY Sorted
<1>4. /\ st.mean = mean(t) /\ st.min = r2(t[1]) /\ st.max = r2(t[N])
      /\ \A p \in Percentiles : st.pct[p] = r2(t[index(N - 1, p) + 1])
  <2> HIDE DEF t
  <2>1. statistics[t] = [ mean |-> mean(t), min |-> r2(t[1]), max |-> r2(Last(t)),
                          pct |-> [p \in Percentiles |-> r2(percentile(t, p))] ]
    BY <1>3 DEF statistics
  <2>2. st = statistics[t]
    BY DEF from_durations, t
  <2>3. Last(t) = t[N] /\ \A p \in Percentiles : percentile(t, p) = t[index(N - 1, p) + 1]
    BY <1>3 DEF Last, percentile, index
  <2> HIDE DEF st
  <2> QED BY <2>1, <2>2, <2>3
<1> HIDE DEF rs, st
<1>5. v \in Seq(Nat) /\ Len(v) = N /\ InOrder(v) /\ \E place : Rearranged(rs, v, place)
  BY <1>2, Sorted
<1>6. st.min = v[1] /\ st.max = v[N]
  BY <1>1, <1>2, <1>4
<1>7. st.min <= st.mean /\ st.mean <= st.max
  BY <1>1, <1>3, <1>4, MeanBetween
<1>8. \A p \in Percentiles :
        /\ index(N - 1, p) \in 0 .. (N - 1) /\ index(N - 1, p) + 1 \in I
        /\ st.pct[p] = v[index(N - 1, p) + 1]
  <2> SUFFICES ASSUME NEW p \in Percentiles
               PROVE  /\ index(N - 1, p) \in 0 .. (N - 1) /\ index(N - 1, p) + 1 \in I
                      /\ st.pct[p] = v[index(N - 1, p) + 1]
    OBVIOUS
  <2>1. N - 1 \in Nat
    BY <1>1
  <2>2. index(N - 1, p) \in 0 .. (N - 1)
    BY <2>1, IndexOf
  <2>3. index(N - 1, p) + 1 \in I
    BY <1>1, <2>2
  <2> QED BY <1>2, <1>4, <2>2, <2>3
<1> HIDE DEF t, v, N, I
<1>9. Indices(v) = I /\ DOMAIN v = I
  BY <1>5, SeqNat DEF Indices, I, N
<1>10. \A p \in Percentiles : IsPercentile(st.pct[p], p, v)
  BY <1>1, <1>5, <1>8, PercentileHolds
<1>11. \A p, q \in Percentiles : p < q => st.pct[p] <= st.pct[q]
  <2> SUFFICES ASSUME NEW p \in Percentiles, NEW q \in Percentiles, p < q
               PROVE  st.pct[p] <= st.pct[q]
    OBVIOUS
  <2>1. index(N - 1, p) <= index(N - 1, q)
    <3>1. N - 1 \in Nat BY <1>1
    <3> QED BY <3>1, IndexOf
  <2>2. index(N - 1, p) + 1 <= index(N - 1, q) + 1
    BY <1>1, <1>8, <2>1
  <2> QED BY <1>5, <1>8, <1>9, <2>2 DEF InOrder
<1>12. \A i, j \in DOMAIN v : i <= j => v[i] <= v[j]
  BY <1>5, <1>9 DEF InOrder
<1>13. ASSUME NEW w
       PROVE  Cardinality({ i \in DOMAIN v : v[i] = w })
                = Cardinality({ i \in DOMAIN us : r2(us[i]) = w })
  <2>1. Count(v, {w}) = Count(rs, {w})
    BY <1>2, <1>5, SameCounts
  <2>2. Indices(rs) = I
    BY <1>2 DEF Indices, I, N
  <2>3. { i \in DOMAIN v : v[i] = w } = { i \in Indices(v) : v[i] \in {w} }
    BY <1>9
  <2>4. { i \in DOMAIN us : r2(us[i]) = w } = { i \in Indices(rs) : rs[i] \in {w} }
    BY <1>1, <1>2, <2>2
  <2> QED BY <2>1, <2>3, <2>4 DEF Count
<1>14. Describes(st, v, us)
  BY <1>5, <1>6, <1>7, <1>10, <1>11, <1>12, <1>13 DEF Describes
<1> QED BY <1>14 DEF st, v, rs

-----------------------------------------------------------------------------
(* The results so far are not touched by a step that finishes no case.      *)
LEMMA DoneStays ==
  ASSUME Done, UNCHANGED <<cfg, cases, idx, results, log>>
  PROVE  Done'
<1>1. num_batches' = num_batches
  BY DEF num_batches, batch_size
<1>2. \A i \in 1 .. (idx - 1) : Finished(i)'
  BY <1>1 DEF Done, Finished, NoLimit
<1> QED BY <1>2 DEF Done

(* A run starts with nothing measured.                                      *)
LEMMA StartOK ==
  ASSUME CfgOK, pc = "warmup", RunInit
  PROVE  IInv
<1>1. TypesInv
  BY Batches DEF RunInit, TypesInv, Locals, Fresh, CfgOK
<1>2. Counted(cur)
  BY DEF RunInit, Counted, Largest, Fresh, CfgOK
<1>3. Placed
  BY DEF RunInit, Placed, Fresh
<1>4. Done
  <2>1. IsSeq(<< >>)
    <3>1. << >> \in Seq({})
      OBVIOUS
    <3> QED BY <3>1 DEF IsSeq
  <2>2. Len(cases) \in Nat
    BY DEF CfgOK
  <2> QED BY <2>1, <2>2 DEF RunInit, Done
<1> QED BY <1>1, <1>2, <1>3, <1>4 DEF IInv

LEMMA InitOK == Init => IInv
<1> SUFFICES ASSUME Init PROVE IInv
  OBVIOUS
<1>1. CfgOK
  BY RunnerAssumption, NoWrapAssumption DEF Init, CfgOK
<1> QED BY <1>1, StartOK DEF Init

(* A repetition of the warm-up counts for nothing but itself.               *)
LEMMA WarmUpOK ==
  ASSUME IInv, WarmUp, UNCHANGED <<cfg, cases, zones>>
  PROVE  IInv'
<1>1. num_batches' = num_batches /\ batch_size' = batch_size
  BY DEF num_batches, batch_size
<1>2. /\ cur' = [cur EXCEPT !.warmed = @ + 1] /\ cur \in Locals
      /\ cur.warmed < cfg.warmup_reps /\ cfg.warmup_reps \in Nat
  BY DEF IInv, TypesInv, WarmUp, CfgOK
<1>3. /\ cur' \in Locals /\ cur'.warmed = cur.warmed + 1 /\ cur'.batch = cur.batch
      /\ cur.warmed \in Nat
  BY <1>2 DEF Locals
<1>4. cur'.warmed <= cfg.warmup_reps
  BY <1>2, <1>3
<1>5. TypesInv'
  BY <1>1, <1>3, <1>4 DEF IInv, TypesInv, CfgOK, WarmUp
<1>6. Counted(cur)'
  BY <1>2 DEF IInv, Counted, Largest, Locals
<1>7. Placed'
  BY <1>2 DEF IInv, Placed, WarmUp, Locals
<1> QED BY <1>5, <1>6, <1>7, DoneStays DEF IInv, WarmUp

(* The measurement starts at the first gate, with nothing measured.         *)
LEMMA StartMeasuringOK ==
  ASSUME IInv, StartMeasuring, UNCHANGED <<cfg, cases, zones>>
  PROVE  IInv'
<1>1. num_batches' = num_batches /\ batch_size' = batch_size
  BY DEF num_batches, batch_size
<1>2. TypesInv'
  BY <1>1 DEF IInv, TypesInv, CfgOK, StartMeasuring
<1>3. Counted(cur)'
  BY DEF IInv, Counted, Largest, StartMeasuring
<1>4. Placed'
  <2>1. /\ batch_size \in Nat \ {0} /\ num_batches \in Nat /\ cfg.bench_reps \in Nat
        /\ 0 >= num_batches => 0 * batch_size >= cfg.bench_reps
    BY Batches DEF IInv, TypesInv, CfgOK
  <2>2. 0 * batch_size = 0
    BY <2>1
  <2>3. cur.batch = 0 /\ cur.rep = 0 /\ cur.rested = 0 /\ idx <= Len(cases)
    BY DEF IInv, Placed, StartMeasuring
  <2> QED BY <1>1, <2>1, <2>2, <2>3 DEF Placed, StartMeasuring
<1> QED BY <1>2, <1>3, <1>4, DoneStays DEF IInv, StartMeasuring

(* A batch begins, after a pause or without one.                            *)
LEMMA GateOpensOK ==
  ASSUME IInv, GateOpens, UNCHANGED <<cfg, cases, zones>>
  PROVE  IInv'
<1>1. num_batches' = num_batches /\ batch_size' = batch_size
  BY DEF num_batches, batch_size
<1>2. /\ cur \in Locals /\ cur' \in Locals
      /\ cur'.batch = cur.batch /\ cur'.rep = cur.rep /\ cur'.warmed = cur.warmed
      /\ cur'.measured = cur.measured /\ cur'.all_ok = cur.all_ok
      /\ cur'.naps = cur.naps
      /\ \/ cur.batch = 0 /\ cur'.rested = cur.rested
         \/ cur.batch > 0 /\ cfg.thermal_limit # NoLimit
         \/ cur.batch > 0 /\ cfg.thermal_limit = NoLimit /\ cur'.rested = cur.rested + 1
  BY DEF IInv, TypesInv, GateOpens, Locals
<1>3. TypesInv'
  BY <1>1, <1>2 DEF IInv, TypesInv, CfgOK, GateOpens
<1>4. Counted(cur)'
  BY <1>2 DEF IInv, Counted, Largest
<1>5. Placed'
  <2> DEFINE before == cur.batch * batch_size
             full   == (cur.batch + 1) * batch_size
  <2>1. /\ cur.batch \in Nat /\ cur.batch < num_batches /\ cur.rep = before
        /\ cfg.thermal_limit = NoLimit =>
             cur.rested = IF cur.batch = 0 THEN 0 ELSE cur.batch - 1
        /\ idx <= Len(cases)
    BY DEF IInv, TypesInv, Placed, GateOpens, AtGate, Locals
  <2>2. /\ batch_size \in Nat \ {0} /\ before < cfg.bench_reps /\ cfg.bench_reps \in Nat
        /\ batch_end = IF cur.batch + 1 < num_batches THEN full ELSE cfg.bench_reps
    BY <2>1, Batches, BatchEnd DEF IInv, TypesInv, CfgOK
  <2>3. full = before + batch_size /\ before \in Nat
    BY <2>1, <2>2
  <2>4. batch_end' = batch_end
    BY <1>1, <1>2 DEF batch_end
  <2> HIDE DEF before, full
  <2>5. cur.rep <= batch_end
    BY <2>1, <2>2, <2>3
  <2>6. cfg.thermal_limit = NoLimit => cur'.rested = cur.batch
    BY <1>2, <2>1 DEF Locals, NoLimit
  <2> QED BY <1>1, <1>2, <2>1, <2>4, <2>5, <2>6 DEF Placed, GateOpens, NoLimit
<1> QED BY <1>3, <1>4, <1>5, DoneStays DEF IInv, GateOpens

(* A repetition is counted, and paused after unless it was the last.        *)
LEMMA MeasureRepOK ==
  ASSUME IInv, MeasureRep, UNCHANGED <<cfg, cases, zones>>
  PROVE  IInv'
<1>1. num_batches' = num_batches /\ batch_size' = batch_size
  BY DEF num_batches, batch_size
<1>2. PICK o \in Outcomes :
        cur' = [cur EXCEPT !.measured = Append(@, o),
                           !.all_ok   = @ /\ o.ok,
                           !.rep      = @ + 1,
                           !.naps     = IF cur.rep + 1 < cfg.bench_reps THEN @ + 1 ELSE @]
  BY DEF MeasureRep
<1> DEFINE m == cur.measured
           n == cfg.bench_reps
<1>3. o \in [size: Nat, ok: BOOLEAN, us: Nat] /\ Outcomes \subseteq [size: Nat, ok: BOOLEAN, us: Nat]
  BY RunnerAssumption
<1>4. cur \in Locals /\ m \in Seq(Outcomes)
  BY DEF IInv, TypesInv, Locals
<1>5. /\ cur'.warmed = cur.warmed /\ cur'.batch = cur.batch /\ cur'.rested = cur.rested
      /\ cur'.measured = Append(m, o) /\ cur'.rep = cur.rep + 1
      /\ cur'.all_ok = (cur.all_ok /\ o.ok)
      /\ cur'.naps = IF cur.rep + 1 < n THEN cur.naps + 1 ELSE cur.naps
  BY <1>2, <1>4 DEF Locals
<1>6. cur' \in Locals
  <2>1. Append(m, o) \in Seq(Outcomes)
    BY <1>4
  <2>2. /\ cur.rep + 1 \in Nat /\ (cur.all_ok /\ o.ok) \in BOOLEAN
        /\ (IF cur.rep + 1 < n THEN cur.naps + 1 ELSE cur.naps) \in Nat
    BY <1>4 DEF Locals
  <2> QED BY <1>2, <1>4, <2>1, <2>2 DEF Locals
<1>7. /\ cur.batch \in Nat /\ cur.batch < num_batches /\ cur.rep \in Nat /\ n \in Nat
      /\ cur.rep < batch_end
  BY <1>4 DEF IInv, TypesInv, Placed, CfgOK, Locals, MeasureRep
<1>8. cur.rep < n
  <2> DEFINE full == (cur.batch + 1) * batch_size
  <2>1. /\ batch_end = IF cur.batch + 1 < num_batches THEN full ELSE n
        /\ cur.batch + 1 < num_batches => full < n
        /\ full \in Nat
    BY <1>7, Batches, BatchEnd DEF IInv, TypesInv
  <2> HIDE DEF full
  <2> QED BY <1>7, <2>1
<1>9. TypesInv'
  BY <1>1, <1>5, <1>6 DEF IInv, TypesInv, CfgOK, MeasureRep
<1>10. Counted(cur)'
  <2>1. /\ cur.rep = Len(m) /\ cur.naps = cur.rep /\ Largest(m)
        /\ cur.all_ok <=> \A j \in 1 .. Len(m) : m[j].ok
    BY <1>7, <1>8 DEF IInv, Counted
  <2>2. /\ Len(Append(m, o)) = Len(m) + 1 /\ Append(m, o)[Len(m) + 1] = o
        /\ \A j \in 1 .. Len(m) : Append(m, o)[j] = m[j]
        /\ Len(m) \in Nat /\ \A j \in 1 .. Len(m) : m[j] \in Outcomes
    BY <1>4
  <2>3. cur'.all_ok <=> \A j \in 1 .. Len(Append(m, o)) : Append(m, o)[j].ok
    <3>1. (\A j \in 1 .. Len(Append(m, o)) : Append(m, o)[j].ok)
            <=> (\A j \in 1 .. Len(m) : m[j].ok) /\ o.ok
      <4>1. 1 .. Len(Append(m, o)) = 1 .. Len(m) \cup {Len(m) + 1}
        BY <2>2
      <4> QED BY <2>2, <4>1, Zenon
    <3> QED BY <1>5, <2>1, <3>1, Zenon
  <2>4. Largest(Append(m, o))
    <3>1. CASE m = << >>
      BY <1>3, <2>2, <3>1 DEF Largest
    <3>2. CASE m # << >>
      <4>1. PICK j \in 1 .. Len(m) : \A k \in 1 .. Len(m) : m[k].size <= m[j].size
        BY <2>1, <3>2 DEF Largest
      <4>2. o.size \in Nat /\ \A k \in 1 .. Len(m) : m[k].size \in Nat
        BY <1>3, <2>2
      <4>3. 1 .. Len(Append(m, o)) = 1 .. Len(m) \cup {Len(m) + 1}
        BY <2>2
      <4>4. CASE m[j].size <= o.size
        <5>1. \A k \in 1 .. Len(m) : m[k].size <= o.size
          BY <4>1, <4>2, <4>4
        <5>2. /\ Len(m) + 1 \in 1 .. Len(Append(m, o))
              /\ \A k \in 1 .. Len(Append(m, o)) :
                   Append(m, o)[k].size <= Append(m, o)[Len(m) + 1].size
          BY <2>2, <4>2, <4>3, <5>1
        <5> QED BY <5>2 DEF Largest
      <4>5. CASE ~(m[j].size <= o.size)
        <5>1. /\ j \in 1 .. Len(Append(m, o))
              /\ \A k \in 1 .. Len(Append(m, o)) : Append(m, o)[k].size <= Append(m, o)[j].size
          BY <2>2, <4>1, <4>2, <4>3, <4>5
        <5> QED BY <5>1 DEF Largest
      <4> QED BY <4>4, <4>5
    <3> QED BY <3>1, <3>2
  <2>5. /\ cur'.rep = Len(Append(m, o)) /\ cur'.rep <= n
        /\ cur'.naps = IF cur'.rep < n \/ cur'.rep = 0 THEN cur'.rep ELSE cur'.rep - 1
    BY <1>5, <1>7, <1>8, <2>1, <2>2
  <2> QED BY <1>5, <2>3, <2>4, <2>5 DEF Counted
<1>11. Placed'
  <2>1. batch_end' = batch_end /\ batch_end \in Nat
    BY <1>1, <1>5, <1>7, Batches, BatchEnd DEF batch_end, IInv, TypesInv
  <2>2. cur'.rep <= batch_end
    BY <1>5, <1>7, <2>1
  <2> QED BY <1>1, <1>5, <2>1, <2>2 DEF IInv, Placed, MeasureRep
<1> QED BY <1>9, <1>10, <1>11, DoneStays DEF IInv, MeasureRep

(* After a batch the next gate finds it complete.                           *)
LEMMA EndBatchOK ==
  ASSUME IInv, EndBatch, UNCHANGED <<cfg, cases, zones>>
  PROVE  IInv'
<1>1. num_batches' = num_batches /\ batch_size' = batch_size
  BY DEF num_batches, batch_size
<1>2. /\ cur \in Locals /\ cur' \in Locals
      /\ cur'.batch = cur.batch + 1 /\ cur'.rep = cur.rep /\ cur'.warmed = cur.warmed
      /\ cur'.measured = cur.measured /\ cur'.all_ok = cur.all_ok
      /\ cur'.naps = cur.naps /\ cur'.rested = cur.rested
  BY DEF IInv, TypesInv, EndBatch, Locals
<1>3. /\ cur.batch \in Nat /\ cur.batch < num_batches /\ num_batches \in Nat
      /\ cur.rep \in Nat /\ cur.rep = batch_end
      /\ cfg.thermal_limit = NoLimit => cur.rested = cur.batch
      /\ idx <= Len(cases)
  <2>1. /\ CfgOK /\ cur.batch \in Nat /\ cur.batch < num_batches /\ cur.rep \in Nat
        /\ cur.rep <= batch_end /\ cur.rep >= batch_end
        /\ cfg.thermal_limit = NoLimit => cur.rested = cur.batch
        /\ idx <= Len(cases)
    BY <1>2 DEF IInv, TypesInv, Placed, Locals, EndBatch
  <2> DEFINE full == (cur.batch + 1) * batch_size
  <2>2. /\ num_batches \in Nat /\ full \in Nat /\ cfg.bench_reps \in Nat
        /\ batch_end = IF cur.batch + 1 < num_batches THEN full ELSE cfg.bench_reps
    BY <2>1, Batches, BatchEnd DEF CfgOK
  <2> HIDE DEF full
  <2>3. batch_end \in Nat
    BY <2>2
  <2> QED BY <2>1, <2>2, <2>3
<1>4. TypesInv'
  BY <1>1, <1>2, <1>3 DEF IInv, TypesInv, CfgOK, EndBatch
<1>5. Counted(cur)'
  BY <1>2 DEF IInv, Counted, Largest
<1>6. Placed'
  <2>1. /\ cur'.batch < num_batches => cur'.rep = cur'.batch * batch_size
        /\ cur'.batch = num_batches => cur'.rep = cfg.bench_reps
    BY <1>2, <1>3, BatchEnd DEF IInv, TypesInv
  <2>2. cur'.batch # 0 /\ cur'.batch - 1 = cur.batch
    BY <1>2, <1>3
  <2> QED BY <1>1, <1>2, <1>3, <2>1, <2>2 DEF Placed, EndBatch
<1> QED BY <1>4, <1>5, <1>6, DoneStays DEF IInv, EndBatch

(* A case is finished: all its repetitions are there and its result says so.*)
LEMMA FinishCaseOK ==
  ASSUME IInv, FinishCase, UNCHANGED <<cfg, cases, zones>>
  PROVE  IInv'
<1> DEFINE m == cur.measured
           n == cfg.bench_reps
<1>1. num_batches' = num_batches /\ batch_size' = batch_size
  BY DEF num_batches, batch_size
<1>2. /\ m \in Seq(Outcomes) /\ m # << >> /\ cur \in Locals
      /\ Len(m) \in Nat /\ Len(m) > 0 /\ \A j \in 1 .. Len(m) : m[j].size \in Nat
      /\ idx \in Nat \ {0} /\ idx <= Len(cases) /\ Len(cases) \in Nat
  <2>1. m \in Seq(Outcomes) /\ m # << >> /\ cur \in Locals
    BY DEF IInv, TypesInv, Locals, FinishCase
  <2>2. Len(m) \in Nat /\ Len(m) > 0 /\ \A j \in 1 .. Len(m) : m[j] \in Outcomes
    BY <2>1
  <2>3. \A j \in 1 .. Len(m) : m[j].size \in Nat
    BY <2>2, RunnerAssumption
  <2>4. idx \in Nat \ {0} /\ idx <= Len(cases) /\ Len(cases) \in Nat
    BY DEF IInv, TypesInv, FinishCase, Placed, Done, CfgOK
  <2> QED BY <2>1, <2>2, <2>3, <2>4
<1>3. /\ cur.batch = num_batches /\ num_batches \in Nat \ {0}
      /\ Len(m) = n /\ cur.naps = n - 1
      /\ cfg.thermal_limit = NoLimit => cur.rested = num_batches - 1
  <2>1. /\ CfgOK /\ cur.batch <= num_batches /\ cur.batch >= num_batches
        /\ cur.batch \in Nat /\ n \in Nat
    BY <1>2 DEF IInv, TypesInv, CfgOK, FinishCase, Locals
  <2>2. /\ batch_size \in Nat /\ num_batches \in Nat
        /\ 0 >= num_batches => 0 * batch_size >= n
    BY <2>1, Batches
  <2>3. cur.batch = num_batches
    BY <2>1, <2>2
  <2>4. /\ cur.rep = n /\ cur.rep = Len(m)
        /\ cur.naps = IF cur.rep < n \/ cur.rep = 0 THEN cur.rep ELSE cur.rep - 1
        /\ cfg.thermal_limit = NoLimit =>
             cur.rested = IF cur.batch = 0 THEN 0 ELSE cur.batch - 1
    BY <2>3 DEF IInv, Counted, Placed, FinishCase
  <2>5. num_batches # 0
    <3>1. 0 * batch_size = 0
      BY <2>2
    <3> QED BY <1>2, <2>1, <2>2, <2>4, <3>1
  <2>6. Len(m) = n /\ cur.naps = n - 1
    <3>1. Len(m) = n /\ n \in Nat /\ n # 0 /\ ~(n < n)
      BY <1>2, <2>1, <2>4
    <3> QED BY <2>4, <3>1
  <2> QED BY <2>2, <2>3, <2>4, <2>5, <2>6
<1> DEFINE sizes == { m[i].size : i \in DOMAIN m }
<1>4. /\ \A j \in 1 .. Len(m) : m[j].size <= Max(sizes)
      /\ \E j \in 1 .. Len(m) : m[j].size = Max(sizes)
  <2>1. DOMAIN m = 1 .. Len(m)
    BY <1>2
  <2>2. PICK j \in 1 .. Len(m) : \A k \in 1 .. Len(m) : m[k].size <= m[j].size
    BY <1>2 DEF IInv, Counted, Largest
  <2>3. sizes \in SUBSET Int /\ m[j].size \in sizes /\ \A y \in sizes : y <= m[j].size
    BY <1>2, <2>1, <2>2
  <2>4. Max(sizes) \in sizes /\ \A y \in sizes : y <= Max(sizes)
    BY <2>3, MaxIsLargest
  <2> QED BY <2>1, <2>4
<1> DEFINE r == [ name         |-> cases[idx],
                  stats        |-> from_durations(durations),
                  samples      |-> ascending[[i \in DOMAIN durations |-> r2(durations[i])]],
                  proof_bytes  |-> Max(sizes),
                  all_verified |-> cur.all_ok ]
<1>5. /\ r.name = cases[idx] /\ r.proof_bytes = Max(sizes) /\ r.all_verified = cur.all_ok
      /\ results' = Append(results, r) /\ log' = Append(log, cur)
      /\ idx' = idx + 1 /\ cur' = Fresh /\ pc' = "warmup"
  BY DEF FinishCase
<1> HIDE DEF r, sizes
<1>6. /\ IsSeq(results') /\ Len(results') = idx /\ results'[idx] = r
      /\ \A i \in 1 .. (idx - 1) : results'[i] = results[i]
  <2>1. PICK S : results \in Seq(S)
    BY DEF IInv, Done, IsSeq
  <2>2. results \in Seq(S \cup {r})
    BY <2>1
  <2>3. results' \in Seq(S \cup {r})
    BY <1>5, <2>2
  <2> QED BY <1>2, <1>5, <2>2, <2>3 DEF IsSeq, IInv, Done
<1>7. /\ IsSeq(log') /\ Len(log') = idx /\ log'[idx] = cur
      /\ \A i \in 1 .. (idx - 1) : log'[i] = log[i]
  <2>1. PICK S : log \in Seq(S)
    BY DEF IInv, Done, IsSeq
  <2>2. log \in Seq(S \cup {cur})
    BY <2>1
  <2>3. log' \in Seq(S \cup {cur})
    BY <1>5, <2>2
  <2> QED BY <1>2, <1>5, <2>2, <2>3 DEF IsSeq, IInv, Done
<1> PICK last : last = idx
  OBVIOUS
<1>8. Finished(last)'
  <2>1. cur.all_ok <=> \A j \in 1 .. Len(m) : m[j].ok
    BY DEF IInv, Counted
  <2>2. results'[last] = r /\ log'[last] = cur /\ cases[last] = cases[idx]
    BY <1>6, <1>7
  <2>4. DescribedBy(r, cur)
    <3>1. /\ durations \in Seq(Nat) /\ Len(durations) # 0
          /\ durations = [j \in DOMAIN cur.measured |-> cur.measured[j].us]
      <4>1. \A j \in DOMAIN m : m[j].us \in Nat
        BY <1>2, RunnerAssumption
      <4> QED BY <1>2, <4>1 DEF durations
    <3>2. DOMAIN durations = 1 .. Len(durations)
      BY <3>1
    <3> DEFINE rs == [i \in DOMAIN durations |-> r2(durations[i])]
    <3>3. Describes(from_durations(durations), ascending[rs], durations)
      BY <3>1, StatisticsDescribe
    <3>4. r.stats = from_durations(durations) /\ r.samples = ascending[rs]
      BY DEF r
    <3> QED BY <3>1, <3>3, <3>4 DEF DescribedBy
  <2>3. /\ results'[last].name = cases[last]
        /\ results'[last].proof_bytes = Max(sizes)
        /\ results'[last].all_verified = cur.all_ok
        /\ log'[last].measured = m /\ log'[last].naps = cur.naps
        /\ log'[last].rested = cur.rested
    BY <1>5, <2>2
  <2> HIDE DEF m
  <2> QED BY <1>1, <1>2, <1>3, <1>4, <2>1, <2>2, <2>3, <2>4 DEF Finished, NoLimit
<1>9. ASSUME NEW i \in 1 .. (idx - 1)
      PROVE  Finished(i)'
  <2>1. Finished(i)
    BY DEF IInv, Done
  <2> QED BY <1>1, <1>6, <1>7, <2>1 DEF Finished, NoLimit
<1>10. Done'
  <2>1. \A i \in 1 .. (idx' - 1) : Finished(i)'
    <3>1. 1 .. (idx' - 1) = 1 .. (idx - 1) \cup {last}
      BY <1>2, <1>5
    <3> QED BY <1>8, <1>9, <3>1
  <2>2. idx' \in 1 .. (Len(cases') + 1) /\ idx' - 1 = idx
    BY <1>2, <1>5
  <2> QED BY <1>6, <1>7, <2>1, <2>2 DEF Done
<1>11. TypesInv'
  BY <1>1, <1>3, <1>5 DEF IInv, TypesInv, CfgOK, Locals, Fresh
<1>12. Counted(cur)'
  BY <1>5 DEF IInv, TypesInv, CfgOK, Counted, Largest, Fresh
<1>13. Placed'
  BY <1>5 DEF Placed, Fresh
<1> QED BY <1>10, <1>11, <1>12, <1>13 DEF IInv

(* The steps that change where run() is and nothing it has counted.         *)
LEMMA StopsOK ==
  ASSUME IInv, NoSamples \/ Return, UNCHANGED <<cfg, cases, zones>>
  PROVE  IInv'
<1>1. num_batches' = num_batches
  BY DEF num_batches, batch_size
<1>2. /\ UNCHANGED <<idx, cur, results, log>> /\ pc' \in {"panicked", "finished"}
  BY DEF NoSamples, Return
<1>3. TypesInv'
  BY <1>1, <1>2 DEF IInv, TypesInv, CfgOK
<1>4. Counted(cur)'
  BY <1>2 DEF IInv, Counted, Largest
<1>5. Placed'
  BY <1>2 DEF Placed
<1> QED BY <1>2, <1>3, <1>4, <1>5, DoneStays DEF IInv

(* Time passes at the gate, the temperature moves, or nothing happens.      *)
LEMMA StuttersOK ==
  ASSUME IInv, UNCHANGED <<cfg, cases, runVars>>,
         zones' \in [Zones -> RawReadings \cup {Unreadable}]
  PROVE  IInv'
<1>1. num_batches' = num_batches /\ batch_size' = batch_size /\ batch_end' = batch_end
  BY DEF num_batches, batch_size, batch_end, runVars
<1>2. TypesInv'
  BY <1>1 DEF IInv, TypesInv, CfgOK, runVars
<1>3. Counted(cur)'
  BY DEF IInv, Counted, Largest, runVars
<1>4. Placed'
  BY <1>1 DEF IInv, Placed, runVars
<1> QED BY <1>2, <1>3, <1>4, DoneStays DEF IInv, runVars

(* Every step of the runner or the phone keeps what the locals count.       *)
LEMMA NextOK == IInv /\ [Next]_vars => IInv'
<1> SUFFICES ASSUME IInv, [Next]_vars PROVE IInv'
  OBVIOUS
<1>1. CASE WarmUp /\ UNCHANGED <<cfg, cases, zones>>
  BY <1>1, WarmUpOK
<1>2. CASE StartMeasuring /\ UNCHANGED <<cfg, cases, zones>>
  BY <1>2, StartMeasuringOK
<1>3. CASE GateOpens /\ UNCHANGED <<cfg, cases, zones>>
  BY <1>3, GateOpensOK
<1>4. CASE WaitToCool /\ UNCHANGED <<cfg, cases, zones>>
  BY <1>4, StuttersOK DEF WaitToCool, IInv, TypesInv
<1>5. CASE MeasureRep /\ UNCHANGED <<cfg, cases, zones>>
  BY <1>5, MeasureRepOK
<1>6. CASE EndBatch /\ UNCHANGED <<cfg, cases, zones>>
  BY <1>6, EndBatchOK
<1>7. CASE (NoSamples \/ Return) /\ UNCHANGED <<cfg, cases, zones>>
  BY <1>7, StopsOK
<1>8. CASE FinishCase /\ UNCHANGED <<cfg, cases, zones>>
  BY <1>8, FinishCaseOK
<1>9. CASE TempChanges
  BY <1>9, StuttersOK DEF TempChanges
<1>10. CASE UNCHANGED vars
  BY <1>10, StuttersOK DEF vars, IInv, TypesInv
<1> QED BY <1>1, <1>2, <1>3, <1>4, <1>5, <1>6, <1>7, <1>8, <1>9, <1>10 DEF Next, RunStep

(* The inductive invariant: the locals count what was measured, and the     *)
(* place in the loops tells how much that is.                               *)
THEOREM Invariance == Spec => []IInv
BY InitOK, NextOK, PTL DEF Spec

-----------------------------------------------------------------------------
(* What the invariant says of the runner, wherever it holds.                *)
(* The ranges of the loop variables.                                        *)
LEMMA WellTyped == IInv => RunTypeOK
<1> SUFFICES ASSUME IInv PROVE RunTypeOK
  OBVIOUS
<1>1. num_batches \in Nat /\ cfg.warmup_reps \in Nat /\ cfg.bench_reps \in Nat
  BY Batches DEF IInv, TypesInv, CfgOK
<1> QED BY <1>1 DEF IInv, TypesInv, Locals, Counted, Done, RunTypeOK

(* What a result stands for.                                                *)
LEMMA ResultsStand == IInv => ResultsFaithful
<1> SUFFICES ASSUME IInv, NEW i \in 1 .. Len(results)
             PROVE  /\ results[i].name = cases[i]
                    /\ Len(log[i].measured) = cfg.bench_reps
                    /\ results[i].all_verified
                         <=> \A j \in DOMAIN log[i].measured : log[i].measured[j].ok
                    /\ \A j \in DOMAIN log[i].measured :
                         log[i].measured[j].size <= results[i].proof_bytes
                    /\ \E j \in DOMAIN log[i].measured :
                         log[i].measured[j].size = results[i].proof_bytes
  BY DEF ResultsFaithful
<1>1. Finished(i)
  BY DEF IInv, Done
<1>2. DOMAIN log[i].measured = 1 .. Len(log[i].measured)
  BY <1>1 DEF Finished
<1> QED BY <1>1, <1>2 DEF Finished

(* What its statistics tell.                                                *)
LEMMA StatsTell == IInv => StatsDescribeSamples
<1> SUFFICES ASSUME IInv, NEW i \in 1 .. Len(results)
             PROVE  Describes(results[i].stats, results[i].samples,
                              [j \in DOMAIN log[i].measured |-> log[i].measured[j].us])
  BY DEF StatsDescribeSamples
<1>1. Finished(i)
  BY DEF IInv, Done
<1> QED BY <1>1 DEF Finished, DescribedBy

(* There is work at the gate.                                               *)
LEMMA WorkAtGate == IInv => NoIdleGate
<1> SUFFICES ASSUME IInv, AtGate
             PROVE  cur.rep = cur.batch * batch_size /\ cur.rep < cfg.bench_reps
  BY DEF NoIdleGate
<1>1. cur.batch \in Nat /\ cur.batch < num_batches
  BY DEF IInv, TypesInv, Locals, AtGate
<1>2. cur.rep = cur.batch * batch_size
  BY <1>1 DEF IInv, Placed, AtGate
<1> QED BY <1>1, <1>2, Batches DEF IInv, TypesInv

(* The pauses of a finished case.                                           *)
LEMMA PausesCounted == IInv => PausesAddUp
<1> SUFFICES ASSUME IInv, NEW i \in 1 .. Len(log)
             PROVE  /\ log[i].naps = Len(log[i].measured) - 1
                    /\ cfg.thermal_limit = NoLimit => log[i].rested = num_batches - 1
  BY DEF PausesAddUp
<1>1. Finished(i)
  BY DEF IInv, Done
<1> QED BY <1>1 DEF Finished

(* runner.rs:116-208: the loop variables, the vectors and the results keep  *)
(* their types, for any configuration that does not wrap.                   *)
THEOREM TypeCorrect == Spec => []RunTypeOK
BY WellTyped, Invariance, PTL

(* types.rs:90: a result stands for bench_reps timed repetitions of its own *)
(* case and is verified iff every one of them was.                          *)
THEOREM Faithful == Spec => []ResultsFaithful
BY ResultsStand, Invariance, PTL

(* types.rs:46-67: what a finished case reports describes the durations that *)
(* were measured: the samples are those durations, rounded and sorted, the   *)
(* extremes and percentiles are samples and the mean lies between.           *)
THEOREM StatsDescribe == Spec => []StatsDescribeSamples
BY StatsTell, Invariance, PTL

(* runner.rs:143-158: before every batch the earlier ones are complete and  *)
(* there is work left, whatever the total and the batch size.               *)
THEOREM GateHasWork == Spec => []NoIdleGate
BY WorkAtGate, Invariance, PTL

(* runner.rs:144-166: a finished case slept between any two repetitions and *)
(* between any two batches, and not after the last of either.               *)
THEOREM Pauses == Spec => []PausesAddUp
BY PausesCounted, Invariance, PTL

-----------------------------------------------------------------------------
(* main(), for any command line and any defaults.                           *)

(* A result for each case of the suite that is done, under its name.        *)
Named ==
  /\ pc \in {"warmup", "gate", "reps", "finished", "panicked"}
  /\ idx \in 1 .. (Len(cases) + 1)
  /\ IsSeq(results) /\ Len(results) = idx - 1
  /\ \A i \in 1 .. (idx - 1) : results[i].name = cases[i]
  /\ pc \in {"gate", "reps"} => idx <= Len(cases)
  /\ pc = "finished" => idx = Len(cases) + 1

(* A step of the runner finishes the case it is at, or none.                *)
LEMMA RunKeepsNamed ==
  ASSUME Named, Len(cases) \in Nat, RunStep
  PROVE  Named' /\ cases' = cases
<1>1. cases' = cases
  BY DEF RunStep
<1>2. CASE WarmUp
  BY <1>1, <1>2 DEF Named, WarmUp
<1>3. CASE StartMeasuring
  BY <1>1, <1>3 DEF Named, StartMeasuring
<1>4. CASE GateOpens
  BY <1>1, <1>4 DEF Named, GateOpens, AtGate
<1>5. CASE WaitToCool
  BY <1>1, <1>5 DEF Named, WaitToCool, runVars
<1>6. CASE MeasureRep
  BY <1>1, <1>6 DEF Named, MeasureRep
<1>7. CASE EndBatch
  BY <1>1, <1>7 DEF Named, EndBatch
<1>8. CASE NoSamples
  BY <1>1, <1>8 DEF Named, NoSamples
<1>9. CASE Return
  BY <1>1, <1>9 DEF Named, Return
<1>10. CASE FinishCase
  <2>1. PICK r : results' = Append(results, r) /\ r.name = cases[idx]
    <3> DEFINE m == cur.measured
               us == durations
               r  == [ name         |-> cases[idx],
                       stats        |-> from_durations(us),
                       samples      |-> ascending[
                                          [i \in DOMAIN us |-> r2(us[i])]],
                       proof_bytes  |-> Max({ m[i].size : i \in DOMAIN m }),
                       all_verified |-> cur.all_ok ]
    <3>1. results' = Append(results, r)
      BY <1>10 DEF FinishCase
    <3>2. r.name = cases[idx]
      OBVIOUS
    <3> QED BY <3>1, <3>2
  <2>2. PICK S : results \in Seq(S)
    BY DEF Named, IsSeq
  <2>3. results \in Seq(S \cup {r}) /\ results' \in Seq(S \cup {r})
    BY <2>1, <2>2
  <2>4. /\ pc = "gate" /\ pc' = "warmup" /\ idx' = idx + 1
        /\ idx \in Nat \ {0} /\ idx <= Len(cases) /\ Len(results) = idx - 1
    BY <1>10 DEF Named, FinishCase
  <2>5. /\ Len(results') = idx /\ results'[idx] = r
        /\ \A i \in 1 .. (idx - 1) : results'[i] = results[i]
    BY <2>1, <2>3, <2>4
  <2>6. \A i \in 1 .. idx : results'[i].name = cases[i]
    <3> SUFFICES ASSUME NEW i \in 1 .. idx PROVE results'[i].name = cases[i]
      OBVIOUS
    <3>1. i = idx \/ i \in 1 .. (idx - 1)
      BY <2>4
    <3> QED BY <2>1, <2>5, <3>1 DEF Named
  <2> QED BY <1>1, <2>3, <2>4, <2>5, <2>6 DEF Named, IsSeq
<1> QED BY <1>2, <1>3, <1>4, <1>5, <1>6, <1>7, <1>8, <1>9, <1>10, <1>1
        DEF RunStep

(* Sequences one after another.                                             *)
LEMMA Flattened ==
  ASSUME NEW S, NEW ss \in Seq(Seq(S)), Len(ss) # 0
  PROVE  FlattenSeq(ss) \in Seq(S)
<1> DEFINE N == Len(ss)
           G == [q \in Seq(S) \X (1 .. N) |-> IF q[2] = 1 THEN ss[1] ELSE q[1] \o ss[q[2]]]
           IsRec(d) == d = [n \in 1 .. N |-> IF n = 1 THEN ss[n] ELSE d[n - 1] \o ss[n]]
<1>1. N \in Nat \ {0} /\ \A n \in 1 .. N : ss[n] \in Seq(S)
  OBVIOUS
<1>2. \A a \in Seq(S), n \in 1 .. N : a \o ss[n] \in Seq(S)
  BY <1>1
<1>3. G \in [Seq(S) \X (1 .. N) -> Seq(S)]
  BY <1>1, <1>2
<1>4. \A a \in Seq(S), n \in 1 .. N : G[<<a, n>>] = IF n = 1 THEN ss[1] ELSE a \o ss[n]
  OBVIOUS
<1>5. << >> \in Seq(S)
  OBVIOUS
<1>6. FlattenSeq(ss) = (CHOOSE d : IsRec(d))[N]
  BY <1>1 DEF FlattenSeq
<1> HIDE DEF G, N
<1>7. PICK g : Steps(g, N, Seq(S), << >>, G)
  BY <1>1, <1>3, <1>5, Recursion
<1> DEFINE h == [n \in 1 .. N |-> g[n]]
<1>8. IsRec(h)
  <2>1. \A n \in 1 .. N : n # 1 => n - 1 \in 1 .. N
    BY <1>1
  <2>2. \A n \in 1 .. N : g[n] = G[<<g[n - 1], n>>] /\ g[n - 1] \in Seq(S)
    <3>1. \A n \in 1 .. N : n - 1 \in 0 .. N
      BY <1>1
    <3> QED BY <1>7, <3>1 DEF Steps
  <2>3. \A n \in 1 .. N : g[n] = IF n = 1 THEN ss[1] ELSE g[n - 1] \o ss[n]
    BY <1>4, <2>2
  <2> QED BY <2>1, <2>3
<1> DEFINE d == CHOOSE f : IsRec(f)
<1>9. IsRec(d)
  <2>1. \E f : IsRec(f)
    BY <1>8
  <2> HIDE DEF IsRec, h
  <2> QED BY <2>1
<1> HIDE DEF d
<1>10. d[1] = ss[1] /\ \A n \in 2 .. N : d[n] = d[n - 1] \o ss[n]
  <2> DEFINE e == [n \in 1 .. N |-> IF n = 1 THEN ss[n] ELSE d[n - 1] \o ss[n]]
  <2>1. d = e
    BY <1>9
  <2>2. 1 \in 1 .. N /\ \A n \in 2 .. N : n \in 1 .. N /\ n # 1
    BY <1>1
  <2>3. e[1] = ss[1] /\ \A n \in 2 .. N : e[n] = d[n - 1] \o ss[n]
    BY <2>2
  <2> HIDE DEF e
  <2> QED BY <2>1, <2>3
<1> DEFINE T == { n \in 0 .. N : n = 0 \/ d[n] \in Seq(S) }
<1>11. 0 \in T
  BY <1>1
<1>12. \A n \in 0 .. (N - 1) : n \in T => n + 1 \in T
  <2> SUFFICES ASSUME NEW n \in 0 .. (N - 1), n \in T PROVE n + 1 \in T
    OBVIOUS
  <2>1. n + 1 \in 0 .. N /\ n + 1 \in 1 .. N /\ (n + 1) - 1 = n
    BY <1>1
  <2>2. CASE n = 0
    BY <1>1, <1>10, <2>1, <2>2
  <2>3. CASE n # 0
    <3>1. d[n + 1] = d[n] \o ss[n + 1] /\ d[n] \in Seq(S)
      <4>1. n + 1 \in 2 .. N
        BY <2>1, <2>3
      <4> QED BY <1>10, <2>1, <2>3, <4>1
    <3> QED BY <1>2, <2>1, <3>1
  <2> QED BY <2>2, <2>3
<1> HIDE DEF T
<1>13. N \in T
  <2>1. \A n \in 0 .. N : n \in T
    BY <1>1, <1>11, <1>12, UpTo
  <2> QED BY <1>1, <2>1
<1> QED BY <1>1, <1>6, <1>13 DEF T, d

(* Cases of categories in C, those of one category next to each other.      *)
InBlocks(c, C) ==
  /\ IsSeq(c)
  /\ \A i \in 1 .. Len(c) : c[i].category \in C
  /\ \A i, j, k \in 1 .. Len(c) :
       i < j /\ j < k /\ c[i].category = c[k].category => c[j].category = c[i].category

(* What was registered, without the names that --only knows it by.          *)
Cases(c) == [i \in 1 .. Len(c) |-> c[i].case]

(* One sequence after another.                                              *)
LEMMA Concatenated ==
  ASSUME NEW c, NEW d, IsSeq(c), IsSeq(d)
  PROVE  /\ IsSeq(c \o d) /\ Len(c) \in Nat /\ Len(d) \in Nat
         /\ Len(c \o d) = Len(c) + Len(d) /\ DOMAIN c = 1 .. Len(c)
         /\ \A i \in 1 .. Len(c) : (c \o d)[i] = c[i]
         /\ \A i \in 1 .. Len(d) : (c \o d)[Len(c) + i] = d[i]
         /\ \A i \in 1 .. (Len(c) + Len(d)) :
              i \in 1 .. Len(c) \/ i - Len(c) \in 1 .. Len(d)
<1>1. PICK S : c \in Seq(S)
  BY DEF IsSeq
<1>2. PICK T : d \in Seq(T)
  BY DEF IsSeq
<1>3. c \in Seq(S \cup T) /\ d \in Seq(S \cup T)
  BY <1>1, <1>2
<1>4. c \o d \in Seq(S \cup T)
  BY <1>3
<1> QED BY <1>3, <1>4 DEF IsSeq

(* Blocks stay blocks when others are put after them.                       *)
LEMMA Joined ==
  ASSUME NEW c, NEW d, NEW C, NEW D, InBlocks(c, C), InBlocks(d, D), C \cap D = {}
  PROVE  InBlocks(c \o d, C \cup D)
<1> DEFINE e == c \o d
           m == Len(c)
           n == Len(d)
<1>1. /\ IsSeq(e) /\ m \in Nat /\ n \in Nat /\ Len(e) = m + n
      /\ \A i \in 1 .. m : e[i] = c[i]
      /\ \A i \in 1 .. n : e[m + i] = d[i]
      /\ \A i \in 1 .. (m + n) : i \in 1 .. m \/ i - m \in 1 .. n
  BY Concatenated DEF InBlocks
<1> HIDE DEF e
<1>2. /\ \A i \in 1 .. m : e[i].category \in C
      /\ \A i, j, k \in 1 .. m :
           i < j /\ j < k /\ e[i].category = e[k].category => e[j].category = e[i].category
  <2>1. \A i \in 1 .. m : e[i].category = c[i].category
    BY <1>1
  <2> HIDE DEF m
  <2>2. /\ \A i \in 1 .. m : c[i].category \in C
        /\ \A i, j, k \in 1 .. m :
             i < j /\ j < k /\ c[i].category = c[k].category => c[j].category = c[i].category
    BY DEF InBlocks, m
  <2> QED BY <2>1, <2>2
<1>3. ASSUME NEW i \in (m + 1) .. (m + n)
      PROVE  i - m \in 1 .. n /\ e[i] = d[i - m] /\ e[i].category \in D
  <2>1. i - m \in 1 .. n /\ m + (i - m) = i
    BY <1>1
  <2>2. e[i] = d[i - m]
    BY <1>1, <2>1
  <2> QED BY <2>1, <2>2 DEF InBlocks
<1>4. \A i, j, k \in (m + 1) .. (m + n) :
        i < j /\ j < k /\ e[i].category = e[k].category => e[j].category = e[i].category
  <2> SUFFICES ASSUME NEW i \in (m + 1) .. (m + n), NEW j \in (m + 1) .. (m + n),
                      NEW k \in (m + 1) .. (m + n),
                      i < j, j < k, e[i].category = e[k].category
               PROVE  e[j].category = e[i].category
    OBVIOUS
  <2>1. i - m < j - m /\ j - m < k - m
    BY <1>1
  <2>2. d[i - m].category = d[k - m].category
    BY <1>3
  <2>3. d[j - m].category = d[i - m].category
    BY <1>3, <2>1, <2>2 DEF InBlocks
  <2> QED BY <1>3, <2>3
<1> HIDE DEF m, n
<1>5. \A i \in 1 .. (m + n) : i \in 1 .. m \/ i \in (m + 1) .. (m + n)
  BY <1>1
<1>6. \A i \in 1 .. (m + n) : e[i].category \in C \cup D
  BY <1>2, <1>3, <1>5
<1>7. \A i, j, k \in 1 .. (m + n) :
        i < j /\ j < k /\ e[i].category = e[k].category => e[j].category = e[i].category
  <2> SUFFICES ASSUME NEW i \in 1 .. (m + n), NEW j \in 1 .. (m + n), NEW k \in 1 .. (m + n),
                      i < j, j < k, e[i].category = e[k].category
               PROVE  e[j].category = e[i].category
    OBVIOUS
  <2>1. CASE k \in 1 .. m
    <3>1. i \in 1 .. m /\ j \in 1 .. m
      BY <1>1, <2>1
    <3> QED BY <1>2, <2>1, <3>1
  <2>2. CASE i \in (m + 1) .. (m + n)
    <3>1. j \in (m + 1) .. (m + n) /\ k \in (m + 1) .. (m + n)
      BY <1>1, <2>2
    <3> QED BY <1>4, <2>2, <3>1
  <2>3. CASE i \in 1 .. m /\ k \in (m + 1) .. (m + n)
    BY <1>2, <1>3, <2>3
  <2> QED BY <1>5, <2>1, <2>2, <2>3
<1> QED BY <1>1, <1>6, <1>7 DEF InBlocks, e

(* The same for cases of the one category they have in common.              *)
LEMMA JoinedSame ==
  ASSUME NEW c, NEW d, NEW x, InBlocks(c, {x}), InBlocks(d, {x})
  PROVE  InBlocks(c \o d, {x})
<1> DEFINE e == c \o d
           m == Len(c)
           n == Len(d)
<1>1. /\ IsSeq(e) /\ m \in Nat /\ n \in Nat /\ Len(e) = m + n
      /\ \A i \in 1 .. m : e[i] = c[i]
      /\ \A i \in 1 .. n : e[m + i] = d[i]
      /\ \A i \in 1 .. (m + n) : i \in 1 .. m \/ i - m \in 1 .. n
  BY Concatenated DEF InBlocks
<1> HIDE DEF e
<1>2. \A i \in 1 .. (m + n) : e[i].category = x
  <2> SUFFICES ASSUME NEW i \in 1 .. (m + n) PROVE e[i].category = x
    OBVIOUS
  <2>1. CASE i \in 1 .. m
    BY <1>1, <2>1 DEF InBlocks
  <2>2. CASE i - m \in 1 .. n
    <3>1. m + (i - m) = i
      BY <1>1
    <3>2. e[i] = d[i - m]
      BY <1>1, <2>2, <3>1
    <3> QED BY <2>2, <3>2 DEF InBlocks
  <2> QED BY <1>1, <2>1, <2>2
<1> QED BY <1>1, <1>2 DEF InBlocks, e


(* Every category is registered in one go.                                  *)
LEMMA CatalogueInBlocks ==
  /\ IsSeq(Catalogue)
  /\ InBlocks(Cases(Catalogue), {"KB21-Adaptive", "KB21-NonAdaptive", "CL-RSA-B",
                                 "BBS-BP", "ECDSA-LF"})
<1>1. ASSUME NEW c, NEW S, c \in Seq(S), NEW x, \A y \in S : y.category = x
      PROVE  InBlocks(c, {x})
  <2>1. \A i \in 1 .. Len(c) : c[i] \in S
    BY <1>1
  <2>2. \A i \in 1 .. Len(c) : c[i].category = x
    BY <1>1, <2>1
  <2>3. IsSeq(c)
    BY <1>1 DEF IsSeq
  <2> QED BY <2>2, <2>3 DEF InBlocks
<1>2. ASSUME NEW ks, NEW category, NEW name, NEW phse, IsSeq(ks)
      PROVE  InBlocks(ForEach(ks, category, name, phse), {category})
  <2>1. PICK S : ks \in Seq(S)
    BY <1>2 DEF IsSeq
  <2> DEFINE T == { Case(category, name, phse, ks[i]) : i \in DOMAIN ks }
  <2>2. ForEach(ks, category, name, phse) \in Seq(T)
    BY <2>1 DEF ForEach
  <2>3. \A y \in T : y.category = category
    BY DEF Case
  <2> HIDE DEF T
  <2> QED BY <1>1, <2>2, <2>3
<1>3. ASSUME NEW category, NEW name, NEW phse, NEW k, NEW namf, NEW phsf, NEW l
      PROVE  InBlocks(<< Case(category, name, phse, k), Case(category, namf, phsf, l) >>,
                      {category})
  <2> DEFINE x == Case(category, name, phse, k)
             y == Case(category, namf, phsf, l)
  <2>1. x.category = category /\ y.category = category
    BY DEF Case
  <2> HIDE DEF x, y
  <2>2. << x, y >> \in Seq({x, y})
    OBVIOUS
  <2>3. \A z \in {x, y} : z.category = category
    BY <2>1
  <2> DEFINE c == << x, y >>
             S == {x, y}
  <2>4. c \in Seq(S) /\ \A z \in S : z.category = category
    BY <2>2, <2>3
  <2> HIDE DEF c, S
  <2>5. InBlocks(c, {category})
    BY <1>1, <2>4
  <2> QED BY <2>5 DEF x, y, c
<1>4. IsSeq(DEL_BATCH)
  <2>1. DEL_BATCH \in Seq(Nat)
    BY DEF DEL_BATCH
  <2> QED BY <2>1 DEF IsSeq
<1>5. ASSUME NEW prove, NEW verify, NEW k
      PROVE  InBlocks(Part(prove, verify, k), {"BBS-BP"})
  BY <1>3 DEF Part
<1>6. InBlocks(bitwidth_sweep, {"BBS-BP"})
  <2> DEFINE w     == BPP_BIT_WIDTHS
             P(k)  == Part("bpp_aggregate_bitwidth_prove",
                          "bpp_aggregate_bitwidth_verify", k)
             parts == [i \in DOMAIN w |-> P(w[i])]
             T     == { P(w[i])[1] : i \in 1 .. 5 } \cup { P(w[i])[2] : i \in 1 .. 5 }
  <2>1. DOMAIN w = 1 .. 5
    BY DEF BPP_BIT_WIDTHS
  <2>2. \A i \in 1 .. 5 : P(w[i]) \in Seq(T)
    <3> SUFFICES ASSUME NEW i \in 1 .. 5 PROVE P(w[i]) \in Seq(T)
      OBVIOUS
    <3> DEFINE x == P(w[i])[1]
               y == P(w[i])[2]
    <3>1. P(w[i]) = << x, y >>
      BY DEF Part
    <3>2. x \in T /\ y \in T
      OBVIOUS
    <3> HIDE DEF x, y, T, P, w
    <3> QED BY <3>1, <3>2
  <2>3. bitwidth_sweep = FlattenSeq(parts)
    BY DEF bitwidth_sweep
  <2>4. \A y \in T : y.category = "BBS-BP"
    <3>1. \A k : P(k)[1].category = "BBS-BP" /\ P(k)[2].category = "BBS-BP"
      BY DEF Part, Case
    <3> HIDE DEF P
    <3> QED BY <3>1
  <2> HIDE DEF w, P, T
  <2>5. parts \in Seq(Seq(T)) /\ Len(parts) # 0
    BY <2>1, <2>2
  <2> HIDE DEF parts
  <2>6. FlattenSeq(parts) \in Seq(T)
    BY <2>5, Flattened, Zenon
  <2>7. InBlocks(FlattenSeq(parts), {"BBS-BP"})
    BY <1>1, <2>4, <2>6
  <2> QED BY <2>3, <2>7
<1> DEFINE A == {"KB21-Adaptive"}
           B == {"KB21-NonAdaptive"}
<1>7. InBlocks(kb21_adaptive, A) /\ InBlocks(kb21_non_adaptive, B)
  BY <1>2, <1>3, <1>4, JoinedSame DEF kb21_adaptive, kb21_non_adaptive
<1>8. InBlocks(kb21, A \cup B)
  BY <1>7, Joined DEF kb21
<1>9. InBlocks(clrsab, {"CL-RSA-B"})
  BY <1>2, <1>3, <1>4, JoinedSame DEF clrsab
<1>10. InBlocks(bbsbpp, {"BBS-BP"})
  BY <1>2, <1>4, <1>5, <1>6, JoinedSame DEF bbsbpp
<1>11. InBlocks(ecdsa, {"ECDSA-LF"})
  BY <1>2, <1>4 DEF ecdsa
<1>12. ASSUME NEW c, NEW mech, IsSeq(c)
       PROVE  IsSeq(Of(mech, c)) /\ Cases(Of(mech, c)) = c
  <2>1. PICK S : c \in Seq(S)
    BY <1>12 DEF IsSeq
  <2> DEFINE u == Of(mech, c)
             T == [mech: {mech}, case: S]
  <2>2. u \in Seq(T) /\ Len(u) = Len(c) /\ \A i \in 1 .. Len(c) : u[i].case = c[i]
    <3>1. /\ DOMAIN c = 1 .. Len(c) /\ Len(c) \in Nat
          /\ \A i \in 1 .. Len(c) : c[i] \in S
      BY <2>1
    <3>2. u = [i \in 1 .. Len(c) |-> [mech |-> mech, case |-> c[i]]]
      BY <3>1 DEF Of
    <3>3. u \in [1 .. Len(c) -> T]
      BY <3>1, <3>2
    <3>4. \A i \in 1 .. Len(c) : u[i].case = c[i]
      BY <3>2
    <3> HIDE DEF u, T
    <3> QED BY <3>1, <3>3, <3>4
  <2> HIDE DEF u, T
  <2>3. Cases(u) = [i \in 1 .. Len(c) |-> c[i]]
    BY <2>2 DEF Cases
  <2>4. c = [i \in 1 .. Len(c) |-> c[i]]
    BY <2>1
  <2> QED BY <2>2, <2>3, <2>4 DEF IsSeq, u
<1>13. ASSUME NEW c, NEW d, IsSeq(c), IsSeq(d)
       PROVE  IsSeq(c \o d) /\ Cases(c \o d) = Cases(c) \o Cases(d)
  <2> DEFINE m == Len(c)
             n == Len(d)
             e == c \o d
             a == Cases(c)
             b == Cases(d)
             f == a \o b
  <2>1. /\ IsSeq(e) /\ m \in Nat /\ n \in Nat /\ Len(e) = m + n
        /\ \A i \in 1 .. m : e[i] = c[i]
        /\ \A i \in 1 .. n : e[m + i] = d[i]
        /\ \A i \in 1 .. (m + n) : i \in 1 .. m \/ i - m \in 1 .. n
    BY <1>13, Concatenated
  <2>2. /\ Len(a) = m /\ IsSeq(a) /\ \A i \in 1 .. m : a[i] = c[i].case
        /\ Len(b) = n /\ IsSeq(b) /\ \A i \in 1 .. n : b[i] = d[i].case
    <3>1. ASSUME NEW s, Len(s) \in Nat
          PROVE  /\ Len(Cases(s)) = Len(s) /\ IsSeq(Cases(s))
                 /\ \A i \in 1 .. Len(s) : Cases(s)[i] = s[i].case
      <4> DEFINE t == Cases(s)
                 S == { s[i].case : i \in 1 .. Len(s) }
      <4>1. t \in [1 .. Len(s) -> S] /\ \A i \in 1 .. Len(s) : t[i] = s[i].case
        BY DEF Cases
      <4> HIDE DEF t, S
      <4>2. t \in Seq(S) /\ Len(t) = Len(s)
        BY <3>1, <4>1
      <4> QED BY <4>1, <4>2 DEF t, IsSeq
    <3> QED BY <2>1, <3>1
  <2> HIDE DEF e, a, b, m, n
  <2>3. /\ IsSeq(f) /\ Len(f) = m + n /\ DOMAIN f = 1 .. (m + n)
        /\ \A i \in 1 .. m : f[i] = a[i]
        /\ \A i \in 1 .. n : f[m + i] = b[i]
    <3>1. /\ IsSeq(f) /\ Len(f) = m + n
          /\ \A i \in 1 .. m : f[i] = a[i]
          /\ \A i \in 1 .. n : f[m + i] = b[i]
      <4>1. IsSeq(a) /\ IsSeq(b)
        BY <2>2
      <4>2. /\ IsSeq(f) /\ Len(f) = Len(a) + Len(b)
            /\ \A i \in 1 .. Len(a) : f[i] = a[i]
            /\ \A i \in 1 .. Len(b) : f[Len(a) + i] = b[i]
        BY <4>1, Concatenated
      <4> HIDE DEF f
      <4> QED BY <2>2, <4>2
    <3> HIDE DEF f
    <3>2. PICK S : f \in Seq(S)
      BY <3>1 DEF IsSeq
    <3>3. DOMAIN f = 1 .. Len(f)
      BY <3>2
    <3> QED BY <3>1, <3>3
  <2>4. \A i \in 1 .. (m + n) : f[i] = e[i].case
    <3> SUFFICES ASSUME NEW i \in 1 .. (m + n) PROVE f[i] = e[i].case
      OBVIOUS
    <3>1. CASE i \in 1 .. m
      BY <2>1, <2>2, <2>3, <3>1
    <3>2. CASE i - m \in 1 .. n
      <4>1. m + (i - m) = i
        BY <2>1
      <4> HIDE DEF f
      <4>2. f[i] = b[i - m] /\ e[i] = d[i - m]
        BY <2>1, <2>3, <3>2, <4>1
      <4> QED BY <2>2, <3>2, <4>2
    <3> QED BY <2>1, <3>1, <3>2
  <2>5. f = [i \in 1 .. (m + n) |-> f[i]]
    <3>1. PICK S : f \in Seq(S)
      BY <2>3 DEF IsSeq
    <3> HIDE DEF f
    <3> QED BY <2>3, <3>1
  <2> HIDE DEF f
  <2>6. Cases(e) = f
    BY <2>1, <2>4, <2>5 DEF Cases
  <2> QED BY <2>1, <2>6 DEF e, f, a, b
<1> DEFINE k == Of("kb21", kb21)
           c == Of("clrsab", clrsab)
           b == Of("bbsbpp", bbsbpp)
           e == Of("ecdsa", ecdsa)
<1>14. /\ IsSeq(k) /\ IsSeq(c) /\ IsSeq(b) /\ IsSeq(e)
       /\ Cases(k) = kb21 /\ Cases(c) = clrsab /\ Cases(b) = bbsbpp /\ Cases(e) = ecdsa
  <2>1. IsSeq(kb21) /\ IsSeq(clrsab) /\ IsSeq(bbsbpp) /\ IsSeq(ecdsa)
    BY <1>8, <1>9, <1>10, <1>11 DEF InBlocks
  <2> QED BY <1>12, <2>1
<1>15. Catalogue = ((k \o c) \o b) \o e
  BY DEF Catalogue
<1> HIDE DEF k, c, b, e
<1>16. IsSeq(Catalogue) /\ Cases(Catalogue) = ((kb21 \o clrsab) \o bbsbpp) \o ecdsa
  <2>1. IsSeq(k \o c) /\ Cases(k \o c) = kb21 \o clrsab
    BY <1>13, <1>14
  <2> DEFINE kc == k \o c
  <2> HIDE DEF kc
  <2>2. IsSeq(kc \o b) /\ Cases(kc \o b) = (kb21 \o clrsab) \o bbsbpp
    BY <1>13, <1>14, <2>1 DEF kc
  <2> DEFINE kcb == kc \o b
  <2> HIDE DEF kcb
  <2>3. IsSeq(kcb \o e) /\ Cases(kcb \o e) = ((kb21 \o clrsab) \o bbsbpp) \o ecdsa
    BY <1>13, <1>14, <2>2 DEF kcb
  <2> QED BY <1>15, <2>3 DEF kc, kcb
<1>17. InBlocks(kb21 \o clrsab, {"KB21-Adaptive", "KB21-NonAdaptive", "CL-RSA-B"})
  <2>1. (A \cup B) \cap {"CL-RSA-B"} = {}
    OBVIOUS
  <2>2. InBlocks(kb21 \o clrsab, (A \cup B) \cup {"CL-RSA-B"})
    BY <1>8, <1>9, <2>1, Joined
  <2>3. (A \cup B) \cup {"CL-RSA-B"} = {"KB21-Adaptive", "KB21-NonAdaptive", "CL-RSA-B"}
    OBVIOUS
  <2> QED BY <2>2, <2>3
<1> DEFINE C == {"KB21-Adaptive", "KB21-NonAdaptive", "CL-RSA-B"}
<1>18. InBlocks((kb21 \o clrsab) \o bbsbpp, C \cup {"BBS-BP"})
  BY <1>10, <1>17, Joined
<1>19. InBlocks(((kb21 \o clrsab) \o bbsbpp) \o ecdsa, (C \cup {"BBS-BP"}) \cup {"ECDSA-LF"})
  BY <1>11, <1>18, Joined
<1>20. (C \cup {"BBS-BP"}) \cup {"ECDSA-LF"}
         = {"KB21-Adaptive", "KB21-NonAdaptive", "CL-RSA-B", "BBS-BP", "ECDSA-LF"}
  OBVIOUS
<1> QED BY <1>16, <1>19, <1>20

(* The catalogue is a sequence.                                             *)
LEMMA CatalogueLen ==
  Len(Catalogue) \in Nat /\ DOMAIN Catalogue = 1 .. Len(Catalogue)
BY CatalogueInBlocks DEF IsSeq

-----------------------------------------------------------------------------
(* print_table, for any results of which those of a category stand together.*)
Category(rs, k) == rs[k].category

Contiguous(rs) ==
  \A i, j, k \in 1 .. Len(rs) :
    i < j /\ j < k /\ Category(rs, i) = Category(rs, k) => Category(rs, j) = Category(rs, i)

(* The rows under a heading: those of its category among the first n.       *)
Under(rows, category, rs, n) ==
  \E a, b \in 1 .. n :
    /\ a <= b /\ rows = SubSeq(rs, a, b)
    /\ \A k \in 1 .. n : k \in a .. b <=> Category(rs, k) = category

(* What print_table has after n results: complete sections, and the one     *)
(* that is still open.                                                      *)
Tabled(t, rs, n) ==
  LET m == Len(t.sections)
  IN  /\ \A i, j \in 1 .. m : t.sections[i].category = t.sections[j].category => i = j
      /\ \A i \in 1 .. m :
           /\ t.sections[i].category # t.current_cat
           /\ Under(t.sections[i].rows, t.sections[i].category, rs, n)
      /\ Under(t.rows, t.current_cat, rs, n)
      /\ \A k \in 1 .. n :
           \/ Category(rs, k) = t.current_cat
           \/ \E i \in 1 .. m : t.sections[i].category = Category(rs, k)

Tables(C, S) ==
  [current_cat: C, rows: Seq(S), sections: Seq([category: C, rows: Seq(S)])]

Empty == [current_cat |-> NoCategory, rows |-> << >>, sections |-> << >>]

(* A row goes under the open heading, or opens another one.                 *)
LEMMA AddRowFields ==
  ASSUME NEW C, NEW S, NEW t \in Tables(C, S), NEW r \in S, r.category \in C
  PROVE  LET u == AddRow(t, r)
         IN  /\ u \in Tables(C, S)
             /\ r.category = t.current_cat =>
                  /\ u.current_cat = t.current_cat /\ u.sections = t.sections
                  /\ u.rows = Append(t.rows, r)
             /\ r.category # t.current_cat =>
                  /\ u.current_cat = r.category /\ u.sections = flush(t)
                  /\ u.rows = << r >>
<1> DEFINE u == AddRow(t, r)
<1>1. t.current_cat \in C /\ t.rows \in Seq(S) /\ t.sections \in Seq([category: C, rows: Seq(S)])
  BY DEF Tables
<1>2. CASE r.category = t.current_cat
  <2>1. u = [t EXCEPT !.rows = Append(t.rows, r)]
    BY <1>2 DEF AddRow
  <2>2. Append(t.rows, r) \in Seq(S)
    BY <1>1
  <2> QED BY <1>2, <2>1, <2>2 DEF Tables
<1>3. CASE r.category # t.current_cat
  <2>1. u = [current_cat |-> r.category, rows |-> << r >>, sections |-> flush(t)]
    BY <1>3 DEF AddRow
  <2>2. << r >> \in Seq(S)
    OBVIOUS
  <2> DEFINE s == [category |-> t.current_cat, rows |-> t.rows]
             R == [category: C, rows: Seq(S)]
  <2>3. s \in R
    BY <1>1
  <2>4. flush(t) = t.sections \/ flush(t) = Append(t.sections, s)
    BY DEF flush
  <2> DEFINE ss == t.sections
             fl == flush(t)
  <2>5. ss \in Seq(R)
    BY <1>1
  <2> HIDE DEF s, R, ss, fl
  <2>6. fl \in Seq(R)
    BY <2>3, <2>4, <2>5 DEF ss, fl
  <2> QED BY <1>3, <2>1, <2>2, <2>6 DEF Tables, R, fl
<1> QED BY <1>2, <1>3

(* The table, row by row.                                                   *)
LEMMA TableSteps ==
  ASSUME NEW S, NEW C, NEW rs \in Seq(S), NoCategory \in C, \A x \in S : x.category \in C
  PROVE  \E t : /\ t[0] = Empty /\ Sections(rs) = flush(t[Len(rs)])
                /\ \A n \in 0 .. Len(rs) : t[n] \in Tables(C, S)
                /\ \A n \in 1 .. Len(rs) : t[n] = AddRow(t[n - 1], rs[n])
<1> DEFINE N == Len(rs)
           T == Tables(C, S)
           G == [q \in T \X (1 .. N) |-> AddRow(q[1], rs[q[2]])]
           IsRec(d) == d = [n \in 0 .. N |-> IF n = 0 THEN Empty ELSE AddRow(d[n - 1], rs[n])]
<1>1. N \in Nat /\ \A n \in 1 .. N : rs[n] \in S
  OBVIOUS
<1>2. \A a \in T, n \in 1 .. N : AddRow(a, rs[n]) \in T
  BY <1>1, AddRowFields
<1>3. Empty \in T
  BY DEF Empty, Tables
<1> DEFINE d == CHOOSE h : IsRec(h)
<1>4. Sections(rs) = flush(d[N])
  BY DEF Sections, Empty
<1> HIDE DEF N, T
<1>5. G \in [T \X (1 .. N) -> T]
  BY <1>2
<1>6. \A a \in T, n \in 1 .. N : G[<<a, n>>] = AddRow(a, rs[n])
  OBVIOUS
<1> HIDE DEF G
<1>7. PICK g : Steps(g, N, T, Empty, G)
  BY <1>1, <1>3, <1>5, Recursion
<1>8. IsRec(g)
  <2>1. g = [n \in 0 .. N |-> g[n]] /\ g[0] = Empty /\ \A n \in 0 .. N : g[n] \in T
    BY <1>7 DEF Steps
  <2>2. \A n \in 0 .. N : n # 0 => n \in 1 .. N /\ n - 1 \in 0 .. N
    BY <1>1
  <2>3. \A n \in 0 .. N : n # 0 => g[n] = AddRow(g[n - 1], rs[n])
    <3> SUFFICES ASSUME NEW n \in 0 .. N, n # 0 PROVE g[n] = AddRow(g[n - 1], rs[n])
      OBVIOUS
    <3>1. n \in 1 .. N /\ g[n - 1] \in T
      BY <2>1, <2>2
    <3>2. g[n] = G[<<g[n - 1], n>>]
      BY <1>7, <3>1 DEF Steps
    <3> QED BY <1>6, <3>1, <3>2
  <2> QED BY <2>1, <2>3
<1>9. IsRec(d)
  <2>1. \E h : IsRec(h)
    BY <1>8
  <2> HIDE DEF IsRec
  <2> QED BY <2>1
<1> HIDE DEF d
<1>10. d[0] = Empty /\ \A n \in 1 .. N : d[n] = AddRow(d[n - 1], rs[n])
  <2>1. 0 \in 0 .. N /\ \A n \in 1 .. N : n \in 0 .. N /\ n # 0
    BY <1>1
  <2> DEFINE e == [n \in 0 .. N |-> IF n = 0 THEN Empty ELSE AddRow(d[n - 1], rs[n])]
  <2>2. e[0] = Empty /\ \A n \in 1 .. N : e[n] = AddRow(d[n - 1], rs[n])
    BY <2>1
  <2>3. d = e
    BY <1>9
  <2> HIDE DEF e
  <2> QED BY <2>2, <2>3
<1>11. \A n \in 0 .. N : d[n] \in T
  <2> DEFINE U == { n \in 0 .. N : d[n] \in T }
  <2>1. 0 \in U
    BY <1>1, <1>3, <1>10
  <2>2. \A n \in 0 .. (N - 1) : n \in U => n + 1 \in U
    <3> SUFFICES ASSUME NEW n \in 0 .. (N - 1), n \in U PROVE n + 1 \in U
      OBVIOUS
    <3>1. n + 1 \in 1 .. N /\ n + 1 \in 0 .. N /\ (n + 1) - 1 = n
      BY <1>1
    <3>2. d[n + 1] = AddRow(d[n], rs[n + 1]) /\ d[n] \in T
      BY <1>10, <3>1
    <3> QED BY <1>2, <3>1, <3>2
  <2> HIDE DEF U
  <2>3. \A n \in 0 .. N : n \in U
    BY <1>1, <2>1, <2>2, UpTo
  <2> QED BY <2>3 DEF U
<1> QED BY <1>4, <1>10, <1>11 DEF N, T

(* A heading has a row; a row of another category does not go under it, one *)
(* of the same that comes next does.                                        *)
LEMMA UnderGrows ==
  ASSUME NEW S, NEW rs \in Seq(S), NEW n \in 1 .. Len(rs), NEW rows, NEW category,
         Under(rows, category, rs, n)
  PROVE  /\ rows # << >> /\ \E k \in 1 .. n : Category(rs, k) = category
         /\ n < Len(rs) /\ Category(rs, n + 1) # category =>
              Under(rows, category, rs, n + 1)
         /\ n < Len(rs) /\ Category(rs, n) = category /\ Category(rs, n + 1) = category =>
              Under(Append(rows, rs[n + 1]), category, rs, n + 1)
<1>1. PICK a \in 1 .. n, b \in 1 .. n :
        /\ a <= b /\ rows = SubSeq(rs, a, b)
        /\ \A k \in 1 .. n : k \in a .. b <=> Category(rs, k) = category
  BY DEF Under
<1>2. a \in 1 .. Len(rs) /\ b \in a .. Len(rs) /\ n \in Nat
  BY <1>1
<1>3. rows # << >> /\ Category(rs, a) = category
  <2>1. Len(rows) = b + 1 - a /\ Len(<< >>) = 0
    BY <1>1, <1>2
  <2> QED BY <1>1, <1>2, <2>1
<1>4. ASSUME n < Len(rs), Category(rs, n + 1) # category
      PROVE  Under(rows, category, rs, n + 1)
  <2>1. a \in 1 .. (n + 1) /\ b \in 1 .. (n + 1)
    BY <1>1
  <2>2. \A k \in 1 .. (n + 1) : k \in a .. b <=> Category(rs, k) = category
    <3> SUFFICES ASSUME NEW k \in 1 .. (n + 1)
                 PROVE  k \in a .. b <=> Category(rs, k) = category
      OBVIOUS
    <3>1. CASE k \in 1 .. n
      BY <1>1, <3>1
    <3>2. CASE k = n + 1
      BY <1>1, <1>4, <3>2
    <3> QED BY <3>1, <3>2
  <2> QED BY <1>1, <2>1, <2>2 DEF Under
<1>5. ASSUME n < Len(rs), Category(rs, n) = category, Category(rs, n + 1) = category
      PROVE  Under(Append(rows, rs[n + 1]), category, rs, n + 1)
  <2>1. b = n
    BY <1>1, <1>2, <1>5
  <2>2. Append(rows, rs[n + 1]) = SubSeq(rs, a, n + 1)
    BY <1>1, <1>2, <1>5, <2>1
  <2>3. a \in 1 .. (n + 1) /\ n + 1 \in 1 .. (n + 1) /\ a <= n + 1
    BY <1>2
  <2>4. \A k \in 1 .. (n + 1) : k \in a .. (n + 1) <=> Category(rs, k) = category
    <3> SUFFICES ASSUME NEW k \in 1 .. (n + 1)
                 PROVE  k \in a .. (n + 1) <=> Category(rs, k) = category
      OBVIOUS
    <3>1. CASE k \in 1 .. n
      BY <1>1, <2>1, <3>1
    <3>2. CASE k = n + 1
      BY <1>5, <2>3, <3>2
    <3> QED BY <3>1, <3>2
  <2> QED BY <2>2, <2>3, <2>4 DEF Under
<1> QED BY <1>1, <1>3, <1>4, <1>5

(* A row alone.                                                             *)
LEMMA UnderAlone ==
  ASSUME NEW S, NEW rs \in Seq(S), NEW n \in 1 .. Len(rs),
         \A k \in 1 .. n : Category(rs, k) = Category(rs, n) => k = n
  PROVE  Under(<< rs[n] >>, Category(rs, n), rs, n)
<1>1. << rs[n] >> = SubSeq(rs, n, n)
  OBVIOUS
<1>2. \A k \in 1 .. n : k \in n .. n <=> Category(rs, k) = Category(rs, n)
  OBVIOUS
<1> QED BY <1>1, <1>2 DEF Under

(* The next row keeps the table right.                                      *)
LEMMA TableGrows ==
  ASSUME NEW S, NEW C, NEW rs \in Seq(S), \A x \in S : x.category \in C, Contiguous(rs),
         NEW n \in 1 .. (Len(rs) - 1), NEW t \in Tables(C, S),
         Tabled(t, rs, n), Category(rs, n) = t.current_cat
  PROVE  /\ Tabled(AddRow(t, rs[n + 1]), rs, n + 1)
         /\ Category(rs, n + 1) = AddRow(t, rs[n + 1]).current_cat
<1> DEFINE u == AddRow(t, rs[n + 1])
           c == Category(rs, n + 1)
           m == Len(t.sections)
           s == t.sections
<1>1. /\ n \in 1 .. Len(rs) /\ n < Len(rs) /\ n + 1 \in 1 .. Len(rs)
      /\ rs[n + 1] \in S /\ rs[n + 1].category = c /\ c \in C
      /\ n \in Nat
  BY DEF Category
<1>2. /\ u \in Tables(C, S)
      /\ c = t.current_cat =>
           /\ u.current_cat = c /\ u.sections = s
           /\ u.rows = Append(t.rows, rs[n + 1])
      /\ c # t.current_cat =>
           /\ u.current_cat = c /\ u.sections = flush(t)
           /\ u.rows = << rs[n + 1] >>
  BY <1>1, AddRowFields
<1> HIDE DEF u
<1>3. /\ m \in Nat
      /\ \A i, j \in 1 .. m : s[i].category = s[j].category => i = j
      /\ \A i \in 1 .. m :
           /\ s[i].category # t.current_cat
           /\ Under(s[i].rows, s[i].category, rs, n)
      /\ Under(t.rows, t.current_cat, rs, n)
      /\ \A k \in 1 .. n :
           \/ Category(rs, k) = t.current_cat
           \/ \E i \in 1 .. m : s[i].category = Category(rs, k)
  BY DEF Tabled, Tables
<1>4. CASE c = t.current_cat
  <2>1. u.current_cat = c /\ u.sections = s /\ u.rows = Append(t.rows, rs[n + 1])
    BY <1>2, <1>4
  <2>2. \A i \in 1 .. m : s[i].category # c /\ Under(s[i].rows, s[i].category, rs, n + 1)
    BY <1>1, <1>3, <1>4, UnderGrows
  <2>3. Under(u.rows, c, rs, n + 1)
    BY <1>1, <1>3, <1>4, <2>1, UnderGrows
  <2>4. \A k \in 1 .. (n + 1) :
          Category(rs, k) = c \/ \E i \in 1 .. m : s[i].category = Category(rs, k)
    <3>1. \A k \in 1 .. (n + 1) : k \in 1 .. n \/ k = n + 1
      BY <1>1
    <3> QED BY <1>3, <1>4, <3>1
  <2> HIDE DEF c, m, s
  <2>5. Tabled(u, rs, n + 1)
    BY <1>3, <2>1, <2>2, <2>3, <2>4 DEF Tabled, m, s
  <2> QED BY <2>1, <2>5 DEF u, c
<1>5. CASE c # t.current_cat
  <2> DEFINE h == [category |-> t.current_cat, rows |-> t.rows]
             v == u.sections
  <2>1. \A k \in 1 .. n : Category(rs, k) # c
    <3> SUFFICES ASSUME NEW k \in 1 .. n, Category(rs, k) = c PROVE FALSE
      OBVIOUS
    <3>1. k # n /\ k < n /\ n < n + 1 /\ k \in 1 .. Len(rs)
      BY <1>1, <1>5
    <3>2. Category(rs, n) = c
      BY <1>1, <3>1 DEF Contiguous
    <3> QED BY <1>5, <3>2
  <2>2. t.rows # << >>
    BY <1>1, <1>3, UnderGrows
  <2>3. v = Append(s, h)
    BY <1>2, <1>5, <2>2 DEF flush
  <2>4. /\ Len(v) = m + 1 /\ \A i \in 1 .. m : v[i] = s[i]
        /\ v[m + 1] = h
    <3>1. h \in [category: C, rows: Seq(S)] /\ s \in Seq([category: C, rows: Seq(S)])
      BY DEF Tables
    <3> HIDE DEF h, s, v
    <3> QED BY <2>3, <3>1 DEF m, s
  <2>5. v[m + 1].category = t.current_cat /\ v[m + 1].rows = t.rows
    BY <2>4
  <2> HIDE DEF v, h, s, m
  <2>6. \A i \in 1 .. (m + 1) : i \in 1 .. m \/ i = m + 1
    BY <1>3
  <2>7. \A i \in 1 .. (m + 1) : Under(v[i].rows, v[i].category, rs, n)
    BY <1>3, <2>4, <2>5, <2>6
  <2>8. \A i \in 1 .. (m + 1) :
          v[i].category # c /\ Under(v[i].rows, v[i].category, rs, n + 1)
    <3> SUFFICES ASSUME NEW i \in 1 .. (m + 1)
                 PROVE  v[i].category # c /\ Under(v[i].rows, v[i].category, rs, n + 1)
      OBVIOUS
    <3>1. v[i].category # c
      <4>1. PICK k \in 1 .. n : Category(rs, k) = v[i].category
        BY <1>1, <2>7, UnderGrows
      <4> QED BY <2>1, <4>1
    <3> QED BY <1>1, <2>7, <3>1, UnderGrows
  <2>9. \A i, j \in 1 .. (m + 1) : v[i].category = v[j].category => i = j
    <3> SUFFICES ASSUME NEW i \in 1 .. (m + 1), NEW j \in 1 .. (m + 1),
                        v[i].category = v[j].category
                 PROVE  i = j
      OBVIOUS
    <3> QED BY <1>3, <2>4, <2>5, <2>6
  <2>10. Under(u.rows, c, rs, n + 1)
    <3>1. \A k \in 1 .. (n + 1) : Category(rs, k) = c => k = n + 1
      BY <1>1, <2>1
    <3>2. Under(<< rs[n + 1] >>, Category(rs, n + 1), rs, n + 1)
      BY <1>1, <3>1, UnderAlone
    <3> QED BY <1>2, <1>5, <3>2
  <2>11. \A k \in 1 .. (n + 1) :
           Category(rs, k) = c \/ \E i \in 1 .. (m + 1) : v[i].category = Category(rs, k)
    <3> SUFFICES ASSUME NEW k \in 1 .. (n + 1), Category(rs, k) # c
                 PROVE  \E i \in 1 .. (m + 1) : v[i].category = Category(rs, k)
      OBVIOUS
    <3>1. k \in 1 .. n
      BY <1>1
    <3>2. CASE Category(rs, k) = t.current_cat
      <4>1. m + 1 \in 1 .. (m + 1)
        BY <1>3
      <4> QED BY <2>5, <3>2, <4>1
    <3>3. CASE \E i \in 1 .. m : s[i].category = Category(rs, k)
      BY <1>3, <2>4, <3>3
    <3> QED BY <1>3, <3>1, <3>2, <3>3
  <2>12. u.current_cat = c
    BY <1>2, <1>5
  <2>13. Tabled(u, rs, n + 1)
    BY <2>4, <2>8, <2>9, <2>10, <2>11, <2>12 DEF Tabled, v
  <2> QED BY <2>12, <2>13 DEF u
<1> QED BY <1>4, <1>5

(* A range of numbers, by its ends.                                         *)
LEMMA RangeEnds ==
  ASSUME NEW a \in Int, NEW b \in Int, a <= b
  PROVE  Min(a .. b) = a /\ Max(a .. b) = b
<1> DEFINE R == a .. b
<1>1. a \in R /\ b \in R /\ (\A y \in R : a <= y) /\ (\A y \in R : b >= y) /\ R \subseteq Int
  OBVIOUS
<1> HIDE DEF R
<1> DEFINE x == CHOOSE z \in R : \A y \in R : z <= y
           w == CHOOSE z \in R : \A y \in R : z >= y
<1>2. x \in R /\ \A y \in R : x <= y
  BY <1>1
<1>3. w \in R /\ \A y \in R : w >= y
  BY <1>1
<1>4. Min(R) = x /\ Max(R) = w
  BY DEF Min, Max
<1> HIDE DEF x, w
<1>5. x = a /\ w = b
  BY <1>1, <1>2, <1>3
<1> QED BY <1>4, <1>5 DEF R

(* What the rows under a heading are, in the words of the property.         *)
Whole(sec, rs) ==
  LET under == { k \in DOMAIN rs : rs[k].category = sec.category }
  IN  /\ under = Min(under) .. Max(under)
      /\ sec.rows = SubSeq(rs, Min(under), Max(under))

(* types.rs:102-141: one section for each category, with all its rows.      *)
LEMMA SectionsRight ==
  ASSUME NEW S, NEW C, NEW rs \in Seq(S), NoCategory \in C, \A x \in S : x.category \in C,
         Contiguous(rs)
  PROVE  LET secs == Sections(rs)
         IN  /\ \A i, j \in DOMAIN secs : secs[i].category = secs[j].category => i = j
             /\ \A i \in DOMAIN secs : Whole(secs[i], rs)
             /\ { secs[i].category : i \in DOMAIN secs } = { r.category : r \in Range(rs) }
<1> DEFINE N    == Len(rs)
           secs == Sections(rs)
<1>1. N \in Nat /\ DOMAIN rs = 1 .. N /\ \A n \in 1 .. N : rs[n] \in S
  OBVIOUS
<1>2. PICK t : /\ t[0] = Empty /\ secs = flush(t[N])
               /\ \A n \in 0 .. N : t[n] \in Tables(C, S)
               /\ \A n \in 1 .. N : t[n] = AddRow(t[n - 1], rs[n])
  BY TableSteps
<1> HIDE DEF secs
<1>3. CASE N = 0
  <2>1. secs = << >>
    BY <1>2, <1>3 DEF flush, Empty
  <2>2. DOMAIN secs = {} /\ Range(rs) = {}
    BY <1>1, <1>3, <2>1 DEF Range
  <2> QED BY <2>2 DEF secs
<1>4. CASE N # 0
  <2> HIDE DEF N
  <2> DEFINE Right(n) == Tabled(t[n], rs, n) /\ Category(rs, n) = t[n].current_cat
             U == { n \in 0 .. N : n = 0 \/ Right(n) }
  <2>1. Right(1)
    <3> DEFINE r == rs[1]
    <3>1. t[1] = AddRow(Empty, r) /\ r \in S /\ r.category \in C /\ Empty \in Tables(C, S)
      <4>1. 1 \in 1 .. N /\ 0 \in 0 .. N /\ 1 - 1 = 0
        BY <1>1, <1>4
      <4> QED BY <1>1, <1>2, <4>1
    <3>2. Empty.rows = << >> /\ Empty.sections = << >> /\ Empty.current_cat = NoCategory
      BY DEF Empty
    <3>3. t[1].sections = << >> /\ t[1].current_cat = r.category /\ t[1].rows = << r >>
      <4> DEFINE e == Empty
                 u == AddRow(e, r)
      <4> HIDE DEF e
      <4>1. /\ r.category = e.current_cat =>
                 /\ u.current_cat = e.current_cat /\ u.sections = e.sections
                 /\ u.rows = Append(e.rows, r)
            /\ r.category # e.current_cat =>
                 /\ u.current_cat = r.category /\ u.sections = flush(e)
                 /\ u.rows = << r >>
        BY <3>1, AddRowFields DEF e
      <4>2. flush(e) = << >>
        BY <3>2 DEF flush, e
      <4>3. Append(<< >>, r) = << r >>
        OBVIOUS
      <4>4. t[1] = u
        BY <3>1 DEF e
      <4> HIDE DEF u
      <4> QED BY <3>2, <4>1, <4>2, <4>3, <4>4 DEF e
    <3>4. 1 \in 1 .. Len(rs)
      BY <1>1, <1>4 DEF N
    <3>5. Under(<< r >>, Category(rs, 1), rs, 1)
      BY <3>4, UnderAlone
    <3>6. Category(rs, 1) = r.category /\ Len(<< >>) = 0
      BY DEF Category
    <3> QED BY <3>3, <3>5, <3>6 DEF Tabled
  <2>2. ASSUME NEW n \in 1 .. (N - 1), Right(n)
        PROVE  Right(n + 1)
    <3>1. n \in 1 .. (Len(rs) - 1) /\ n \in 0 .. N /\ n + 1 \in 1 .. N /\ (n + 1) - 1 = n
      BY <1>1 DEF N
    <3>2. t[n] \in Tables(C, S) /\ t[n + 1] = AddRow(t[n], rs[n + 1])
      BY <1>2, <3>1
    <3> QED BY <2>2, <3>1, <3>2, TableGrows
  <2> HIDE DEF Right
  <2>3. 0 \in U
    BY <1>1
  <2>4. \A n \in 0 .. (N - 1) : n \in U => n + 1 \in U
    <3> SUFFICES ASSUME NEW n \in 0 .. (N - 1), n \in U PROVE n + 1 \in U
      OBVIOUS
    <3>1. n + 1 \in 0 .. N /\ (n = 0 \/ n \in 1 .. (N - 1))
      BY <1>1
    <3>2. CASE n = 0
      BY <2>1, <3>1, <3>2
    <3>3. CASE n # 0
      BY <2>2, <3>1, <3>3
    <3> QED BY <3>2, <3>3
  <2> HIDE DEF U
  <2>5. N \in U
    <3>1. \A n \in 0 .. N : n \in U
      BY <1>1, <2>3, <2>4, UpTo
    <3> QED BY <1>1, <3>1
  <2>6. Right(N) /\ t[N] \in Tables(C, S)
    <3>1. N \in 0 .. N
      BY <1>1
    <3> QED BY <1>2, <1>4, <2>5, <3>1 DEF U
  <2> DEFINE s   == t[N].sections
             m   == Len(s)
             cat == t[N].current_cat
             h   == [category |-> cat, rows |-> t[N].rows]
  <2>7. /\ m \in Nat
        /\ \A i, j \in 1 .. m : s[i].category = s[j].category => i = j
        /\ \A i \in 1 .. m :
             s[i].category # cat /\ Under(s[i].rows, s[i].category, rs, N)
        /\ Under(t[N].rows, cat, rs, N)
        /\ \A k \in 1 .. N :
             \/ Category(rs, k) = cat
             \/ \E i \in 1 .. m : s[i].category = Category(rs, k)
    BY <2>6 DEF Right, Tabled, Tables
  <2>8. t[N].rows # << >>
    BY <1>1, <1>4, <2>7, UnderGrows DEF N
  <2>9. secs = Append(s, h)
    BY <1>2, <2>8 DEF flush
  <2>10. /\ DOMAIN secs = 1 .. (m + 1) /\ \A i \in 1 .. m : secs[i] = s[i]
         /\ secs[m + 1] = h
    <3>1. h \in [category: C, rows: Seq(S)] /\ s \in Seq([category: C, rows: Seq(S)])
      BY <2>6 DEF Tables
    <3> HIDE DEF h, s
    <3> QED BY <2>9, <3>1
  <2>11. secs[m + 1].category = cat /\ secs[m + 1].rows = t[N].rows
    BY <2>10
  <2> HIDE DEF h, s, m, cat
  <2>12. \A i \in 1 .. (m + 1) : i \in 1 .. m \/ i = m + 1
    BY <2>7
  <2>13. \A i, j \in DOMAIN secs : secs[i].category = secs[j].category => i = j
    <3> SUFFICES ASSUME NEW i \in 1 .. (m + 1), NEW j \in 1 .. (m + 1),
                        secs[i].category = secs[j].category
                 PROVE  i = j
      BY <2>10
    <3> QED BY <2>7, <2>10, <2>11, <2>12
  <2>14. \A i \in 1 .. (m + 1) : Under(secs[i].rows, secs[i].category, rs, N)
    BY <2>7, <2>10, <2>11, <2>12
  <2>15. \A i \in DOMAIN secs : Whole(secs[i], rs)
    <3> SUFFICES ASSUME NEW i \in 1 .. (m + 1) PROVE Whole(secs[i], rs)
      BY <2>10
    <3> DEFINE c     == secs[i].category
               under == { k \in DOMAIN rs : rs[k].category = c }
    <3>1. PICK a \in 1 .. N, b \in 1 .. N :
            /\ a <= b /\ secs[i].rows = SubSeq(rs, a, b)
            /\ \A k \in 1 .. N : k \in a .. b <=> Category(rs, k) = c
      BY <2>14 DEF Under
    <3>2. under = a .. b
      BY <1>1, <3>1 DEF Category
    <3>3. Min(a .. b) = a /\ Max(a .. b) = b
      BY <3>1, RangeEnds
    <3> QED BY <3>1, <3>2, <3>3 DEF Whole
  <2>16. { secs[i].category : i \in DOMAIN secs } = { r.category : r \in Range(rs) }
    <3>1. ASSUME NEW i \in DOMAIN secs
          PROVE  \E r \in Range(rs) : r.category = secs[i].category
      <4>1. N \in 1 .. Len(rs) /\ Under(secs[i].rows, secs[i].category, rs, N)
        BY <1>1, <1>4, <2>10, <2>14 DEF N
      <4>2. PICK k \in 1 .. N : Category(rs, k) = secs[i].category
        BY <4>1, UnderGrows
      <4> QED BY <1>1, <4>2 DEF Category, Range
    <3>2. ASSUME NEW r \in Range(rs)
          PROVE  \E i \in DOMAIN secs : secs[i].category = r.category
      <4>1. PICK k \in 1 .. N : r = rs[k]
        BY <1>1 DEF Range
      <4>2. CASE Category(rs, k) = cat
        <5>1. m + 1 \in DOMAIN secs
          BY <2>7, <2>10
        <5> QED BY <2>11, <4>1, <4>2, <5>1 DEF Category
      <4>3. CASE \E i \in 1 .. m : s[i].category = Category(rs, k)
        <5>1. PICK i \in 1 .. m : s[i].category = Category(rs, k)
          BY <4>3
        <5>2. i \in DOMAIN secs /\ secs[i] = s[i]
          BY <2>7, <2>10, <5>1
        <5> QED BY <4>1, <5>1, <5>2 DEF Category
      <4> QED BY <2>7, <4>1, <4>2, <4>3
    <3> QED BY <3>1, <3>2
  <2> QED BY <2>13, <2>15, <2>16 DEF secs
<1> QED BY <1>3, <1>4

-----------------------------------------------------------------------------
(* main() itself.                                                           *)

(* What was registered so far: the cases selected among those looked at.    *)
Registered ==
  /\ next \in 1 .. (Len(Catalogue) + 1)
  /\ cases = prepared /\ prepared \in Seq(Nat)
  /\ \A i \in 1 .. Len(prepared) :
       prepared[i] \in 1 .. (next - 1) /\ Selected(prepared[i])
  /\ \A i, j \in 1 .. Len(prepared) : i < j => prepared[i] < prepared[j]
  /\ \A c \in 1 .. (next - 1) :
       Selected(c) => \E i \in 1 .. Len(prepared) : prepared[i] = c

(* How far main() is, and what its status says of it.                       *)
Ended ==
  /\ phase \in {"banner", "register", "run", "exited"}
  /\ phase \in {"banner", "register"} =>
       code = 0 /\ pc = "warmup" /\ idx = 1 /\ results = << >>
  /\ phase \in {"run", "exited"} => next = Len(Catalogue) + 1
  /\ phase = "run" => code = 0 /\ ~NothingMatched
  /\ phase = "exited" => IF NothingMatched THEN code = 1 ELSE code \in {0, 101}
  /\ phase = "exited" /\ code = 0 => pc = "finished" /\ printed = results
  /\ "table" \in stdout => phase = "exited" /\ pc = "finished" /\ printed = results
  /\ args.csv => stdout \subseteq {"csv"}

MainInv == Registered /\ Named /\ Ended

(* Nothing is registered at first.                                          *)
LEMMA MainInitOK == MainInit => MainInv
<1> SUFFICES ASSUME MainInit PROVE MainInv
  OBVIOUS
<1> USE DEF MainInit, RunInit
<1>1. << >> \in Seq(Nat) /\ Len(<< >>) = 0
  OBVIOUS
<1>2. Registered
  BY <1>1, CatalogueLen DEF Registered
<1>3. Named
  BY <1>1 DEF Named, IsSeq
<1>4. Ended
  BY DEF Ended
<1> QED BY <1>2, <1>3, <1>4 DEF MainInv

(* What is selected and whether nothing was matched depend on the flags and *)
(* the cases alone.                                                         *)
LEMMA SelectionStays ==
  ASSUME args' = args
  PROVE  \A c : Selected(c)' <=> Selected(c)
  BY DEF Selected, want, matches, label

(* What was registered stays so until the next is.                          *)
LEMMA RegisteredStays ==
  ASSUME Registered, UNCHANGED <<args, next, prepared, cases>>
  PROVE  Registered' /\ (NothingMatched' <=> NothingMatched)
<1>1. \A c : Selected(c)' <=> Selected(c)
  BY SelectionStays
<1>2. Registered'
  BY <1>1 DEF Registered
<1> QED BY <1>2 DEF NothingMatched

(* The next case of the catalogue is registered, or passed over.            *)
LEMMA RegisterOK ==
  ASSUME MainInv, RegisterNext
  PROVE  MainInv'
<1> DEFINE N == Len(Catalogue)
<1>1. /\ N \in Nat /\ next \in Nat \ {0} /\ next <= N /\ next' = next + 1
      /\ phase = "register" /\ args' = args
  BY CatalogueLen DEF MainInv, Registered, RegisterNext
<1> HIDE DEF N
<1>2. \A c : Selected(c)' <=> Selected(c)
  BY <1>1, SelectionStays
<1>3. IF Selected(next)
      THEN prepared' = Append(prepared, next) /\ cases' = Append(cases, next)
      ELSE UNCHANGED <<prepared, cases>>
  BY DEF RegisterNext, Selected, register
<1>4. /\ prepared \in Seq(Nat) /\ cases = prepared /\ Len(prepared) \in Nat
      /\ \A i \in 1 .. Len(prepared) :
           prepared[i] \in 1 .. (next - 1) /\ Selected(prepared[i])
      /\ \A i, j \in 1 .. Len(prepared) : i < j => prepared[i] < prepared[j]
      /\ \A c \in 1 .. (next - 1) :
           Selected(c) => \E i \in 1 .. Len(prepared) : prepared[i] = c
  BY DEF MainInv, Registered
<1>5. Registered'
  <2>1. next' \in 1 .. (N + 1) /\ 1 .. (next' - 1) = 1 .. (next - 1) \cup {next}
    BY <1>1
  <2>2. CASE ~Selected(next)
    <3>1. prepared' = prepared /\ cases' = cases
      BY <1>3, <2>2
    <3> QED BY <1>2, <1>4, <2>1, <2>2, <3>1 DEF Registered, N
  <2>3. CASE Selected(next)
    <3> DEFINE L == Len(prepared)
    <3>1. /\ prepared' \in Seq(Nat) /\ cases' = prepared' /\ Len(prepared') = L + 1
          /\ prepared'[L + 1] = next /\ \A i \in 1 .. L : prepared'[i] = prepared[i]
      <4>1. prepared' = Append(prepared, next) /\ cases' = Append(prepared, next)
        BY <1>3, <1>4, <2>3
      <4>2. next \in Nat /\ prepared \in Seq(Nat)
        BY <1>1, <1>4
      <4> QED BY <4>1, <4>2
    <3>2. 1 .. Len(prepared') = 1 .. L \cup {L + 1} /\ L \in Nat
      BY <1>4, <3>1
    <3>3. \A i \in 1 .. Len(prepared') :
            prepared'[i] \in 1 .. next /\ Selected(prepared'[i])
      <4> SUFFICES ASSUME NEW i \in 1 .. Len(prepared')
                   PROVE  prepared'[i] \in 1 .. next /\ Selected(prepared'[i])
        OBVIOUS
      <4>1. CASE i \in 1 .. L
        <5>1. prepared[i] \in 1 .. (next - 1) /\ Selected(prepared[i])
          BY <1>4, <4>1
        <5>2. prepared'[i] = prepared[i]
          BY <3>1, <4>1
        <5>3. prepared[i] \in 1 .. next
          BY <1>1, <5>1
        <5> QED BY <5>1, <5>2, <5>3
      <4>2. CASE i = L + 1
        <5>1. prepared'[i] = next /\ next \in 1 .. next
          BY <1>1, <3>1, <4>2
        <5> QED BY <2>3, <5>1
      <4> QED BY <3>2, <4>1, <4>2
    <3>4. \A i, j \in 1 .. Len(prepared') : i < j => prepared'[i] < prepared'[j]
      <4> SUFFICES ASSUME NEW i \in 1 .. Len(prepared'), NEW j \in 1 .. Len(prepared'), i < j
                   PROVE  prepared'[i] < prepared'[j]
        OBVIOUS
      <4>1. i \in 1 .. L
        BY <3>2
      <4>2. CASE j \in 1 .. L
        BY <1>4, <3>1, <4>1, <4>2
      <4>3. CASE j = L + 1
        <5>1. prepared[i] < next /\ prepared'[i] = prepared[i]
          BY <1>1, <1>4, <3>1, <4>1
        <5> QED BY <3>1, <4>3, <5>1
      <4> QED BY <3>2, <4>2, <4>3
    <3>5. \A c \in 1 .. next :
            Selected(c) => \E i \in 1 .. Len(prepared') : prepared'[i] = c
      BY <1>1, <1>4, <2>1, <3>1, <3>2
    <3>6. next' - 1 = next
      BY <1>1
    <3> HIDE DEF L
    <3> QED BY <1>2, <2>1, <3>1, <3>3, <3>4, <3>5, <3>6 DEF Registered, N
  <2> QED BY <2>2, <2>3
<1>6. Named'
  <2>1. UNCHANGED <<pc, idx, results>> /\ pc = "warmup" /\ idx = 1
    BY <1>1 DEF MainInv, Ended, RegisterNext
  <2>2. Len(cases') \in Nat
    BY <1>5 DEF Registered
  <2> QED BY <2>1, <2>2 DEF MainInv, Named
<1>7. Ended'
  BY <1>1 DEF MainInv, Ended, RegisterNext
<1> QED BY <1>5, <1>6, <1>7 DEF MainInv

(* Every other step of main() leaves the selection alone.                   *)
LEMMA MainStepOK ==
  ASSUME MainInv, [MainNext]_allVars
  PROVE  MainInv'
<1> USE DEF MainInv
<1>1. CASE Banner
  <2>1. Registered' /\ Named'
    BY <1>1, RegisteredStays DEF Banner, Named
  <2>2. Ended'
    BY <1>1 DEF Ended, Banner, Progress, Say
  <2> QED BY <2>1, <2>2
<1>2. CASE RegisterNext
  BY <1>2, RegisterOK
<1>3. CASE StartRun
  <2>1. Registered' /\ Named' /\ (NothingMatched' <=> NothingMatched)
    BY <1>3, RegisteredStays DEF StartRun, Named
  <2>2. next = Len(Catalogue) + 1
    BY <1>3, CatalogueLen DEF Registered, StartRun
  <2>3. Ended'
    BY <1>3, <2>1, <2>2 DEF Ended, StartRun
  <2> QED BY <2>1, <2>3
<1>4. CASE Run
  <2>1. Len(cases) \in Nat
    BY DEF Registered
  <2>2. Named' /\ cases' = cases
    BY <1>4, <2>1, RunKeepsNamed DEF Run
  <2>3. Registered' /\ (NothingMatched' <=> NothingMatched)
    BY <1>4, <2>2, RegisteredStays DEF Run
  <2>4. Ended'
    BY <1>4, <2>3 DEF Ended, Run, Progress, Say
  <2> QED BY <2>2, <2>3, <2>4
<1>5. CASE Panic
  <2>1. Registered' /\ Named' /\ (NothingMatched' <=> NothingMatched)
    BY <1>5, RegisteredStays DEF Panic, Named
  <2>2. Ended'
    BY <1>5, <2>1 DEF Ended, Panic
  <2> QED BY <2>1, <2>2
<1>6. CASE Report
  <2>1. Registered' /\ Named' /\ (NothingMatched' <=> NothingMatched)
    BY <1>6, RegisteredStays DEF Report, Named
  <2>2. code' \in {0, 101} /\ printed' = results' /\ pc' = "finished"
    BY <1>6 DEF Report, Ended
  <2>3. args.csv => stdout' \subseteq {"csv"}
    BY <1>6 DEF Ended, Report, Say
  <2>4. Ended'
    BY <1>6, <2>1, <2>2, <2>3 DEF Ended, Report
  <2> QED BY <2>1, <2>4
<1>7. CASE Environment
  <2>1. UNCHANGED <<cases, pc, idx, results>> /\ UNCHANGED mainVars
    BY <1>7 DEF Environment, TempChanges, runVars
  <2>2. Registered' /\ Named' /\ (NothingMatched' <=> NothingMatched)
    BY <2>1, RegisteredStays DEF mainVars, Named
  <2>3. Ended'
    BY <2>1, <2>2 DEF Ended, mainVars
  <2> QED BY <2>2, <2>3
<1>8. CASE UNCHANGED allVars
  <2>1. UNCHANGED <<cases, pc, idx, results>> /\ UNCHANGED mainVars
    BY <1>8 DEF allVars, vars, runVars
  <2>2. Registered' /\ Named' /\ (NothingMatched' <=> NothingMatched)
    BY <2>1, RegisteredStays DEF mainVars, Named
  <2>3. Ended'
    BY <2>1, <2>2 DEF Ended, mainVars
  <2> QED BY <2>2, <2>3
<1> QED BY <1>1, <1>2, <1>3, <1>4, <1>5, <1>6, <1>7, <1>8 DEF MainNext, MainStep

(* The invariant of main().                                                 *)
THEOREM MainInvariance == MainSpec => []MainInv
<1>1. MainInv /\ [MainNext]_allVars => MainInv'
  BY MainStepOK
<1> QED BY <1>1, MainInitOK, PTL DEF MainSpec

(* runner.rs:84: setup() runs for the selected cases only, once for each.   *)
THEOREM SetupSelected == MainSpec => []SetupOnlySelected
<1>1. MainInv => SetupOnlySelected
  <2> SUFFICES ASSUME MainInv PROVE SetupOnlySelected
    OBVIOUS
  <2>1. DOMAIN prepared = 1 .. Len(prepared) /\ Len(prepared) \in Nat
    BY DEF MainInv, Registered
  <2>2. ASSUME NEW i \in DOMAIN prepared, NEW j \in DOMAIN prepared,
               prepared[i] = prepared[j]
        PROVE  i = j
    BY <2>1, <2>2 DEF MainInv, Registered
  <2> QED BY <2>1, <2>2 DEF MainInv, Registered, SetupOnlySelected
<1> QED BY <1>1, MainInvariance, PTL

(* What was printed when the suite is done: a result for each selected case,*)
(* in the order of the catalogue.                                           *)
LEMMA Printed ==
  ASSUME MainInv, phase = "exited", pc = "finished", printed = results
  PROVE  LET L == Len(printed)
             N == Len(Catalogue)
         IN  /\ L \in Nat /\ IsSeq(printed) /\ DOMAIN printed = 1 .. L
             /\ \A i \in 1 .. L : printed[i].name \in 1 .. N
             /\ \A i, j \in 1 .. L : i < j => printed[i].name < printed[j].name
             /\ { printed[i].name : i \in 1 .. L } = { i \in DOMAIN Catalogue : Selected(i) }
<1> DEFINE L == Len(prepared)
           N == Len(Catalogue)
<1>1. next = N + 1 /\ N \in Nat /\ DOMAIN Catalogue = 1 .. N
  BY CatalogueLen DEF MainInv, Ended
<1>2. /\ L \in Nat /\ idx = L + 1 /\ IsSeq(printed) /\ Len(printed) = L
      /\ \A i \in 1 .. L : printed[i].name = prepared[i]
  BY <1>1 DEF MainInv, Named, Registered
<1>3. DOMAIN printed = 1 .. L
  BY <1>2 DEF IsSeq
<1>4. /\ \A i \in 1 .. L : prepared[i] \in 1 .. N /\ Selected(prepared[i])
      /\ \A i, j \in 1 .. L : i < j => prepared[i] < prepared[j]
      /\ \A c \in 1 .. N : Selected(c) => \E i \in 1 .. L : prepared[i] = c
  <2>1. next - 1 = N
    BY <1>1
  <2> QED BY <2>1 DEF MainInv, Registered
<1> HIDE DEF L, N
<1>5. { printed[i].name : i \in 1 .. L } = { i \in DOMAIN Catalogue : Selected(i) }
  BY <1>1, <1>2, <1>4
<1> QED BY <1>1, <1>2, <1>3, <1>4, <1>5 DEF N

(* main.rs:114-136: a run that ends well printed a result for each selected *)
(* case, in the order of the catalogue.                                     *)
THEOREM SelectionReported == MainSpec => []ReportsTheSelection
<1>1. MainInv => ReportsTheSelection
  <2> SUFFICES ASSUME MainInv, Exited, code = 0
               PROVE  /\ \A i, j \in DOMAIN printed :
                           i < j => printed[i].name < printed[j].name
                      /\ { printed[i].name : i \in DOMAIN printed }
                           = { i \in DOMAIN Catalogue : Selected(i) }
    BY DEF ReportsTheSelection
  <2>1. phase = "exited" /\ pc = "finished" /\ printed = results
    BY DEF MainInv, Ended, Exited
  <2> QED BY <2>1, Printed
<1> QED BY <1>1, MainInvariance, PTL

(* types.rs:102: "one section per mechanism", for any command line.         *)
THEOREM OneSection == MainSpec => []OneSectionEach
<1>1. MainInv => OneSectionEach
  <2> SUFFICES ASSUME MainInv, "table" \in stdout
               PROVE  LET secs == Sections(Reported)
                      IN  /\ \A i, j \in DOMAIN secs :
                               secs[i].category = secs[j].category => i = j
                          /\ \A i \in DOMAIN secs : Whole(secs[i], Reported)
                          /\ { secs[i].category : i \in DOMAIN secs }
                               = { r.category : r \in Range(Reported) }
    BY DEF OneSectionEach, Whole
  <2> DEFINE C  == {"KB21-Adaptive", "KB21-NonAdaptive", "CL-RSA-B", "BBS-BP", "ECDSA-LF"}
             L  == Len(printed)
             N  == Len(Catalogue)
             cs == Cases(Catalogue)
             rs == Reported
             S  == { cs[k] : k \in 1 .. N }
  <2>1. phase = "exited" /\ pc = "finished" /\ printed = results
    BY DEF MainInv, Ended
  <2>2. /\ L \in Nat /\ DOMAIN printed = 1 .. L
        /\ \A i \in 1 .. L : printed[i].name \in 1 .. N
        /\ \A i, j \in 1 .. L : i < j => printed[i].name < printed[j].name
    BY <2>1, Printed
  <2>3. N \in Nat /\ InBlocks(cs, C)
    BY CatalogueInBlocks, CatalogueLen
  <2>4. Len(cs) = N /\ \A k \in 1 .. N : cs[k] = Catalogue[k].case
    <3> HIDE DEF N
    <3>1. DOMAIN cs = 1 .. N
      BY DEF Cases, N
    <3>2. DOMAIN cs = 1 .. Len(cs) /\ Len(cs) \in Nat
      BY <2>3 DEF InBlocks, IsSeq
    <3>3. Len(cs) = N
      BY <2>3, <3>1, <3>2
    <3> QED BY <3>3 DEF Cases, N
  <2> HIDE DEF C, L, N, cs
  <2>5. rs = [i \in 1 .. L |-> cs[printed[i].name]]
    BY <2>2, <2>4 DEF Reported
  <2> HIDE DEF rs
  <2>6. rs \in Seq(S) /\ Len(rs) = L /\ \A i \in 1 .. L : rs[i] = cs[printed[i].name]
    <3>1. rs \in [1 .. L -> S]
      BY <2>2, <2>5
    <3> HIDE DEF S
    <3> QED BY <2>2, <2>5, <3>1
  <2>7. \A x \in S : x.category \in C \cup {NoCategory}
    BY <2>3, <2>4 DEF InBlocks
  <2>8. Contiguous(rs)
    <3> SUFFICES ASSUME NEW i \in 1 .. L, NEW j \in 1 .. L, NEW k \in 1 .. L, i < j, j < k,
                        rs[i].category = rs[k].category
                 PROVE  rs[j].category = rs[i].category
      BY <2>6 DEF Contiguous, Category
    <3> DEFINE p == printed[i].name
               q == printed[j].name
               r == printed[k].name
    <3>1. p \in 1 .. N /\ q \in 1 .. N /\ r \in 1 .. N /\ p < q /\ q < r
      BY <2>2
    <3>2. rs[i] = cs[p] /\ rs[j] = cs[q] /\ rs[k] = cs[r]
      BY <2>6
    <3> HIDE DEF p, q, r
    <3> QED BY <2>3, <2>4, <3>1, <3>2 DEF InBlocks
  <2> HIDE DEF S
  <2> DEFINE D == C \cup {NoCategory}
  <2>9. NoCategory \in D
    OBVIOUS
  <2> HIDE DEF D
  <2>10. \A x \in S : x.category \in D
    BY <2>7 DEF D
  <2> QED BY <2>6, <2>8, <2>9, <2>10, SectionsRight DEF rs
<1> QED BY <1>1, MainInvariance, PTL

(* main.rs:90: in CSV mode nothing else is written to standard output.      *)
THEOREM CsvClean == MainSpec => []CsvStdoutClean
<1>1. MainInv => CsvStdoutClean
  BY DEF MainInv, Ended, CsvStdoutClean
<1> QED BY <1>1, MainInvariance, PTL

(* main.rs:119: the status is 1 exactly if a --case selected nothing.       *)
THEOREM EmptyFilter == MainSpec => []EmptyFilterFails
<1>1. MainInv => EmptyFilterFails
  BY DEF MainInv, Registered, Ended, NothingMatched, Exited, EmptyFilterFails
<1> QED BY <1>1, MainInvariance, PTL

-----------------------------------------------------------------------------
(* main() and the runner it runs.                                           *)

(* What a run that ends well has printed are results of as many repetitions *)
(* as the command line asks for, and what they say is true of them.         *)
PrintsMeasurements ==
  Exited /\ code = 0 =>
    /\ printed = results /\ Len(printed) = Len(log)
    /\ \A i \in 1 .. Len(log) : Len(log[i].measured) = Config(args).bench_reps
    /\ ResultsFaithful /\ StatsDescribeSamples /\ PausesAddUp

(* The invariants of main() and of the runner, and what ties them.          *)
Together ==
  /\ MainInv /\ IInv
  /\ cfg = Config(args)
  /\ pc = "panicked" => cfg.bench_reps = 0

(* Before the suite runs, the runner is as it was created.                  *)
LEMMA TogetherInit == MainInit => Together
<1> SUFFICES ASSUME MainInit PROVE Together
  OBVIOUS
<1>1. cfg = Config(args) /\ args \in Arguments /\ cases = << >> /\ pc = "warmup" /\ RunInit
  BY DEF MainInit
<1>2. CfgOK
  <2>1. << >> \in Seq(CaseNames)
    OBVIOUS
  <2> QED BY <1>1, <2>1, ConfigAssumption DEF CfgOK
<1>3. IInv
  BY <1>1, <1>2, StartOK
<1> QED BY <1>1, <1>3, MainInitOK DEF Together, MainInit

(* A case that is registered finds the runner as it was created.            *)
LEMMA RegisterKeepsRunner ==
  ASSUME MainInv, IInv, RegisterNext
  PROVE  IInv'
<1>1. MainInv'
  BY RegisterOK
<1>2. /\ UNCHANGED <<cfg, pc, idx, cur, results, zones, log>>
      /\ pc = "warmup" /\ idx = 1
  BY DEF MainInv, Ended, RegisterNext
<1>3. cases' \in Seq(CaseNames) /\ Len(cases') \in Nat
  <2> DEFINE c == cases'
             L == Len(c)
             N == Len(Catalogue)
  <2>1. /\ c \in Seq(Nat) /\ L \in Nat /\ next' \in 1 .. (N + 1)
        /\ \A i \in 1 .. L : c[i] \in 1 .. (next' - 1)
    BY <1>1 DEF MainInv, Registered
  <2>2. N \in Nat /\ 1 .. N \subseteq CaseNames
    BY CatalogueLen, ConfigAssumption
  <2> HIDE DEF c, L, N
  <2>3. \A i \in 1 .. L : c[i] \in CaseNames
    BY <2>1, <2>2
  <2>4. c \in [1 .. L -> CaseNames]
    <3>1. DOMAIN c = 1 .. L /\ c \in [1 .. L -> Nat]
      BY <2>1 DEF L
    <3> QED BY <2>3, <3>1
  <2> QED BY <2>1, <2>4 DEF c, L
<1>4. num_batches' = num_batches /\ batch_size' = batch_size /\ batch_end' = batch_end
  BY <1>2 DEF num_batches, batch_size, batch_end
<1>5. TypesInv'
  BY <1>2, <1>3, <1>4 DEF IInv, TypesInv, CfgOK
<1>6. Counted(cur)'
  BY <1>2 DEF IInv, Counted, Largest
<1>7. Placed'
  BY <1>2, <1>4 DEF IInv, Placed
<1>8. Done'
  BY <1>2, <1>3 DEF IInv, Done
<1> QED BY <1>5, <1>6, <1>7, <1>8 DEF IInv

(* main() leaves the runner alone but for its own steps.                    *)
LEMMA TogetherNext == Together /\ [MainNext]_allVars => Together'
<1> SUFFICES ASSUME Together, [MainNext]_allVars PROVE Together'
  OBVIOUS
<1>1. MainInv'
  BY MainStepOK DEF Together
<1>2. args' = args /\ cfg' = cfg
  BY DEF MainNext, MainStep, Banner, RegisterNext, StartRun, Run, RunStep, Panic, Report,
         Environment, TempChanges, allVars, mainVars, vars
<1>3. (cfg = Config(args))'
  BY <1>2 DEF Together, Config
<1>4. IInv'
  <2>1. CASE RegisterNext
    BY <2>1, RegisterKeepsRunner DEF Together
  <2>2. CASE Run \/ Environment
    BY <2>2, NextOK DEF Together, Run, Environment, Next
  <2>3. CASE Banner \/ StartRun \/ Panic \/ Report \/ UNCHANGED allVars
    <3>1. UNCHANGED vars
      BY <2>3 DEF Banner, StartRun, Panic, Report, allVars, vars, runVars
    <3> QED BY <3>1, NextOK DEF Together
  <2> QED BY <2>1, <2>2, <2>3 DEF MainNext, MainStep
<1>5. pc' = "panicked" => cfg.bench_reps = 0
  <2> SUFFICES ASSUME pc' = "panicked", pc # "panicked" PROVE cfg.bench_reps = 0
    BY DEF Together
  <2>1. NoSamples
    BY DEF MainNext, MainStep, Banner, RegisterNext, StartRun, Run, RunStep, Panic, Report,
           Environment, TempChanges, allVars, mainVars, vars, runVars,
           WarmUp, StartMeasuring, GateOpens, WaitToCool, MeasureRep, EndBatch, FinishCase,
           Return
  <2>2. /\ num_batches \in Nat /\ cur.batch \in Nat /\ cur.batch <= num_batches
        /\ cur.measured = << >> /\ pc = "gate" /\ cur.batch >= num_batches
    BY <2>1, Batches DEF Together, IInv, TypesInv, Locals, NoSamples
  <2>3. cur.rep = cfg.bench_reps
    BY <2>2 DEF Together, IInv, Placed
  <2>4. cur.rep = 0
    BY <2>2 DEF Together, IInv, Counted
  <2> QED BY <2>3, <2>4
<1> QED BY <1>1, <1>2, <1>3, <1>4, <1>5 DEF Together

(* The invariant of main() with the runner in it; from_durations            *)
(* (types.rs:48) is called without samples only when there is no repetition *)
(* to measure.                                                              *)
THEOREM TogetherInvariance == MainSpec => []Together
BY TogetherInit, TogetherNext, PTL DEF MainSpec

(* main.rs:114-136, runner.rs:116-208: main() runs the suite it registered  *)
(* as the runner is specified, for any command line whose repetitions do    *)
(* not wrap: the results it prints are of bench_reps repetitions each.      *)
THEOREM MeasurementsPrinted == MainSpec => []PrintsMeasurements
<1>1. Together => PrintsMeasurements
  <2> SUFFICES ASSUME Together, Exited, code = 0
               PROVE  /\ printed = results /\ Len(printed) = Len(log)
                      /\ \A i \in 1 .. Len(log) :
                           Len(log[i].measured) = Config(args).bench_reps
                      /\ ResultsFaithful /\ StatsDescribeSamples /\ PausesAddUp
    BY DEF PrintsMeasurements
  <2>1. IInv /\ cfg = Config(args) /\ printed = results
    BY DEF Together, MainInv, Ended, Exited
  <2>2. ResultsFaithful /\ StatsDescribeSamples /\ PausesAddUp
    BY <2>1, ResultsStand, StatsTell, PausesCounted
  <2>3. Len(printed) = Len(log) /\ \A i \in 1 .. Len(log) : Finished(i)
    BY <2>1 DEF IInv, Done
  <2> QED BY <2>1, <2>2, <2>3 DEF Finished
<1> QED BY <1>1, TogetherInvariance, PTL
=============================================================================
