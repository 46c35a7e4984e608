---------------------------- MODULE BenchRunner -----------------------------
(***************************************************************************)
(* BenchSuite::run (src/runner.rs): for every registered case a warm-up,   *)
(* then the timed repetitions in batches, with a pause or a thermal gate   *)
(* between batches, then the case's result.  One thread runs it; the only  *)
(* other actor is the phone, whose temperature moves by itself.            *)
(*                                                                         *)
(* A repetition is abstracted to how long it takes and what case.func      *)
(* returns: the size of the proof and whether its check passed.            *)
(***************************************************************************)
EXTENDS Stats

CONSTANTS
  CaseNames,     \* what can be registered
  Outcomes,      \* [size, ok, us]: what a repetition may return and take
  U32,           \* 2^32: the modulus of the batch arithmetic
  Jobs,          \* [cfg, cases]: the configurations and suites of the runs
  Zones,         \* the thermal zones
  RawReadings,   \* what /sys/class/thermal/thermal_zone*/temp may read
  Unreadable     \* a zone that is missing or is no number

(* thermal_limit_celsius = None.  A limit is in thousandths of a degree; a  *)
(* negative one or NaN does what 0 does, since no plausible temperature is  *)
(* below it.                                                                *)
NoLimit == -1
Limits  == Nat \cup {NoLimit}

ASSUME RunnerAssumption ==
  /\ Outcomes \subseteq [size: Nat, ok: BOOLEAN, us: Nat]
  /\ U32 \in Nat \ {0}
  /\ \A j \in Jobs :
       /\ j.cfg \in [ warmup_reps: Nat, bench_reps: Nat, batch_size: Nat,
                      thermal_limit: Limits ]
       /\ j.cases \in Seq(CaseNames)
  /\ RawReadings \subseteq Int

(* Below 2^32 - batch_size repetitions the arithmetic on batches does not   *)
(* wrap (runner.rs:158).                                                    *)
ASSUME NoWrapAssumption ==
  \A j \in Jobs : j.cfg.bench_reps + j.cfg.batch_size + 1 <= U32

VARIABLES
  cfg,        \* BenchConfig; of the pauses, thermal_limit only
  cases,      \* self.cases, names in the order of registration
  pc,         \* where run() is
  idx,        \* index of the case being run
  cur,        \* the locals of the case being run
  results,
  zones,      \* what each thermal zone reads at the moment
  log         \* history variable: the locals of every finished case

runVars == <<pc, idx, cur, results, log>>
vars    == <<cfg, cases, runVars, zones>>

(* measured stands for durations and proof_sizes, one outcome for each      *)
(* timed repetition.  The last two are history variables: the sleeps so far *)
(* between repetitions and the batches that were preceded by one.           *)
Fresh == [ warmed   |-> 0,     batch  |-> 0, rep |-> 0,
           measured |-> << >>, all_ok |-> TRUE,
           naps     |-> 0,     rested |-> 0 ]

(* read_max_thermal_celsius, in thousandths of a degree.  Readings above    *)
(* 1000 are taken for thousandths already; what is not a plausible          *)
(* temperature (10 to 150 degrees) is skipped.                              *)
Milli(raw) == IF raw > 1000 THEN raw ELSE 1000 * raw

Temperatures ==
  { t \in { Milli(zones[z]) : z \in { y \in Zones : zones[y] # Unreadable } } :
      10000 <= t /\ t < 150000 }

NoSensor == Temperatures = {}
Hot      == ~NoSensor /\ Max(Temperatures) > cfg.thermal_limit

batch_size  == Max({cfg.batch_size, 1})

(* A mistake: one batch more than there is work for.                        *)
NumBatchesPlusOne == cfg.bench_reps \div batch_size + 1

num_batches == (cfg.bench_reps + batch_size - 1) \div batch_size

(* A mistake: the last batch is not cut to the total.                       *)
BatchEndUncut == ((cur.batch + 1) * batch_size) % U32

(* ((cur.batch + 1) * batch_size).min(total), in the u32 of a release build.    *)
batch_end == Min({ ((cur.batch + 1) * batch_size) % U32, cfg.bench_reps })

RunInit ==
  /\ idx = 1 /\ results = << >> /\ log = << >>
  /\ cur = Fresh
  /\ zones \in [Zones -> RawReadings \cup {Unreadable}]

Init ==
  /\ \E j \in Jobs : cfg = j.cfg /\ cases = j.cases
  /\ pc = "warmup"
  /\ RunInit

-----------------------------------------------------------------------------
(* A repetition of the warm-up: its outcome is dropped.                     *)
WarmUp ==
  /\ pc = "warmup" /\ idx <= Len(cases)
  /\ cur.warmed < cfg.warmup_reps
  /\ cur' = [cur EXCEPT !.warmed = @ + 1]
  /\ UNCHANGED <<pc, idx, results, log>>

StartMeasuring ==
  /\ pc = "warmup" /\ idx <= Len(cases)
  /\ cur.warmed = cfg.warmup_reps
  /\ pc' = "gate"
  /\ UNCHANGED <<idx, cur, results, log>>

(* The head of the loop over batches.  The first batch is not held back; a  *)
(* later one waits a fixed time, or until the sensors let it pass.          *)
AtGate == pc = "gate" /\ cur.batch < num_batches

GateOpens ==
  /\ AtGate
  /\ \/ cur.batch = 0 /\ UNCHANGED cur
     \/ cur.batch > 0 /\ cfg.thermal_limit # NoLimit /\ ~Hot /\ UNCHANGED cur
     \/ cur.batch > 0 /\ cfg.thermal_limit = NoLimit
        /\ cur' = [cur EXCEPT !.rested = @ + 1]
  /\ pc' = "reps"
  /\ UNCHANGED <<idx, results, log>>

(* Too hot: sleep, then read the sensors again, any number of times.        *)
WaitToCool ==
  /\ AtGate
  /\ cur.batch > 0 /\ cfg.thermal_limit # NoLimit /\ Hot
  /\ UNCHANGED runVars

(* Mistakes: only the last repetition decides; a pause after the last one.  *)
MeasureRepLastDecides ==
  /\ pc = "reps" /\ cur.rep < batch_end
  /\ \E o \in Outcomes :
       cur' = [cur EXCEPT !.measured = Append(@, o),
                          !.all_ok   = o.ok,
                          !.rep      = @ + 1,
                          !.naps     = IF cur.rep + 1 < cfg.bench_reps THEN @ + 1 ELSE @]
  /\ UNCHANGED <<pc, idx, results, log>>

MeasureRepNapsAlways ==
  /\ pc = "reps" /\ cur.rep < batch_end
  /\ \E o \in Outcomes :
       cur' = [cur EXCEPT !.measured = Append(@, o),
                          !.all_ok   = @ /\ o.ok,
                          !.rep      = @ + 1,
                          !.naps     = IF cur.rep < cfg.bench_reps THEN @ + 1 ELSE @]
  /\ UNCHANGED <<pc, idx, results, log>>

MeasureRep ==
  /\ pc = "reps" /\ cur.rep < batch_end
  /\ \E o \in Outcomes :
       cur' = [cur EXCEPT !.measured = Append(@, o),
                          !.all_ok   = @ /\ o.ok,
                          !.rep      = @ + 1,
                          !.naps     = IF cur.rep + 1 < cfg.bench_reps THEN @ + 1 ELSE @]
  /\ UNCHANGED <<pc, idx, results, log>>

(* A mistake: the batch is not counted.                                     *)
EndBatchUncounted ==
  /\ pc = "reps" /\ cur.rep >= batch_end
  /\ pc' = "gate"
  /\ UNCHANGED <<idx, cur, results, log>>

EndBatch ==
  /\ pc = "reps" /\ cur.rep >= batch_end
  /\ cur' = [cur EXCEPT !.batch = @ + 1]
  /\ pc' = "gate"
  /\ UNCHANGED <<idx, results, log>>

(* SampleStats::from_durations asserts that there is a sample.              *)
NoSamples ==
  /\ pc = "gate" /\ cur.batch >= num_batches
  /\ cur.measured = << >>
  /\ pc' = "panicked"
  /\ UNCHANGED <<idx, cur, results, log>>

durations == [i \in DOMAIN cur.measured |-> cur.measured[i].us]

FinishCase ==
  /\ pc = "gate" /\ cur.batch >= num_batches
  /\ cur.measured # << >>
  /\ results' = Append(results,
       [name         |-> cases[idx],
        stats        |-> from_durations(durations),
        samples      |-> ascending[[i \in DOMAIN durations |-> r2(durations[i])]],
        proof_bytes  |-> Max({ cur.measured[i].size : i \in DOMAIN cur.measured }),
        all_verified |-> cur.all_ok])
  /\ log' = Append(log, cur)
  /\ idx' = idx + 1
  /\ cur' = Fresh
  /\ pc' = "warmup"

Return ==
  /\ pc = "warmup" /\ idx > Len(cases)
  /\ pc' = "finished"
  /\ UNCHANGED <<idx, cur, results, log>>

RunStep ==
  /\ \/ WarmUp \/ StartMeasuring
     \/ GateOpens \/ WaitToCool
     \/ MeasureRep \/ EndBatch
     \/ NoSamples \/ FinishCase
     \/ Return
  /\ UNCHANGED <<cfg, cases, zones>>

(* The environment.                                                         *)
TempChanges ==
  /\ cfg.thermal_limit # NoLimit
  /\ zones' \in [Zones -> RawReadings \cup {Unreadable}]
  /\ UNCHANGED <<cfg, cases, runVars>>

Next == RunStep \/ TempChanges

(* The thread that runs the benchmark is always scheduled again.            *)
Spec == Init /\ [][Next]_vars /\ WF_vars(RunStep)

-----------------------------------------------------------------------------
(* Properties.                                                              *)
Running == pc \notin {"finished", "panicked"}

(* The loop variables, the vectors and the results keep their types.        *)
RunTypeOK ==
  /\ pc \in {"warmup", "gate", "reps", "finished", "panicked"}
  /\ idx \in 1 .. (Len(cases) + 1)
  /\ cur.warmed \in 0 .. cfg.warmup_reps
  /\ cur.batch \in 0 .. num_batches
  /\ cur.rep \in 0 .. cfg.bench_reps
  /\ cur.measured \in Seq(Outcomes)
  /\ cur.all_ok \in BOOLEAN
  /\ zones \in [Zones -> RawReadings \cup {Unreadable}]

(* Each result stands for exactly bench_reps timed repetitions of its own   *)
(* case, in registration order; it is verified iff every one of them was    *)
(* (types.rs:90), whatever the warm-up returned, and reports the largest    *)
(* proof among them.                                                        *)
ResultsFaithful ==
  \A i \in 1 .. Len(results) :
    LET m == log[i].measured
        r == results[i]
    IN  /\ r.name = cases[i]
        /\ Len(m) = cfg.bench_reps
        /\ r.all_verified <=> \A j \in DOMAIN m : m[j].ok
        /\ \A j \in DOMAIN m : m[j].size <= r.proof_bytes
        /\ \E j \in DOMAIN m : m[j].size = r.proof_bytes

(* The statistics of a result describe the repetitions it stands for,       *)
(* however few there are and whatever their order: samples_ms holds all of  *)
(* them, sorted, and each percentile has its share of them on either side   *)
(* (types.rs:86, 46-72).                                                    *)
StatsDescribeSamples ==
  \A i \in 1 .. Len(results) :
    Describes(results[i].stats, results[i].samples,
              [j \in DOMAIN log[i].measured |-> log[i].measured[j].us])

(* Whenever the runner stands at the gate of a batch, every earlier batch   *)
(* was measured in full and there is a repetition left for this one, so it  *)
(* never waits for the phone to cool with nothing to measure.               *)
NoIdleGate ==
  AtGate => cur.rep = cur.batch * batch_size /\ cur.rep < cfg.bench_reps

(* A finished case slept between any two of its repetitions, two on either  *)
(* side of a batch boundary included, and without a thermal limit between   *)
(* any two of its batches; it slept neither after its last repetition nor   *)
(* after its last batch.  This is what runner.rs:144-166 do.  The comments  *)
(* on the two pauses say less and more: the one is "between individual reps *)
(* within a batch" (runner.rs:43), the other "follows each completed batch" *)
(* (runner.rs:41), the last included.                                       *)
PausesAddUp ==
  \A i \in 1 .. Len(log) :
    /\ log[i].naps = Len(log[i].measured) - 1
    /\ cfg.thermal_limit = NoLimit => log[i].rested = num_batches - 1

(* The run comes to an end, with a thermal limit if the phone does not stay *)
(* hot for ever, without one in any case.                                   *)
EndsUnlessHot == cfg.thermal_limit = NoLimit \/ <>[]~Hot => <>~Running

(* runner.rs:50: when a limit is set but no sensor can be read, the runner  *)
(* falls back to the fixed pause between batches.                           *)
FallsBackToPause ==
  [][(GateOpens /\ cur.batch > 0 /\ NoSensor) => cur'.rested > cur.rested]_vars
=============================================================================
