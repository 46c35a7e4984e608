---------------------------- MODULE MobileBench -----------------------------
(***************************************************************************)
(* The mobile_bench binary (src/main.rs): flags become a configuration,    *)
(* the mechanisms register their cases, the suite runs (BenchRunner) and   *)
(* the results are printed or written.                                     *)
(*                                                                         *)
(* A flag that is missing, or whose value does not parse, is NoFlag: the   *)
(* code keeps no difference (`and_then(.. .parse().ok())`).  The --case    *)
(* substring is modelled by the set of labels that contain it, a case by   *)
(* its place in the Catalogue.  CaseNames, Jobs and Init of BenchRunner are *)
(* for its own runs; here main() fills the suite.                          *)
(***************************************************************************)
EXTENDS Catalogue, BenchRunner

CONSTANTS
  Arguments,   \* the command lines: records, see Flags
  NoFlag,
  QuickDefaults, FullDefaults,    \* warmup_reps, bench_reps, batch_size
  DefaultLimit                    \* 45 degrees

Flags == {"quick", "csv", "json", "thermal", "reps", "only", "case"}

ASSUME MobileAssumption == \A a \in Arguments : DOMAIN a = Flags

VARIABLES
  args,
  phase,       \* where main() is
  next,        \* the case to register next, by its place in the Catalogue
  prepared,    \* history variable: the cases whose setup() has run
  stdout,      \* the kinds of text written to standard output
  printed,     \* the results that were printed
  json,        \* whether the JSON file was written
  code         \* exit status; 101 is a panic

mainVars == <<args, phase, next, prepared, stdout, printed, json, code>>
allVars  == <<mainVars, vars>>

-----------------------------------------------------------------------------
Override(flag, default) == IF flag = NoFlag THEN default ELSE flag

(* A mistake: --quick obeys --thermal.                                      *)
ConfigThermalAlways(a) ==
  LET d == IF a.quick THEN QuickDefaults ELSE FullDefaults
  IN  [ warmup_reps   |-> d.warmup_reps,
        bench_reps    |-> Override(a.reps, d.bench_reps),
        batch_size    |-> d.batch_size,
        thermal_limit |-> Override(a.thermal, IF a.quick THEN NoLimit ELSE DefaultLimit) ]

(* The configuration of a quick or a full run and what may override it.     *)
Config(a) ==
  LET d == IF a.quick THEN QuickDefaults ELSE FullDefaults
  IN  [ warmup_reps   |-> d.warmup_reps,
        bench_reps    |-> Override(a.reps, d.bench_reps),
        batch_size    |-> d.batch_size,
        thermal_limit |-> IF a.quick THEN NoLimit ELSE Override(a.thermal, DefaultLimit) ]

(* The flags are numbers and stay below the wrap (NoWrapAssumption); every  *)
(* case can be registered.                                                  *)
ASSUME ConfigAssumption ==
  /\ \A a \in Arguments :
       LET c == Config(a)
       IN  /\ c \in [ warmup_reps: Nat, bench_reps: Nat, batch_size: Nat,
                     thermal_limit: Limits ]
           /\ c.bench_reps + c.batch_size + 1 <= U32
  /\ DOMAIN Catalogue \subseteq CaseNames

(* name, or name_k for a case with a batch_k.                               *)
label(c)    == << c.name, c.batch_k >>

want(mech)  == args.only = NoFlag \/ args.only = mech
matches(c)  == args.case = NoFlag \/ label(c) \in args.case
Selected(i) == want(Catalogue[i].mech) /\ matches(Catalogue[i].case)

Say(kind) == stdout' = stdout \cup {kind}

(* A mistake: progress always goes to standard output.                      *)
ProgressToStdout == Say("progress")

(* Progress goes to stderr in CSV mode.                                     *)
Progress  == IF args.csv THEN UNCHANGED stdout ELSE Say("progress")

MainInit ==
  /\ args \in Arguments
  /\ phase = "banner" /\ next = 1
  /\ prepared = << >> /\ stdout = {} /\ printed = << >>
  /\ json = FALSE /\ code = 0
  /\ cfg = Config(args)
  /\ cases = << >>
  /\ pc = "warmup" /\ RunInit

Banner ==
  /\ phase = "banner"
  /\ phase' = "register"
  /\ Progress
  /\ UNCHANGED <<args, next, prepared, printed, json, code, cfg, cases, pc, idx,
                 cur, results, zones, log>>

(* Mistakes: the filter comes after setup(); a case is put before the rest. *)
registerSetupFirst(i) ==
  /\ prepared' = Append(prepared, i)
  /\ cases' = IF matches(Catalogue[i].case) THEN Append(cases, i) ELSE cases

registerInFront(i) ==
  IF matches(Catalogue[i].case)
  THEN prepared' = Append(prepared, i) /\ cases' = << i >> \o cases
  ELSE UNCHANGED <<prepared, cases>>

(* BenchSuite::register: the filter comes first, then setup() runs at once. *)
register(i) ==
  IF matches(Catalogue[i].case)
  THEN prepared' = Append(prepared, i) /\ cases' = Append(cases, i)
  ELSE UNCHANGED <<prepared, cases>>

(* The register functions of the mechanisms wanted, case by case.           *)
RegisterNext ==
  /\ phase = "register" /\ next <= Len(Catalogue)
  /\ IF want(Catalogue[next].mech) THEN register(next)
                                   ELSE UNCHANGED <<prepared, cases>>
  /\ next' = next + 1
  /\ UNCHANGED <<args, phase, stdout, printed, json, code, cfg, pc, idx, cur,
                 results, zones, log>>

(* A mistake: --only can bring about the error as well.                     *)
NothingRegistered == cases = << >>

NothingMatched == args.case # NoFlag /\ cases = << >>

StartRun ==
  /\ phase = "register" /\ next > Len(Catalogue)
  /\ IF NothingMatched
     THEN phase' = "exited" /\ code' = 1
     ELSE phase' = "run" /\ UNCHANGED code
  /\ UNCHANGED <<args, next, prepared, stdout, printed, json, cfg, cases, pc,
                 idx, cur, results, zones, log>>

Run ==
  /\ phase = "run" /\ Running
  /\ RunStep
  /\ Progress
  /\ UNCHANGED <<args, phase, next, prepared, printed, json, code>>

(* The panics of setup() and of a case's closure, where a library refuses   *)
(* the benchmark's constants, are left out.                                 *)
Panic ==
  /\ phase = "run" /\ pc = "panicked"
  /\ phase' = "exited" /\ code' = 101
  /\ UNCHANGED <<args, next, prepared, stdout, printed, json, cfg, cases, pc,
                 idx, cur, results, zones, log>>

(* The file may turn out not to be writable: expect() panics.               *)
Report ==
  /\ phase = "run" /\ pc = "finished"
  /\ phase' = "exited"
  /\ printed' = results
  /\ Say(IF args.csv THEN "csv" ELSE "table")
  /\ IF ~args.csv /\ args.json
     THEN json' \in BOOLEAN /\ code' = IF json' THEN 0 ELSE 101
     ELSE UNCHANGED <<json, code>>
  /\ UNCHANGED <<args, next, prepared, cfg, cases, pc, idx, cur, results, zones, log>>

MainStep ==
  Banner \/ RegisterNext \/ StartRun \/ Run \/ Panic \/ Report

Environment ==
  /\ phase = "run" /\ TempChanges
  /\ UNCHANGED mainVars

MainNext == MainStep \/ Environment

MainSpec == MainInit /\ [][MainNext]_allVars /\ WF_allVars(MainStep)

-----------------------------------------------------------------------------
NoCategory == ""

(* What print_table prints: a heading and its rows, flushed whenever the    *)
(* category changes and once more at the end.                               *)
flush(t) ==
  IF t.rows = << >> THEN t.sections
  ELSE Append(t.sections, [category |-> t.current_cat, rows |-> t.rows])

AddRow(t, r) ==
  IF r.category # t.current_cat
  THEN [current_cat |-> r.category, rows |-> << r >>, sections |-> flush(t)]
  ELSE [t EXCEPT !.rows = Append(@, r)]

Sections(rs) ==
  LET t[n \in 0 .. Len(rs)] ==
        IF n = 0 THEN [current_cat |-> NoCategory, rows |-> << >>, sections |-> << >>]
                 ELSE AddRow(t[n - 1], rs[n])
  IN  flush(t[Len(rs)])

-----------------------------------------------------------------------------
(* Properties.                                                              *)
Exited   == phase = "exited"
Reported == [i \in DOMAIN printed |-> Catalogue[printed[i].name].case]

(* "checked before setup runs" (runner.rs:84): the untimed setup, minutes   *)
(* for some cases, is spent on the selected cases only, once on each.       *)
SetupOnlySelected ==
  /\ \A i \in DOMAIN prepared : Selected(prepared[i])
  /\ \A i, j \in DOMAIN prepared : prepared[i] = prepared[j] => i = j

(* A run that exits with 0 has printed one result for each selected case of *)
(* the catalogue, in order, whatever combination of --only and --case       *)
(* selected them.                                                           *)
ReportsTheSelection ==
  Exited /\ code = 0 =>
    /\ \A i, j \in DOMAIN printed : i < j => printed[i].name < printed[j].name
    /\ { printed[i].name : i \in DOMAIN printed } = { i \in DOMAIN Catalogue : Selected(i) }

(* "one section per mechanism" (types.rs:102): the table has one heading    *)
(* for each category that was measured and all its cases under it, in       *)
(* order, although it is cut wherever the category of consecutive results   *)
(* differs and the cases are registered by four modules.                    *)
OneSectionEach ==
  LET secs == Sections(Reported)
  IN  "table" \in stdout =>
        /\ \A i, j \in DOMAIN secs : secs[i].category = secs[j].category => i = j
        /\ \A i \in DOMAIN secs :
             LET under == { k \in DOMAIN Reported :
                              Reported[k].category = secs[i].category }
             IN  /\ under = Min(under) .. Max(under)
                 /\ secs[i].rows = SubSeq(Reported, Min(under), Max(under))
        /\ { secs[i].category : i \in DOMAIN secs } = { r.category : r \in Range(Reported) }

(* In CSV mode standard output carries CSV and nothing else (main.rs:90).   *)
CsvStdoutClean == args.csv => stdout \subseteq {"csv"}

(* A --case that selects nothing is told apart from an empty success: the   *)
(* status is 1 and no setup was wasted (main.rs:119).                       *)
EmptyFilterFails ==
  Exited => (code = 1 <=> args.case # NoFlag /\ prepared = << >>)

(* --quick always disables the thermal gate, even with --thermal: however   *)
(* hot the phone stays, the process ends (main.rs:69-71).                   *)
QuickAlwaysEnds == args.quick => <>Exited

(* A full run ends once the phone is cool for good.                         *)
FullEndsOnceCool == <>[]~Hot => <>Exited

(* main.rs:9: --json PATH writes machine-readable results to PATH.          *)
JsonAsAsked == Exited /\ code = 0 /\ args.json => json
=============================================================================
