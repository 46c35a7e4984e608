------------------------------- MODULE RunLf --------------------------------
(***************************************************************************)
(* cmd_run_lf (src/scripts/android.sh): each Longfellow benchmark is run   *)
(* on the phone a number of times, every repetition writing a JSON file    *)
(* there which is pulled and looked at; what was collected is merged.  The *)
(* phone, adb and the benchmark fail as they please.  The script runs      *)
(* under `set -euo pipefail`: a command that fails where nothing catches   *)
(* it ends the script.                                                     *)
(*                                                                         *)
(* A file is what wrote it and whether the benchmark's entry is in it.     *)
(***************************************************************************)
EXTENDS Integers, FiniteSets

CONSTANTS
  NumBenches,    \* the length of the list benches
  RepsGiven      \* the values of REPS

ASSUME RunLfAssumption == NumBenches \in Nat \ {0} /\ RepsGiven \subseteq Nat

VARIABLES
  reps,
  pc,            \* "push", "run", "collect", "merge" or "exited"
  bench, i,      \* the loop variables
  said,          \* whether the repetition printed anything: dev_out
  device,        \* the JSON files on the phone, by name
  work,          \* the JSON files in the temporary directory, by name
  report,        \* what was printed of each repetition
  lost,          \* history variable: whether a call of adb ended the script
  output         \* the merged file: how many entries each benchmark has

vars == <<reps, pc, bench, i, said, device, work, report, lost, output>>

NoFile  == [made |-> <<0, 0>>, valid |-> FALSE]
Before  == [made |-> <<-1, 0>>, valid |-> TRUE]   \* left by an earlier run
NoOutput == << >>

Names == (1 .. NumBenches) \X (1 .. reps)
cur   == <<bench, i>>

(* A mistake: the repetition is not part of the name.                       *)
remote_jsonOfBench(b, r) == <<b, 1>>

(* Two repetitions never share a name, two runs of the script always do.    *)
remote_json(b, r) == <<b, r>>

Init ==
  /\ reps \in RepsGiven
  /\ pc = "push" /\ bench = 1 /\ i = 1 /\ said = FALSE
  /\ device \in [Names -> {NoFile, Before}]
  /\ work = [n \in Names |-> NoFile]
  /\ report = [n \in Names |-> "none"]
  /\ lost = FALSE /\ output = NoOutput

(* adb itself fails where nothing catches it.                               *)
Disconnect ==
  /\ pc \in {"push", "run"}
  /\ pc' = "exited" /\ lost' = TRUE
  /\ UNCHANGED <<reps, bench, i, said, device, work, report, output>>

(* The binary is replaced, the files of earlier runs are left.              *)
Push ==
  /\ pc = "push"
  /\ pc' = IF reps = 0 THEN "merge" ELSE "run"
  /\ UNCHANGED <<reps, bench, i, said, device, work, report, lost, output>>

(* The benchmark runs; `; echo` hides its status.  It may end before it has *)
(* opened its file, before it has written it, or well.                      *)
RunBench ==
  /\ pc = "run"
  /\ \/ UNCHANGED device /\ said' \in BOOLEAN
     \/ /\ device' = [device EXCEPT ![remote_json(bench, i)] = [made |-> cur, valid |-> FALSE]]
        /\ said' \in BOOLEAN
     \/ /\ device' = [device EXCEPT ![remote_json(bench, i)] = [made |-> cur, valid |-> TRUE]]
        /\ said' = TRUE
  /\ pc' = "collect"
  /\ UNCHANGED <<reps, bench, i, work, report, lost, output>>

(* A mistake: after the last repetition of a benchmark comes the merge.     *)
AdvanceToMerge ==
  IF i < reps THEN i' = i + 1 /\ bench' = bench /\ pc' = "run"
  ELSE pc' = "merge" /\ UNCHANGED <<bench, i>>

(* To the next repetition, the next benchmark or the merge.                 *)
Advance ==
  IF i < reps THEN i' = i + 1 /\ bench' = bench /\ pc' = "run"
  ELSE IF bench < NumBenches THEN i' = 1 /\ bench' = bench + 1 /\ pc' = "run"
  ELSE pc' = "merge" /\ UNCHANGED <<bench, i>>

(* A mistake: whatever can be pulled is good.                               *)
CollectAny ==
  /\ pc = "collect"
  /\ \E pulled \in {device[remote_json(bench, i)], NoFile} :
       IF pulled # NoFile
       THEN /\ work' = [work EXCEPT ![cur] = pulled]
            /\ report' = [report EXCEPT ![cur] = "ok"]
            /\ Advance
       ELSE /\ report' = [report EXCEPT ![cur] = "failed"]
            /\ work' = [work EXCEPT ![cur] = NoFile]
            /\ IF said THEN Advance ELSE pc' = "exited" /\ UNCHANGED <<bench, i>>
  /\ UNCHANGED <<reps, said, device, lost, output>>

(* A mistake: a failure is not told apart from an error of the script.      *)
CollectAborts ==
  /\ pc = "collect"
  /\ \E pulled \in {device[remote_json(bench, i)], NoFile} :
       IF pulled.valid
       THEN /\ work' = [work EXCEPT ![cur] = pulled]
            /\ report' = [report EXCEPT ![cur] = "ok"]
            /\ Advance
       ELSE /\ report' = [report EXCEPT ![cur] = "failed"]
            /\ work' = [work EXCEPT ![cur] = NoFile]
            /\ pc' = "exited" /\ UNCHANGED <<bench, i>>
  /\ UNCHANGED <<reps, said, device, lost, output>>

(* The file is pulled, if adb can, looked at, and removed if it is no good. *)
(* After a failure what the repetition printed is passed on through grep,   *)
(* which fails when there is nothing to pass on, and with it the pipeline   *)
(* and the script.                                                          *)
Collect ==
  /\ pc = "collect"
  /\ \E pulled \in {device[remote_json(bench, i)], NoFile} :
       IF pulled.valid
       THEN /\ work' = [work EXCEPT ![cur] = pulled]
            /\ report' = [report EXCEPT ![cur] = "ok"]
            /\ Advance
       ELSE /\ report' = [report EXCEPT ![cur] = "failed"]
            /\ work' = [work EXCEPT ![cur] = NoFile]
            /\ IF said THEN Advance ELSE pc' = "exited" /\ UNCHANGED <<bench, i>>
  /\ UNCHANGED <<reps, said, device, lost, output>>

(* Every file that parses contributes its entry; no file is an error.       *)
Merge ==
  /\ pc = "merge"
  /\ pc' = "exited"
  /\ output' = IF \A n \in Names : work[n] = NoFile THEN NoOutput
               ELSE [b \in 1 .. NumBenches |->
                       Cardinality({ n \in Names : n[1] = b /\ work[n].valid })]
  /\ UNCHANGED <<reps, bench, i, said, device, work, report, lost>>

Next == Disconnect \/ Push \/ RunBench \/ Collect \/ Merge

(* Every command returns: the benchmark does not run for ever and adb gives *)
(* up at some time.                                                         *)
Spec == Init /\ [][Next]_vars /\ WF_vars(Next)

-----------------------------------------------------------------------------
(* Properties.                                                              *)

(* The file that is collected for a repetition was written by it, or lay on *)
(* the phone since an earlier run of the script (android.sh:404): never by  *)
(* another repetition of this run, however many crash in between.           *)
OwnOrLeftOver ==
  \A n \in Names : work[n] # NoFile => work[n].made = n \/ work[n] = Before

(* The merged file has one entry for every repetition reported "ok" and no  *)
(* other, so its `repetitions` is what the means are taken over.            *)
MergeMatchesReport ==
  output # NoOutput =>
    \A b \in 1 .. NumBenches :
      output[b] = Cardinality({ n \in Names : n[1] = b /\ report[n] = "ok" })

(* The script gives up early for two reasons only: adb failed, or the last  *)
(* repetition failed without printing anything (android.sh:415).  A         *)
(* repetition that fails with a message never costs the others.             *)
AbortsOnlySilently ==
  pc = "exited" /\ output = NoOutput =>
    \/ lost
    \/ \A n \in Names : report[n] = "failed"
    \/ report[cur] = "failed" /\ ~said

(* Whichever way the script ends, no repetition was left out, unless adb    *)
(* failed or one failed without printing anything: then those before it     *)
(* were tried and the rest never are.                                       *)
AllTried ==
  \/ lost
  \/ \A n \in Names : report[n] # "none"
  \/ /\ report[cur] = "failed" /\ ~said
     /\ \A n \in Names :
          report[n] # "none" <=> n[1] < bench \/ (n[1] = bench /\ n[2] <= i)

(* The script always comes to an end, and with every repetition tried,      *)
(* however many of them fail, but for those two reasons to stop early       *)
(* (android.sh:390-419).                                                    *)
Ends == <>(pc = "exited" /\ AllTried)
=============================================================================
