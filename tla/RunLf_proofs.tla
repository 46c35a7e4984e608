---------------------------- MODULE RunLf_proofs ----------------------------
(***************************************************************************)
(* Proofs about RunLf, for any number of benchmarks and repetitions and    *)
(* whatever fails on the phone or between it and the host.                 *)
(***************************************************************************)
EXTENDS RunLf, TLAPS

(* Where a file that bears the name n may come from.                        *)
Own(n, f) == f = NoFile \/ f = Before \/ f.made = n

(* What is kept of a repetition and what was said of it agree.              *)
Agree(n) ==
  /\ Own(n, device[n]) /\ Own(n, work[n])
  /\ report[n] = "ok" <=> work[n].valid
  /\ report[n] = "ok" <=> work[n] # NoFile
  /\ report[n] \in {"none", "ok", "failed"}

(* The repetitions before the current one, in the order of the two loops.   *)
Earlier(n) == n[1] < bench \/ (n[1] = bench /\ n[2] < i)

Types ==
  /\ reps \in Nat
  /\ pc \in {"push", "run", "collect", "merge", "exited"}
  /\ bench \in 1 .. NumBenches /\ i \in Nat \ {0}
  /\ pc = "push" => i = 1 /\ bench = 1
  /\ pc \in {"run", "collect"} => i <= reps
  /\ DOMAIN device = Names /\ DOMAIN work = Names /\ DOMAIN report = Names

(* No repetition is left out on the way to the merge.                       *)
Progress ==
  /\ pc = "push" => \A n \in Names : report[n] = "none"
  /\ pc \in {"run", "collect"} => \A n \in Names : Earlier(n) <=> report[n] # "none"
  /\ pc = "merge" => \A n \in Names : report[n] # "none"
  /\ pc = "exited" => AllTried

IInv ==
  /\ Types
  /\ \A n \in Names : Agree(n)
  /\ Progress
  /\ MergeMatchesReport
  /\ AbortsOnlySilently
  /\ pc # "exited" => output = NoOutput

-----------------------------------------------------------------------------
(* A file that is not there is not taken for a good one.                    *)
LEMMA NoFileInvalid == ~NoFile.valid
  BY DEF NoFile

(* Nothing is collected before the first repetition.                        *)
LEMMA InitOK == Init => IInv
<1> SUFFICES ASSUME Init PROVE IInv
  OBVIOUS
<1>1. Types
  BY RunLfAssumption DEF Init, Types
<1>2. ASSUME NEW n \in Names
      PROVE  Agree(n)
  <2>1. device[n] \in {NoFile, Before} /\ work[n] = NoFile /\ report[n] = "none"
    BY DEF Init
  <2> QED BY <2>1, NoFileInvalid DEF Agree, Own
<1>3. \A n \in Names : report[n] = "none"
  BY DEF Init
<1> QED BY <1>1, <1>2, <1>3 DEF Init, IInv, Progress, MergeMatchesReport, AbortsOnlySilently

(* A step that leaves what was collected and reported alone.                *)
LEMMA AgreeStays ==
  ASSUME \A n \in Names : Agree(n), UNCHANGED <<reps, device, work, report>>
  PROVE  \A n \in Names' : Agree(n)'
  BY DEF Agree, Names, Own

(* adb fails: the script ends at once.                                      *)
LEMMA DisconnectOK == ASSUME IInv, Disconnect PROVE IInv'
<1>1. Types'
  BY DEF IInv, Types, Disconnect, Names
<1>2. (\A n \in Names : Agree(n))'
  BY AgreeStays DEF IInv, Disconnect
<1>3. Progress'
  BY DEF Disconnect, Progress, AllTried
<1> QED BY <1>1, <1>2, <1>3 DEF IInv, Disconnect, MergeMatchesReport, AbortsOnlySilently

(* The loops begin, unless there is nothing to repeat.                      *)
LEMMA PushOK == ASSUME IInv, Push PROVE IInv'
<1>1. Types'
  BY DEF IInv, Types, Push, Names
<1>2. (\A n \in Names : Agree(n))'
  BY AgreeStays DEF IInv, Push
<1>3. Progress'
  <2>1. \A n \in Names : ~Earlier(n)
    BY DEF IInv, Types, Push, Names, Earlier
  <2>2. reps = 0 => Names = {}
    BY DEF Names
  <2>3. \A n \in Names : report[n] = "none"
    BY DEF IInv, Push, Progress
  <2>4. /\ UNCHANGED <<reps, bench, i, report>> /\ pc' \in {"run", "merge"}
        /\ pc' = "merge" => reps = 0
    BY DEF Push
  <2> QED BY <2>1, <2>2, <2>3, <2>4 DEF Progress, Names, Earlier
<1> QED BY <1>1, <1>2, <1>3 DEF IInv, Push, MergeMatchesReport, AbortsOnlySilently

(* The benchmark writes its own file or none.                               *)
LEMMA RunBenchOK == ASSUME IInv, RunBench PROVE IInv'
<1>1. Types'
  BY DEF IInv, Types, RunBench, Names
<1>2. /\ cur \in Names /\ remote_json(bench, i) = cur
      /\ UNCHANGED <<reps, work, report>> /\ DOMAIN device = Names
      /\ \A n \in Names : device'[n] = device[n] \/ (n = cur /\ device'[n].made = cur)
  BY DEF IInv, Types, RunBench, Names, cur, remote_json
<1>3. (\A n \in Names : Agree(n))'
  BY <1>2 DEF IInv, Agree, Names, Own
<1>4. Progress'
  BY DEF IInv, RunBench, Progress, Names, Earlier
<1> QED BY <1>1, <1>3, <1>4 DEF IInv, RunBench, MergeMatchesReport, AbortsOnlySilently

(* Whatever the loops do next, nothing is left out or tried again.          *)
LEMMA AdvanceOK ==
  ASSUME Types, pc = "collect", Advance, UNCHANGED reps, NEW n \in Names
  PROVE  /\ pc' = "run" => (Earlier(n)' <=> Earlier(n) \/ n = cur)
         /\ pc' = "merge" => Earlier(n) \/ n = cur
<1>1. n = <<n[1], n[2]>> /\ n[1] \in 1 .. NumBenches /\ n[2] \in 1 .. reps
  BY DEF Names
<1>2. bench \in 1 .. NumBenches /\ i \in 1 .. reps /\ NumBenches \in Nat /\ reps \in Nat
  BY RunLfAssumption DEF Types
<1>3. CASE i < reps
  BY <1>1, <1>2, <1>3 DEF Advance, Earlier, cur
<1>4. CASE ~(i < reps) /\ bench < NumBenches
  BY <1>1, <1>2, <1>4 DEF Advance, Earlier, cur
<1>5. CASE ~(i < reps) /\ ~(bench < NumBenches)
  BY <1>1, <1>2, <1>5 DEF Advance, Earlier, cur
<1> QED BY <1>3, <1>4, <1>5

(* A repetition is reported, and its file kept if it is good.               *)
LEMMA CollectOK == ASSUME IInv, Collect PROVE IInv'
<1>1. PICK pulled \in {device[remote_json(bench, i)], NoFile} :
        IF pulled.valid
        THEN /\ work' = [work EXCEPT ![cur] = pulled]
             /\ report' = [report EXCEPT ![cur] = "ok"]
             /\ Advance
        ELSE /\ report' = [report EXCEPT ![cur] = "failed"]
             /\ work' = [work EXCEPT ![cur] = NoFile]
             /\ IF said THEN Advance ELSE pc' = "exited" /\ UNCHANGED <<bench, i>>
  BY DEF Collect
<1>2. /\ pc = "collect" /\ cur \in Names /\ remote_json(bench, i) = cur
      /\ UNCHANGED <<reps, said, device, lost, output>> /\ Names' = Names
      /\ Types /\ output = NoOutput
  BY DEF IInv, Types, Collect, Names, cur, remote_json
<1>3. /\ report' = [report EXCEPT ![cur] = IF pulled.valid THEN "ok" ELSE "failed"]
      /\ work' = [work EXCEPT ![cur] = IF pulled.valid THEN pulled ELSE NoFile]
      /\ Advance \/ (pc' = "exited" /\ UNCHANGED <<bench, i>> /\ ~pulled.valid /\ ~said)
  BY <1>1
<1>4. Types'
  <2>1. DOMAIN work' = Names /\ DOMAIN report' = Names
    BY <1>2, <1>3 DEF Types
  <2>2. CASE Advance
    BY <1>2, <2>1, <2>2, RunLfAssumption DEF Types, Advance
  <2>3. CASE pc' = "exited" /\ UNCHANGED <<bench, i>>
    BY <1>2, <2>1, <2>3 DEF Types
  <2> QED BY <1>3, <2>2, <2>3
<1>5. ASSUME NEW n \in Names
      PROVE  Agree(n)'
  <2>1. Agree(n) /\ DOMAIN work = Names /\ DOMAIN report = Names
    BY <1>2 DEF IInv, Types
  <2>2. CASE n # cur
    <3>1. report'[n] = report[n] /\ work'[n] = work[n] /\ device'[n] = device[n]
      BY <1>2, <1>3, <2>1, <2>2
    <3> QED BY <2>1, <3>1 DEF Agree, Own
  <2>3. CASE n = cur /\ pulled.valid
    <3>1. report'[n] = "ok" /\ work'[n] = pulled /\ device'[n] = device[n]
      BY <1>2, <1>3, <2>1, <2>3
    <3>2. pulled # NoFile /\ Own(n, pulled)
      BY <1>2, <2>1, <2>3, NoFileInvalid DEF Agree, Own
    <3> QED BY <2>1, <2>3, <3>1, <3>2 DEF Agree, Own
  <2>4. CASE n = cur /\ ~pulled.valid
    <3>1. report'[n] = "failed" /\ work'[n] = NoFile /\ device'[n] = device[n]
      BY <1>2, <1>3, <2>1, <2>4
    <3> QED BY <2>1, <3>1, NoFileInvalid DEF Agree, Own
  <2> QED BY <2>2, <2>3, <2>4
<1>6. Progress'
  <2>1. \A n \in Names : report'[n] # "none" <=> Earlier(n) \/ n = cur
    <3> SUFFICES ASSUME NEW n \in Names
                 PROVE  report'[n] # "none" <=> Earlier(n) \/ n = cur
      OBVIOUS
    <3>1. n = cur => report'[n] # "none"
      BY <1>2, <1>3 DEF Types
    <3>2. n # cur => report'[n] = report[n]
      BY <1>2, <1>3 DEF Types
    <3>3. Earlier(n) <=> report[n] # "none"
      BY <1>2 DEF IInv, Progress
    <3> QED BY <3>1, <3>2, <3>3
  <2>2. CASE Advance
    <3>1. pc' \in {"run", "merge"}
      BY <2>2 DEF Advance
    <3>2. \A n \in Names : /\ pc' = "run" => (Earlier(n)' <=> Earlier(n) \/ n = cur)
                           /\ pc' = "merge" => Earlier(n) \/ n = cur
      BY <1>2, <2>2, AdvanceOK
    <3> QED BY <1>2, <2>1, <3>1, <3>2 DEF Progress
  <2>3. CASE pc' = "exited" /\ UNCHANGED <<bench, i>> /\ ~pulled.valid /\ ~said
    <3>1. report'[cur] = "failed" /\ cur' = cur /\ ~said'
      BY <1>2, <1>3, <2>3 DEF Types, cur
    <3>2. \A n \in Names :
            (n[1] < bench \/ (n[1] = bench /\ n[2] <= i)) <=> Earlier(n) \/ n = cur
      <4>1. i \in Nat /\ bench \in Nat
        BY <1>2, RunLfAssumption DEF Types
      <4> QED BY <4>1 DEF Names, Earlier, cur
    <3>3. AllTried'
      BY <1>2, <2>1, <2>3, <3>1, <3>2 DEF AllTried
    <3> QED BY <2>3, <3>3 DEF Progress
  <2> QED BY <1>3, <2>2, <2>3
<1>7. AbortsOnlySilently'
  <2>1. Advance => pc' # "exited"
    BY DEF Advance
  <2>2. ~Advance => report'[cur] = "failed" /\ cur' = cur /\ ~said'
    BY <1>2, <1>3 DEF Types, cur
  <2> QED BY <2>1, <2>2 DEF AbortsOnlySilently
<1>8. pc' \in {"run", "merge", "exited"} /\ output' = NoOutput
  BY <1>2, <1>3 DEF Advance
<1> QED BY <1>2, <1>4, <1>5, <1>6, <1>7, <1>8 DEF IInv, MergeMatchesReport

(* What is merged is what was reported.                                     *)
LEMMA MergeOK == ASSUME IInv, Merge PROVE IInv'
<1>1. /\ UNCHANGED <<reps, bench, i, said, device, work, report, lost>>
      /\ pc = "merge" /\ pc' = "exited" /\ Names' = Names
  BY DEF Merge, Names
<1>2. Types'
  BY <1>1 DEF IInv, Types
<1>3. (\A n \in Names : Agree(n))'
  BY <1>1, AgreeStays DEF IInv
<1>4. Progress'
  <2>1. \A n \in Names : report[n] # "none"
    BY <1>1 DEF IInv, Progress
  <2>2. AllTried'
    BY <1>1, <2>1 DEF AllTried
  <2> QED BY <1>1, <2>2 DEF Progress
<1>5. CASE \A n \in Names : work[n] = NoFile
  <2>1. output' = NoOutput
    BY <1>5 DEF Merge
  <2>2. \A n \in Names : report[n] = "failed"
    BY <1>1, <1>5 DEF IInv, Agree, Progress
  <2> QED BY <1>1, <1>2, <1>3, <1>4, <2>1, <2>2
      DEF IInv, MergeMatchesReport, AbortsOnlySilently
<1>6. CASE ~\A n \in Names : work[n] = NoFile
  <2>1. output' = [b \in 1 .. NumBenches |->
                    Cardinality({ n \in Names : n[1] = b /\ work[n].valid })]
    BY <1>6 DEF Merge
  <2>2. output' # NoOutput
    <3>1. 1 \in DOMAIN output'
      BY <2>1, RunLfAssumption
    <3>2. 1 \notin DOMAIN NoOutput
      BY DEF NoOutput
    <3> QED BY <3>1, <3>2
  <2>3. \A b \in 1 .. NumBenches :
          { n \in Names : n[1] = b /\ work[n].valid }
            = { n \in Names : n[1] = b /\ report[n] = "ok" }
    BY DEF IInv, Agree
  <2>4. MergeMatchesReport'
    BY <1>1, <2>1, <2>3 DEF MergeMatchesReport
  <2> QED BY <1>1, <1>2, <1>3, <1>4, <2>2, <2>4 DEF IInv, AbortsOnlySilently
<1> QED BY <1>5, <1>6

(* The inductive invariant: what is kept, reported and tried so far agree.  *)
THEOREM Invariance == Spec => []IInv
<1>1. Init => IInv
  BY InitOK
<1>2. IInv /\ [Next]_vars => IInv'
  <2> SUFFICES ASSUME IInv, [Next]_vars PROVE IInv'
    OBVIOUS
  <2>1. CASE Disconnect
    BY <2>1, DisconnectOK
  <2>2. CASE Push
    BY <2>2, PushOK
  <2>3. CASE RunBench
    BY <2>3, RunBenchOK
  <2>4. CASE Collect
    BY <2>4, CollectOK
  <2>5. CASE Merge
    BY <2>5, MergeOK
  <2>6. CASE UNCHANGED vars
    <3>1. (\A n \in Names : Agree(n))'
      BY <2>6, AgreeStays DEF IInv, vars
    <3> QED BY <2>6, <3>1 DEF vars, IInv, Types, Progress, Earlier, Names, cur,
                              AllTried, MergeMatchesReport, AbortsOnlySilently
  <2> QED BY <2>1, <2>2, <2>3, <2>4, <2>5, <2>6 DEF Next
<1> QED BY <1>1, <1>2, PTL DEF Spec

-----------------------------------------------------------------------------
(* android.sh:404: a file collected for a repetition was written by it or   *)
(* before this run of the script, never by another repetition.              *)
THEOREM Provenance == Spec => []OwnOrLeftOver
<1>1. IInv => OwnOrLeftOver
  BY DEF IInv, Agree, Own, OwnOrLeftOver
<1> QED BY <1>1, Invariance, PTL

(* android.sh:424-456: the merged file has one entry for every repetition   *)
(* reported "ok" and no other.                                              *)
THEOREM MergeCounts == Spec => []MergeMatchesReport
<1>1. IInv => MergeMatchesReport
  BY DEF IInv
<1> QED BY <1>1, Invariance, PTL

(* android.sh:390-419: a script that has ended tried every repetition, but  *)
(* for what came after a failure of adb or a silent one.                    *)
THEOREM NothingLeftOut == Spec => [](pc = "exited" => AllTried)
<1>1. IInv => (pc = "exited" => AllTried)
  BY DEF IInv, Progress
<1> QED BY <1>1, Invariance, PTL

(* android.sh:415: the script gives up early only if adb failed or the last *)
(* repetition failed without a word.                                        *)
THEOREM AbortsExplained == Spec => []AbortsOnlySilently
<1>1. IInv => AbortsOnlySilently
  BY DEF IInv
<1> QED BY <1>1, Invariance, PTL
=============================================================================
