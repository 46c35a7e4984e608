---------------------------- MODULE SignedPairs -----------------------------
(***************************************************************************)
(* One case of the signed-pair mechanisms: Holder Update (GapScan) or a    *)
(* proof (GapProof).  A case never touches the state of another.           *)
(***************************************************************************)
EXTENDS GapScan, GapProof

vars == <<scanVars, proofVars>>

(* The parts of the state that the other case leaves unset.                 *)
NoScan  == mech = "none" /\ n = 0 /\ pos = 0 /\ outcome = "none"
NoProof == /\ kind = "none" /\ signed = << >> /\ ids = << >> /\ range = 0
           /\ coms = << >> /\ composite = << >> /\ bpp = << >> /\ verdict = "none"

Init == (ScanInit /\ NoProof) \/ (NoScan /\ ProofInit)

Next == \/ kind = "none" /\ ScanNext /\ UNCHANGED proofVars
        \/ mech = "none" /\ ProofNext /\ UNCHANGED scanVars

(* One thread runs the case to its end.                                     *)
Spec == Init /\ [][Next]_vars /\ WF_vars(Next)

-----------------------------------------------------------------------------
(* Properties.                                                              *)

(* Every repetition of Holder Update finds the holder's gap and passes its  *)
(* check, with either mechanism and every length of list.                   *)
UpdateSucceeds == mech # "none" ~> outcome = "ok"
=============================================================================
