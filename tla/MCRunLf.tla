------------------------------- MODULE MCRunLf ------------------------------
(* Two benchmarks in place of three, one to three repetitions or none, any   *)
(* files left on the phone.                                                  *)
EXTENDS RunLf
MCReps == 0 .. 3
=============================================================================
