------------------------------ MODULE MCCLRSAB ------------------------------
(* Small instances of CLRSAB for TLC, with three elements.  The primes are   *)
(* chosen so that the product of any two elements exceeds phi, as the        *)
(* products of the real elements (256 bits each, up to 4096 of them) exceed  *)
(* the real phi, so that no product is 1 modulo p' or q', and so that in a   *)
(* group of some thousand residues no two values meet by chance.             *)
EXTENDS CLRSAB

(* p = 83, q = 467: all holders at once.                                     *)
MCElements      == {211, 251, 311}

(* p = 47, q = 719: one more removal, and the witness of one holder.         *)
MCMoreElements  == {563, 769, 1093}
MCInitialValues == {1}

(* Only one holder asks for a witness, and the other elements are back       *)
(* before the next removal: no witness depends on another holder's, nor on   *)
(* who is accumulated besides.                                               *)
OneHolder ==
  LET others == Elements \ {563}
  IN  /\ \A h \in others : wit[h] = NoWitness
      /\ \A e \in 1..(Epoch - 1) : others \subseteq history[e].items
=============================================================================
