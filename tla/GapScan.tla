------------------------------ MODULE GapScan -------------------------------
(***************************************************************************)
(* Holder Update of the signed-pair mechanisms: the holder scans the list  *)
(* of signed gaps for the one its identifier lies in and verifies a        *)
(* signature (src/bench_bbs_bpp.rs and src/bench_ecdsa.rs).  A signature   *)
(* is the message it is on: it verifies for that message and no other.     *)
(***************************************************************************)
EXTENDS Integers, Sequences

CONSTANTS
  Totals,       \* lengths of the list, LIST_BASE_SIZE + k + 1 in the code
  Epoch,        \* 1025
  Credential    \* <<LOWER_ID, UPPER_ID, REV_HANDLE_VAL>>, what rev_sig is on

ASSUME ScanAssumption == Totals \subseteq Nat \ {0}

VARIABLES
  mech,      \* which mechanism
  n,         \* length of its list
  pos,       \* the gap the scan looks at
  outcome    \* "scanning", or what the repetition returns as its verdict

scanVars == <<mech, n, pos, outcome>>

half == n \div 2

(* Gap i, counting from one, of the list bench_ecdsa builds ...             *)
EcdsaGap(i) == [lo |-> 10 * (i - 1), hi |-> 10 * (i - 1) + 9]

(* ... and of the one bench_bbs_bpp builds: a gap with an identifier inside *)
(* after `half` gaps that are two consecutive revoked ones.                 *)
BbsGap(i) ==
  LET target_lo == 2 * half
      target_hi == target_lo + 2
  IN  CASE i <= half     -> [lo |-> 2 * (i - 1), hi |-> 2 * (i - 1) + 1]
        [] i = half + 1  -> [lo |-> target_lo, hi |-> target_hi]
        [] i > half + 1  -> [lo |-> target_hi + 1 + 2 * (i - half - 2),
                             hi |-> target_hi + 2 + 2 * (i - half - 2)]

gap(i) == IF mech = "ecdsa" THEN EcdsaGap(i) ELSE BbsGap(i)

uid == IF mech = "ecdsa" THEN 10 * half + 4 ELSE 2 * half + 1

(* A mistake: the upper end is not looked at.                               *)
CoversLow(g) == g.lo <= uid

(* The test the scan applies, both ends included.                           *)
Covers(g) == g.lo <= uid /\ uid <= g.hi

(* The messages the setup signs.                                            *)
encode_gap(g) == <<Epoch, g.lo, g.hi>>
Signed(g)     == IF mech = "ecdsa" THEN encode_gap(g) ELSE Credential

(* A mistake: the ends of the gap are encoded in the other order.           *)
CheckedSwapped(g) == IF mech = "ecdsa" THEN <<Epoch, g.hi, g.lo>> ELSE Credential

(* The message whose signature is checked once gap g is found: the gap's    *)
(* own with ECDSA, the one credential there is with BBS+.                   *)
Checked(g) == IF mech = "ecdsa" THEN encode_gap(g) ELSE Credential

-----------------------------------------------------------------------------
ScanInit ==
  /\ mech \in {"ecdsa", "bbs"}
  /\ n \in Totals
  /\ pos = 1
  /\ outcome = "scanning"

Skip ==
  /\ outcome = "scanning" /\ pos <= n
  /\ ~Covers(gap(pos))
  /\ pos' = pos + 1
  /\ UNCHANGED <<mech, n, outcome>>

Decide ==
  /\ outcome = "scanning"
  /\ pos <= n => Covers(gap(pos))
  /\ outcome' = IF pos <= n /\ Checked(gap(pos)) = Signed(gap(pos))
                THEN "ok" ELSE "failed"
  /\ UNCHANGED <<mech, n, pos>>

ScanNext == Skip \/ Decide

-----------------------------------------------------------------------------
(* Properties.                                                              *)

(* The holder's identifier lies in one gap of the list only, though the     *)
(* test includes both ends and neighbours are consecutive: where the scan   *)
(* stops does not depend on the order of the list.                          *)
OnlyHit ==
  outcome = "ok" => \A i \in 1 .. n : Covers(gap(i)) <=> i = pos
=============================================================================
