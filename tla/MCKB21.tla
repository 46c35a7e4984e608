------------------------------- MODULE MCKB21 -------------------------------
(* Three holders, two revocations, one update out of turn, in a group of     *)
(* 2003 elements, large enough for no two values to meet by chance.          *)
EXTENDS KB21
MCElements == {3, 57, 200}
MCPrf      == [e \in MCElements |-> (e * e + 31 * e + 400) % R]
=============================================================================
