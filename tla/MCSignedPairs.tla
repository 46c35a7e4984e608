--------------------------- MODULE MCSignedPairs ----------------------------
(* Lists of 1 to 40 gaps, of even and odd length, in place of 100,002;       *)
(* two-bit identifiers in a four-bit word and a field of 17 elements, with   *)
(* ranges below, at and above the size of the word and the field.            *)
EXTENDS SignedPairs
MCTotals     == 1 .. 40
MCCredential == <<1000, 2000, 1500>>
MCIds        == 0 .. (RANGE - 1)
MCWidths     == {4, 8, 16, 32}
MCRands      == { <<0, 0, 0>>, <<16, 7, 12>> }
=============================================================================
