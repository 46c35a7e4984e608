--------------------------- MODULE MCZKMembership ---------------------------
(* p = 11, q = 23: 55 quadratic residues.  Elements of three bits, two-bit   *)
(* challenges, the ends of every range random_range draws from.             *)
EXTENDS ZKMembership

MCItems     == {3, 7}
MCBatch     == {3 * 7 * 3}      \* the product of a batch: longer than H2P_SIZE
MCWitnesses == Group
MCValues    == {0, 1, 5, 11, 23}
MCBases     == { <<1, 2>>, <<5, 3>> }

Coin(rs, a, e, b) ==
  [ r_1 |-> rs[1], r_2 |-> rs[2], r_3 |-> rs[3], alpha |-> a,
    epsilon |-> e, eta |-> -e, zeta |-> e - 1, beta |-> b, delta |-> b \div 3 ]

MCCoins ==
  { Coin(<<0, 0, 0>>, -AlphaRange, -17, ProdRange - 1),
    Coin(<<n_fourths - 1, 5, 12>>, AlphaRange - 1, AuxRange - 1, -ProdRange),
    Coin(<<3, n_fourths - 1, 1>>, 7, 40, 41) }
=============================================================================
