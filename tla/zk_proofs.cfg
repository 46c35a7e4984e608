SPECIFICATION Spec
CONSTANTS
  PP = 5
  QQ = 11
  H2P_SIZE = 3
  CHALLENGE_SIZE = 2
  NONCE_SIZE = 1
  Items <- MCItems
  Witnesses <- MCWitnesses
  Values <- MCValues
  Nonces = {n1, n2}
  Bases <- MCBases
  Coins <- MCCoins
INVARIANTS ProofComplete StaleWitnessRejected BoundToNonce HonestWithinBound
