SPECIFICATION Spec
CONSTANTS
  PP = 5
  QQ = 11
  H2P_SIZE = 3
  CHALLENGE_SIZE = 2
  NONCE_SIZE = 1
  Items <- MCBatch
  Witnesses <- MCWitnesses
  Values <- MCValues
  Nonces = {n1, n2}
  Bases <- MCBases
  Coins <- MCCoins
INVARIANT AcceptedWithinBound
