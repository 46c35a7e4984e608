SPECIFICATION Spec
CONSTANTS
  Holders = {h1, h2, h3}
  MaxRemovals = 3
INVARIANTS CredentialsTell OnlyMembersPresent
CHECK_DEADLOCK FALSE
