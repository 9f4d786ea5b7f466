SPECIFICATION Spec
CONSTANTS
  Accounts = {a1, a2, a3}
  MaxKey = 3
  NoOne = none
CHECK_DEADLOCK FALSE
INVARIANT TypeOK
INVARIANT SessionsAreFound
INVARIANT UnreadableVaultLocksOutNobody
PROPERTY DropsAreEarned
CONSTRAINT AtMostOneLeftover
SYMMETRY Interchangeable
