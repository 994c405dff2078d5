CONSTANTS
  u1 = u1
  u2 = u2
  s1 = s1
  s2 = s2
  Attempts = {u1, u2}
  Sends = {s1, s2}
  None = none
  MaxExits = 2
  MaxRestarts = 1
SPECIFICATION Spec
SYMMETRY Symmetry
INVARIANTS
  TypeOK
  TwiceOnlyInDoubt
  InstallKeepsItsRecord
  AdmissionHasOwner
  LoanHasABearer
PROPERTIES
  OwedUntilTold
\* Attempts, exits and restarts are bounded, and the runtime may stay down.
CHECK_DEADLOCK FALSE
