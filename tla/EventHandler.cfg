CONSTANTS
  Kinds = {k1, k2}
  Ignored = {k2}
  MaxChanges = 1
  HoldoffDelay = 1
  HoldoffMaxDelay = 1
  StatusCap = 2
  NoOp = NoOp
SPECIFICATION FairSpec
INVARIANTS
  BoundedStaleness
PROPERTIES
  ImplementsControlLoop
  Convergence
