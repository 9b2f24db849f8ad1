\* A release, two redemptions at once with their op_ids, a run the ticket may
\* end, one repeat allowed, and time for a live check to be too old.
CONSTANTS
  Release = {r1}
  Call = {c1, c2}
  Op = {o1, o2}
  NoOp = NoOp
  NoRelease = NoRelease
  Runs = 1
  Cap = 1
  Drift = 0
  Timeout = 1
  MaxTime = 2
SPECIFICATION Spec
SYMMETRY VaultSymmetry
CHECK_DEADLOCK FALSE
PROPERTIES OneShotSpec QuiesceStopsEngine
