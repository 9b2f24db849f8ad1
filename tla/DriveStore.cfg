\* Two sessions and two streams of the same bytes, two artifact rows a name may
\* have, two fencing tokens, one of every fault.
CONSTANTS
  Upload = {u1, u2}
  Put = {p1, p2}
  Sha = {s1}
  Artifact = {a1, a2}
  Name = {n1}
  None = None
  Tokens = {0, 1}
  MaxPending = 2
  Quota = 2
  Crashes = 1
  TornAppends = 1
  Losses = 1
  IoErrors = 1
  Purges = 1
  OperatorCalls = 1
  Bound <- MCBound
SPECIFICATION Spec
SYMMETRY DriveSymmetry
CHECK_DEADLOCK FALSE
INVARIANTS RefcountExact AcknowledgedSurvives OneVersionPerOperation JournalIsCanonical
PROPERTIES NoStaleFence
