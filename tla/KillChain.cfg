\* Two requests at once, lift and stop, two epochs, and time for the mirror to go stale.
CONSTANTS
  Caller = {c1, c2}
  MaxLevel = 1
  MaxEpoch = 2
  Stale = 1
  Timeout = 1
SPECIFICATION FairSpec
INVARIANTS FreshMirrorIsCurrent NoClaimAfterStop
PROPERTIES StopReachesBoard
