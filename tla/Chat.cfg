\* The outbox on two rows, with two attempts before it gives up, the feed on three,
\* so that a cursor can move back and a replay be cut short; one restart.
CONSTANTS
  Key = {k1}
  NoKey = NoKey
  MaxAttempts = 2
  QueueSize = 1
  ReplayLimit = 1
  PageLimit = 1
  Setup <- OneAtATime
  MaxCrashes = 1
SPECIFICATION FairSpec
INVARIANTS AckSilences NoHoleButShed
PROPERTIES KeepsPushing
