\* A roster of two, no round cap in the light lane, one round in the full one.
CONSTANTS
  Sub = {s1, s2}
  NoSub = NoSub
  MinRoster = 2
  RoundCap = 1
  LightCap = 0
SPECIFICATION FairSpec
INVARIANTS ExecutionWasContested NoVetoPastHuddle
PROPERTIES VetoHolds WatchedHuddlesEnd
