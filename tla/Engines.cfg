SPECIFICATION EnginesSpec
CONSTANTS
  v0 = v0 v1 = v1 v2 = v2 None = None
  Versions = {v0, v1, v2}
  Plans <- MCPlans
  Detectors <- MCDetectors
  Observed <- MCObserved
  Sessions <- MCSessions
  reviewed = reviewed expected = expected observed = observed current = current
  E1Nodes <- MCNodes
  Versionish = {reviewed, expected, current}
  OnSurface = {reviewed}
  Packets <- MCPackets
INVARIANTS
  EnginesTypeOK
  PromotedWasSound
  SoundIsPromoted
  PredictionIsWarranted
  WitnessStandsAlone
  CalibrationIsSound
  AliasesAreReachable
  PreservationIsCompared
PROPERTY
  PredictionIsReached
CHECK_DEADLOCK FALSE
