SPECIFICATION FairSpec
CONSTANTS
  p1 = p1
  p2 = p2
  d1 = d1
  d2 = d2
  a1 = a1
  a2 = a2
  a3 = a3
  a4 = a4
  k1 = k1
  k2 = k2
  c1 = c1
  None = None
  Torn = Torn
  Runs = {p1, p2}
  Dirs = {d1, d2}
  Dir <- PairDir
  Revs <- RaceRevs
  Case <- MCCase
  Assurances <- MCAssurances
  Core <- MCCore
  Pins <- MCPins
  Ids <- MCIds
  Contracts <- MCContracts
  Commands <- LockerAndChecker
  Killable = {}
  ForeignLocks = {}
  EditsDuringRun = TRUE
PROPERTIES ImplementsGate EveryRunEnds
