SPECIFICATION ExportSpec
CONSTANTS
  p1 = p1
  d1 = d1
  a1 = a1
  a2 = a2
  a3 = a3
  c1 = c1
  c2 = c2
  None = None
  Torn = Torn
  Runs = {p1}
  Dirs = {d1}
  Dir <- MCDir
  Revs <- TwoRevs
  Case <- MCCase
  Assurances <- MCAssurances
  Core <- MCCore
  Pins = {}
  Ids <- MCIds
  Contracts <- MCContracts
  Commands <- OnlyVerify
  Killable = {}
  ForeignLocks = {}
  EditsDuringRun = FALSE
  Goals = {"run"}
  QuietGoals = {}
  EarlierBundles = {}
  MaxExports = 1
INVARIANTS RunBundlesBind
CHECK_DEADLOCK FALSE
