SPECIFICATION ExportSpec
CONSTANTS
  p1 = p1
  d1 = d1
  a1 = a1
  a2 = a2
  a3 = a3
  c1 = c1
  c2 = c2
  None = None
  Torn = Torn
  Runs = {p1}
  Dirs = {d1}
  Dir <- MCDir
  Revs <- TwoRevs
  Case <- MCCase
  Assurances <- MCAssurances
  Core <- MCCore
  Pins = {}
  Ids <- MCIds
  Contracts <- MCContracts
  Commands <- OnlyVerify
  Killable = {p1}
  ForeignLocks = {}
  EditsDuringRun = FALSE
  Goals = {"run", "compare"}
  QuietGoals = {"run"}
  EarlierBundles <- MCEarlierBundles
  MaxExports = 1
INVARIANTS RunBundlesAgree ComparisonsAgree
CHECK_DEADLOCK FALSE
