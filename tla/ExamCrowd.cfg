SPECIFICATION Spec
CONSTANTS
  None = None
  Torn = Torn
  m = m
  n = n
  p1 = p1
  p2 = p2
  r1 = r1
  r2 = r2
  prediction = prediction
  probes = probes
  manifest = manifest
  Paths = {}
  Selections <- OnlyNoFile
  Policy <- NoFile
  RunIds = {r1, r2}
  Dirs = {"d"}
  Order <- ShortOrder
  RunOnly = {probes}
  Recorded <- OnlyProbes
  Acquirers = {}
  Runners = {m, n}
  Recorders = {}
  OwnOutput = TRUE
  Overlap = TRUE
  HandEdits = TRUE
INVARIANT VerifiedIsOneRun
SYMMETRY RunnerSymmetry
