SPECIFICATION Spec
CONSTANTS
  None = None
  Torn = Torn
  m = m
  n = n
  p1 = p1
  p2 = p2
  r1 = r1
  r2 = r2
  prediction = prediction
  probes = probes
  manifest = manifest
  Paths = {p1, p2}
  Selections <- OnlyPolicy
  Policy <- MCPolicy
  RunIds = {r1, r2}
  Dirs = {"d"}
  Order <- MCOrder
  RunOnly = {probes}
  Recorded <- MCRecorded
  Acquirers = {"a"}
  Runners = {m}
  Recorders = {"r"}
  OwnOutput = TRUE
  Overlap = TRUE
  HandEdits = FALSE

INVARIANTS TypeOK RecordBinds ExitZeroNamesACompleteSet
PROPERTIES ImplementsExam PacketImmutableOnceBegun EmittedSealStands
