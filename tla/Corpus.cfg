SPECIFICATION CorpusSpec
CONSTANTS
  c1 = c1 c2 = c2 c3 = c3 c4 = c4 c5 = c5
  Candidates = {c1, c2, c3, c4, c5}
  OrderKey <- MCOrderKey
  Org <- MCOrg  Stratum <- MCStratum  Mechanism <- MCMechanism
  Strata = {"agent", "plain"}
  FirstPool <- MCFirstPool
  MinPool = 4  Target = 3  OrgCap = 2  MinOrgs = 2  MinMechanisms = 2
  Ledgers <- MCLedgers
  Unset = Unset
  e1 = e1  e2 = e2  q1 = q1
  s1 = s1  s2 = s2
  b1 = b1  b2 = b2
  fact = fact  use = use  claim = claim
  f1 = f1
  Paths = {e1, e2, q1}
  Sources = {s1, s2}
  Bytes = {b1, b2}
  Nodes = {fact, use, claim}
  FactIds = {f1}
  Units <- MCUnits
  Torn = Torn
  None = None
INVARIANTS
  CompletedEnrollmentIsFirstEligible
  ScreenedStaysInFront
  VerifiedCaseIsBound
  BoundManifestIsTrue
  AuditPredictsPreflight
  AdapterIsFrozenEnvelope
PROPERTY
  CompletionIsFinal
CHECK_DEADLOCK FALSE
