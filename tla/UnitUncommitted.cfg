SPECIFICATION Spec
CONSTANTS
  i1 = i1
  i2 = i2
  i3 = i3
  i4 = i4
  o1 = o1
  o2 = o2
  None = None
  Inputs = {i1, i2, i3, i4}
  Others = {o1, o2}
  Science <- MCScience
  Ways <- PlainWays
INVARIANTS CommittedSealPinsManifest
