SPECIFICATION LoopSpec
CONSTANTS
  None = None
  NoInvocation = NoInvocation
  Nothing = Nothing
  h1 = h1
  r1 = r1
  b1 = b1
  a1 = a1
  k1 = k1
  k2 = k2
  i1 = i1
  i2 = i2
  g1 = g1
  Handles = {h1}
  Requests = {r1}
  Belief <- MCBelief
  Actions = {a1}
  Controls = {k1, k2}
  Evidence = {i1, i2}
  Grants = {g1}
  Replaces <- MCReplaces
  NotBefore <- MCNotBefore
  Expires <- MCExpires
  MaxInvocations <- MCMaxInvocations
  Aperture <- MCAperture
  Boundaries = {0, 1}
  MaxReceipts = 4
  MaxRestarts = 1
SYMMETRY MCSymmetry
CONSTRAINT Unforked
INVARIANTS
  AssessedActionHappened
  EffectsAreDecided
PROPERTIES
  UnknownIsNeverAssessed
