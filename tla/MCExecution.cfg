\* A registry may be spent, and routing ends with the execution it begins.
SPECIFICATION MCSpec
CONSTANTS
  None = None
  NoInvocation = NoInvocation
  g1 = g1
  g2 = g2
  g3 = g3
  t1 = t1
  t2 = t2
  t3 = t3
  i1 = i1
  i2 = i2
  x1 = x1
  x2 = x2
  Grants = {g1, g2, g3}
  Replaces <- MCReplaces
  NotBefore <- MCNotBefore
  Expires <- MCExpires
  MaxInvocations <- MCMaxInvocations
  Aperture <- MCAperture
  Targets = {x1, x2}
  InvocationIds = {i1, i2}
  SerialTokens = {t1, t2, t3}
  Boundaries = {0, 1, 2}
  MaxRestarts = 1
  Drafts <- MCDrafts
  Apertures <- MCApertures
  TaskGrants <- MCTaskGrants
  Submissions <- MCSubmissions
  Unreviewed = Unreviewed
  NoAccount = NoAccount
  MaxObservation = 1
SYMMETRY MCSymmetry
INVARIANTS
  OneCurrentGrant
  ReservationsMatchPermits
  BudgetRespected
  ExhaustedMeansSpent
  ResultsAreTrue
  TokenSentOncePerProcess
  BegunIsCleared
CHECK_DEADLOCK FALSE
