SPECIFICATION MCSpec
CONSTANTS
  NoFile = NoFile
  Torn = Torn
  MaxCalls = 4
  MaxResets = 2
  MaxAttempts = 2
  Sessions = {s1, s2}
  Payloads = {p1, p2}
  MaxGap = 0
  MaxMaterials = 4
  MaxCycles = 2
  Stride = 2
  Slot = 1
  CycleMaterials = 2
  MinAdaptation = 1
  MinValidation = 1
  Handles = {h1, h2}
  Meanings = {m1, m2}
  Configurations = {c0}
  EntryIds = {e1}
  MaxBooks = 3
  MaxSource = 5
  MaxReview = 6
  MaxSuccessor = 2
  MaxTotal = 6
  MaxShared = 3
  Subjects = {u1, u2}
  MaxSubjectVersion = 1
  MaxFacts = 3
  Producers = {f1, f2}
  Branches = {b1}
  MaxStates = 3
  Channels = {c1, c2}
  Atoms = {"a"}
  MaxMechanicVersions = 3
  MaxAssessments = 2
  Scopes = {s}
  Witnesses = {w1, w2}
  MaxAccountVersion = 1
  MaxHeaders = 3
  MaxResiduals = 2
  Plan <- MCPlan
  Stacks = {k1, k2}
  MaxSaved = 1
  RunSeals = {k1}
  MaxRuns = 3
  MaxReviews = 1
  DecisionIds = {d1}
  MaxCampaign = 11
  SearchNodes = {0, 1, 2, 3}
  StartNode = 0
  GoalNodes = {3}
  Arcs <- MCArcs
  EdgeCosts = {0, 1, 3}
  Heuristics <- MCHeuristics
  Ceilings <- MCCeilings
  HeartbeatRuns = {r1, r2}
  Changing = {"phase", "residual_refs", "terminal_state"}
  Snapshots = {1, 2}
  MaxBoundaries = 2
  MaxProgress = 1
  Threads = {q1, q2}
  Arms <- MCArms
  ExperimentIds = {"x"}
  MaxOccurrence = 3
  MaxReserved = 4
  Returns <- MCReturns
  Denominator = 2
  StepBudget = 2
  Finalizers = {l1, l2}
  Capsules = {v1, v2}
  ReceiptPaths = {"r"}
  MaxTransactions = 2
  DomainFiles = 2
  MaxMoments = 3
SYMMETRY MCSymmetry
INVARIANTS
  CallsAreAccounted
  SuccessIsEarned
  ProviderAskedOnce
  HeldOutStaysHeldOut
  LineagesRestore
  TransfersAreEarned
  NothingStandsOnInvalid
  LineagesResolve
  CampaignInOrder
  SearchIsOptimal
  HeartbeatShowsState
  SuccessorsFollowControl
  AttemptsAreWhole
  DeliveriesStand
PROPERTIES
  RunLivesOnce
CHECK_DEADLOCK FALSE
