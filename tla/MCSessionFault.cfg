SPECIFICATION Spec
CONSTANTS
  h1 = h1
  h2 = h2
  r1 = r1
  r2 = r2
  b1 = b1
  b2 = b2
  a1 = a1
  a2 = a2
  k1 = k1
  k2 = k2
  e1 = e1
  Handles = {h1}
  Requests = {r1}
  Belief <- MCBelief
  Actions = {a1}
  Controls = {k1}
  Evidence = {e1}
  Nothing = Nothing
  MaxReceipts = 4
CONSTRAINT Unforked
INVARIANT
  StorageFailureKeepsPhase
