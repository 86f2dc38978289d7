\* Two finalizers of one run with capsule destinations of their own, against what
\* the docstring says of committed outputs.
SPECIFICATION PostrunSpec
CONSTANTS
  Finalizers = {"l1", "l2"}
  Capsules = {"v1", "v2"}
  ReceiptPaths = {"r"}
  DomainFiles = 1
  MaxTransactions = 2
  MaxMoments = 1
INVARIANT
  DeliveredSealStands
CHECK_DEADLOCK FALSE
