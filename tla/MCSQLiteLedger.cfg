SPECIFICATION FairConnectionsSpec
CONSTANTS
  c1 = c1
  c2 = c2
  first = first
  rival = rival
  child = child
  orphan = orphan
  citing = citing
  o1 = o1
  o2 = o2
  o3 = o3
  n1 = n1
  n2 = n2
  n3 = n3
  n4 = n4
  Connections = {c1, c2}
  Unlocked = Unlocked
  Genesis = Genesis
  Objects = {o1, o2, o3}
  Ids = {first, rival, child, orphan, citing}
  Occurrence <- MCOccurrence
  Payload <- MCPayload
  ObjectRefs <- MCObjectRefs
  Parents <- MCParents
INVARIANTS
  LedgerVerifies
  AckedIsDurable
  VerifyRaisesOnlyOvertaken
PROPERTIES
  LedgerPromise
  TransactionsEnd
