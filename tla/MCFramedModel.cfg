SPECIFICATION Spec
CONSTANTS
  q1 = q1
  m1 = m1
  m2 = m2
  m3 = m3
  Nothing = Nothing
  Requests = {q1}
  ReplyIds = {m1, m2, m3}
  Capacity = 2
  MaxSequence = 3
  MaxInbox = 2
SYMMETRY MCSymmetry
INVARIANTS
  RestartStatesValid
  RequestIdsUnique
  AnswersAreFresh
  AnswersRemembered
