SPECIFICATION LearnerSpec
CONSTANTS
  Sends = {1, 2}
  Logins = {l1}
  MaxAttempts = 2
  MaxPasswords = 3
  NoSend = 0
  a1 = a1
  a2 = a2
  a3 = a3
  q1 = q1
  q2 = q2
  q3 = q3
  c1 = c1
  None = none
  Activity = {a1, a2, a3}
  Question = {q1, q2, q3}
  Concept = {c1}
  ActivityOf <- MCActivityOf
  ConceptOf <- MCConceptOf
  VersionOf <- MCVersionOf
  ShortAnswer = {q2}
  FromReview = {a2, a3}
  Quiz = {a1, a3}
  LastDay = 2
  MaxRevision <- MCMaxRevision
  MaxMoves = 1
  MaxLost = 1
INVARIANTS
  GuessesBounded
  StatusTellsDelivery
  UsedOnce
  SessionsAreCurrent
  ScheduleFollowsHistory
  OccurrenceTellsState
  ConsumedOnce
PROPERTY
  DatesAreTheLearners
CHECK_DEADLOCK FALSE
