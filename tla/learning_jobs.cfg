SPECIFICATION JobsSpec
CONSTANTS
  Workers = {w1, w2}
  MaxTasks = 2
  MaxAttempts = 2
  MaxReviews = 1
  LastQuestion = 2
  MaxRuns = 2
  MaxLeases = 2
  LastAnswer = 2
  LastFeedback = 2
  MaxSnapshots = 1
INVARIANTS
  RequestTellsHead
  NothingIsPaidTwice
  ImagesAreThere
  PublishedWasReviewed
  RecordIsWhole
PROPERTIES
  NoLateGrade
  EveryJobSettles
CHECK_DEADLOCK FALSE
