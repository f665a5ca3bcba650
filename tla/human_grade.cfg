SPECIFICATION AssessmentSpec
CONSTANTS
  LastAnswer = 1
  LastFeedback = 2
  MaxSnapshots = 1
INVARIANT
  HumanGradeStands
CHECK_DEADLOCK FALSE
