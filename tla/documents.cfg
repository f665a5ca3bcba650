SPECIFICATION DocumentsSpec
CONSTANTS
    NoKey = NoKey
    MaxBuilds = 2
    MaxAttempts = 1
    Batches = 2
    MaxExits = 2
    LastLesson = 2
    MaxPosts = 5
    MaxChanges = 2
    MaxPlans = 2
INVARIANTS
    DeletedIsGone
    ActiveIsComplete
    CleanupMissesNothing
PROPERTIES
    NewestWins
    AppliedAsPreviewed
    EveryLessonSettles
CHECK_DEADLOCK FALSE
