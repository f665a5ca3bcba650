SPECIFICATION EvaluationSpec
CONSTANTS
    Sample = e
    Tasks = {e}
    Evaluation = {e}
    NoTask = none
    Workers = {o}
    Generators = {}
    Claimable <- OwnerClaimable
    WorkStages = {"generating"}
    MaxAttempts = 2
    LeaseTime = 1
    JobTime = 2
    QueueTime = 2
    MaxCrashes = 0
    MaxSubmits = 1
    MaxTries = 2
    MaxCancels = 1
INVARIANTS
    BusinessFollowsTask
PROPERTIES
    HolderDecides
    ResultSettles
