SPECIFICATION FairSpec
CONSTANTS
    Tasks = {q, e}
    Evaluation = {e}
    NoTask = none
    Workers = {wr, g1, g2}
    Generators = {g1, g2}
    Claimable <- SplitClaimable
    WorkStages = {"generating"}
    MaxAttempts = 2
    LeaseTime = 1
    JobTime = 2
    QueueTime = 2
    MaxCrashes = 1
    MaxSubmits = 1
INVARIANTS
    OwnerAlonePublishes
PROPERTIES
    Refines
    KeepsLogs
    EveryTaskSettles
