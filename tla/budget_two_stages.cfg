SPECIFICATION Spec
CONSTANTS
    j1 = j1
    j2 = j2
    c1 = c1
    c2 = c2
    c3 = c3
    Jobs = {j1, j2}
    Calls = {c1, c2, c3}
    NoCall = NoCall
    Operator = Operator
    Job <- TwoJob
    Attempt <- TwoAttempt
    Strict = {}
    Previews = {}
    Accounts <- StageAccounts
    Quota <- StageQuota
    Counts <- StageCounts
    Money <- MCMoney
    Cost <- MCCost
    MaxAttempts = 2
    MaxCrashes = 0
INVARIANTS QuotaRespected
CHECK_DEADLOCK FALSE
