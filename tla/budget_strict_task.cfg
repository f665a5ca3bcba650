SPECIFICATION Spec
CONSTANTS
    j1 = j1
    j2 = j2
    c1 = c1
    c2 = c2
    c3 = c3
    Jobs = {j1}
    Calls = {c1, c2, c3}
    NoCall = NoCall
    Operator = Operator
    Job <- TaskJob
    Attempt <- TaskAttempt
    Strict = {j1}
    Previews = {}
    Accounts <- TaskAccounts
    Quota <- TaskQuota
    Counts <- TaskCounts
    Money <- MCMoney
    Cost <- MCCost
    MaxAttempts = 2
    MaxCrashes = 1
INVARIANTS JobCaps InFlightIsReserved NoBlindRepeat
CHECK_DEADLOCK FALSE
