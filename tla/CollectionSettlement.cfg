SPECIFICATION FairSpec
CONSTANTS
    i1 = i1  h1 = h1  h2 = h2
    Intents = {i1}
    Net = 2
    PlatformFees = {1, 2}
    Handlers = {h1, h2}
    HookHandlers = {h1}
    Unlabelled <- SuccessUnlabelled
    MaxAborts = 1
CHECK_DEADLOCK FALSE
INVARIANT TypeOK
PROPERTIES ReceiptsSettle DisbursementsSettle PaidIsAccountedFor
