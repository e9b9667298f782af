SPECIFICATION FairSpec
CONSTANTS
    r1 = r1  r2 = r2
    o1 = o1  o2 = o2  o3 = o3  o4 = o4
    p1 = p1  h1 = h1  h2 = h2
    Requests = {r1, r2}
    Officers = {o1, o2}
    Recipients = {p1}
    Amounts = {1}
    Policies <- OnlyStrict
    DefaultPolicy <- Strict
    OpeningCash = 2
    MaxDay = 0
    DaysPerMonth = 2
    Handlers = {h1, h2}
    HookHandlers = {h1}
    Unlabelled <- SuccessUnlabelled
    MaxAborts = 1
CHECK_DEADLOCK FALSE
PROPERTIES ImplementsSettlement ReportsAccountedFor
