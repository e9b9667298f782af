SPECIFICATION FairSpec
CONSTANTS
    x1 = x1  x2 = x2  o1 = o1  d1 = d1  h1 = h1  h2 = h2  s1 = s1  s2 = s2
    Accounts = {x1, x2}
    Orgs = {o1}
    Dues = {d1}
    DueOn <- Calendar
    Owes <- Debtor
    Window = 1
    TrialDays = 1
    MaxDay = 2
    MaxCalls = 3
    MaxFailures = 1
    Handlers = {h1, h2}
    Sweepers = {s1}
CHECK_DEADLOCK FALSE
INVARIANTS TypeOK OneMembershipEach RemindedOnce
PROPERTY LapsedTrialsEnd
