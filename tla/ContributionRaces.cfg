SPECIFICATION Spec
CONSTANTS
    e1 = e1  e2 = e2  f1 = f1  f2 = f2  h1 = h1  h2 = h2
    Versions = 1
    Events = {e1}
    Rate <- Rates
    Kind <- Kinds
    From <- Starts1
    Waits = {}
    Strict = {}
    Grace = 0
    Payments = {1, 5}
    Funds = {f1}
    Thresholds = {}
    MaxExtension = 1
    MaxMonth = 2
    MaxDue = 1
    MaxRows = 1
    MaxEntries = 2
    Handlers = {h1, h2}
CHECK_DEADLOCK FALSE
INVARIANTS StatusTruthful PaidIsPosted ArrearsAgree
