SPECIFICATION Spec
CONSTANTS
    e1 = e1  e2 = e2  f1 = f1  f2 = f2  h1 = h1  h2 = h2
    Versions = 2
    Events = {e1, e2}
    Rate <- Rates
    Kind <- Kinds
    From <- Starts2
    Waits = {1}
    Strict = {e1, e2}
    Grace = 0
    Payments = {2, 5}
    Funds = {f1}
    Thresholds <- OneAndTwo
    MaxExtension = 1
    MaxMonth = 2
    MaxDue = 2
    MaxRows = 2
    MaxEntries = 2
    Handlers = {h1}
CHECK_DEADLOCK FALSE
INVARIANTS TypeOK LedgerShowsPaid ClearingRestores
PROPERTIES OldestFirst NoCreditWhileOwing
