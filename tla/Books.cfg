SPECIFICATION Spec
CONSTANTS
    f1 = f1  f2 = f2  h1 = h1  h2 = h2
    Funds = {f1, f2}
    Receipts <- Payments
    Amounts = {1}
    Fees = {0, 1}
    MaxDay = 1
    MaxEntries = 3
    Handlers = {h1}
SYMMETRY Symmetry
CHECK_DEADLOCK FALSE
INVARIANTS TypeOK StatementsAgree UnreversedPeriodsAgree
