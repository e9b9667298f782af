SPECIFICATION Spec
CONSTANTS
    a1 = a1  a2 = a2  m1 = m1  q1 = q1  h1 = h1  h2 = h2  chair = chair
    Members = {a1, a2, m1}
    Founders = {a1, a2}
    Standings = {"ACTIVE", "EXITED"}
    Roles = {"Org Admin"}
    Seats = {chair}
    Wildcard = {"Org Admin"}
    MaxTerms <- Terms
    CoolingOff <- Cooling
    TermEnds = {{}, {1}}
    Requests = {q1}
    MaxDay = 1
    MaxCalls = 3
    Handlers = {h1, h2}
SYMMETRY Symmetry
CHECK_DEADLOCK FALSE
INVARIANTS TypeOK RemovedByTwo VacatedOnExit TermLimitKept
