SPECIFICATION Spec
CONSTANTS
    r1 = r1  r2 = r2
    o1 = o1  o2 = o2  o3 = o3  o4 = o4
    p1 = p1  h1 = h1  h2 = h2
    Requests = {r1, r2}
    Officers = {o1, o2, o3}
    Recipients = {p1}
    Amounts = {2, 3}
    Policies <- StrictAndLax
    DefaultPolicy <- Strict
    OpeningCash = 9
    MaxDay = 1
    DaysPerMonth = 2
    Handlers = {h1, h2}
    HookHandlers = {}
    Unlabelled <- EveryEventNamed
    MaxAborts = 0
CHECK_DEADLOCK FALSE
SYMMETRY OfficerSymmetry
INVARIANTS TypeOK SegregationOfDuties EnoughApprovers
PROPERTY CapsHeldAtInsert
