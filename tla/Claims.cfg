SPECIFICATION Spec
CONSTANTS
    r1 = r1  r2 = r2  c1 = c1  c2 = c2  a1 = a1  a2 = a2
    self = self  child = child  h1 = h1  h2 = h2
    Rules = {r1, r2}
    Claims = {c1, c2}
    Actors = {a1, a2}
    Subjects = {self}
    Standings = {"ACTIVE", "PENDING"}
    Chain <- Chains
    Cap <- Caps
    Tenure <- Tenures
    Enacted = {r1}
    Strict = {r1}
    MakerChecker = TRUE
    MaxDay = 1
    MaxChanges = 2
    MaxEvidence = 1
    MaxCalls = 5
    Handlers = {h1, h2}
SYMMETRY Symmetry
CHECK_DEADLOCK FALSE
INVARIANTS TypeOK ApprovedThroughEveryStage VersionsAbut SettledOnce CapsHold
PROPERTIES StandingOnEventDate
