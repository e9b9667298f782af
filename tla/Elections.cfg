SPECIFICATION Spec
CONSTANTS
    e1 = e1  e2 = e2  m1 = m1  m2 = m2  n1 = n1  h1 = h1  h2 = h2
    Elections = {e1, e2}
    Members = {m1, m2}
    Nominations = {n1}
    Officer = {e1}
    Issues <- IssueOptions
    Requirements <- Required
    MaxCandidates = 1
    MaxMoves = 3
    MaxCalls = 4
    MaxChanges = 1
    Handlers = {h1, h2}
SYMMETRY Symmetry
CHECK_DEADLOCK FALSE
INVARIANTS TypeOK OneBallotEach VettingDecides
