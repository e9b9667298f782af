SPECIFICATION Spec
CONSTANTS
    i1 = i1  h1 = h1  h2 = h2
    Intents = {i1}
    Net = 2
    PlatformFees = {1, 2}
    Handlers = {h1, h2}
    HookHandlers = {h1, h2}
    Unlabelled <- EveryEventNamed
    MaxAborts = 0
CHECK_DEADLOCK FALSE
INVARIANT NeverDoublePosted
