SPECIFICATION Spec
CONSTANTS
    t1 = t1  t2 = t2  h1 = h1  h2 = h2  h3 = h3
    Thread = {t1, t2}
    Helper = {h1, h2, h3}
    NoHelper = NoHelper
    MaxCalls = 1
    MaxDeaths = 0
SYMMETRY Symmetry
INVARIANTS FailureReported
CHECK_DEADLOCK FALSE
