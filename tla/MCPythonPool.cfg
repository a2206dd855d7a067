SPECIFICATION FairSpec
CONSTANTS
    t1 = t1  t2 = t2  h1 = h1  h2 = h2  h3 = h3
    Thread = {t1, t2}
    Helper = {h1, h2, h3}
    NoHelper = NoHelper
    MaxCalls = 2
    MaxDeaths = 1
INVARIANTS Exclusive OwnAnswer DeathFailsTwo
PROPERTIES CallsReturn
CHECK_DEADLOCK FALSE
