\* An initial delay above the maximum.
SPECIFICATION Spec
CONSTANTS
    Conns = {k1}
    Options <- SteepOptions
    DefaultInitial = 1
    DefaultMax = 30
    MaxSleeps = 7
INVARIANT DelayWithinMax
