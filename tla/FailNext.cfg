SPECIFICATION Spec
CONSTANTS
    Keys = {k1, k2, k3}
    MaxTries = 1
    Tries <- MCTries
    Behaviours <- FailFirst
    NoLimit = NoLimit
    Silent = Silent
    SilentHold = 2
    MaxControls = 2
    ConnectTimeout = 1
    WriteTimeout = 1
    ReadTimeout = 1
    Deadline = 2
SYMMETRY Symmetry
CHECK_DEADLOCK FALSE
INVARIANT
    NextFail
