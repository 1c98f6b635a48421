SPECIFICATION Spec
CONSTANTS
    Bases = {1, 2}
    Factors = {1, 2, 3}
    Caps = {1, 9}
    Budgets = {1, 2, 5}
    Jitters = {0, 3}
    MinDelay = 9
    MaxFloat = 27
    MaxLost = 1
CHECK_DEADLOCK FALSE
INVARIANTS
    DelayWithinBounds
    WindowIsHonest
    PreviewIsSchedule
