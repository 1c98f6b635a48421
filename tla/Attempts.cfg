SPECIFICATION FairSpec
CONSTANTS
    Keys = {k1}
    MaxTries = 2
    Tries <- MCTries
    Behaviours <- Broken
    NoLimit = NoLimit
    Silent = Silent
    SilentHold = 3
    MaxControls = 2
    ConnectTimeout = 1
    WriteTimeout = 1
    ReadTimeout = 2
    Deadline = 3
CHECK_DEADLOCK FALSE
INVARIANTS
    SuccessIsTaken
    TwiceOnlyUnanswered
    SummaryFindsDuplicates
    FailsAtMostFirst
PROPERTIES
    EveryAttemptEnds
