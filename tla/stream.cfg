SPECIFICATION FairSpec
CONSTANTS
    audio = audio
    clip = clip
    Watcher = {audio}
    Cap <- MCRoundCap
    DownCap = 1
    UpCap = 1
    MaxCommands = 1
    LinkCanFail = TRUE
    EncoderCanFail = FALSE
INVARIANT StreamSafety
PROPERTY NoProducerStarves
PROPERTY FailedStartEndsCapture
PROPERTY TeardownWithRoom
CHECK_DEADLOCK FALSE
