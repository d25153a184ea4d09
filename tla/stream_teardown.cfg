SPECIFICATION FairSpec
CONSTANTS
    audio = audio
    clip = clip
    Watcher = {audio}
    Cap <- MCCap
    DownCap = 1
    UpCap = 1
    MaxCommands = 1
    LinkCanFail = FALSE
    EncoderCanFail = FALSE
PROPERTY TeardownCompletes
CHECK_DEADLOCK FALSE
