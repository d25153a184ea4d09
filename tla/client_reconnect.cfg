SPECIFICATION FairSpec
CONSTANTS
    small = small
    large = large
    Size = {small, large}
    NoSize = NoSize
    Attach = FALSE
    Reconnect = {TRUE, FALSE}
    CanFail = TRUE
    CanDie = TRUE
    MaxKeys = 1
    MaxToggles = 1
    MaxResizes = 1
    MaxLosses = 1
    MaxAttempt = 2
INVARIANT ReconnectSafety
INVARIANT BannerTrue
INVARIANT NothingStuck
INVARIANT ViewAgrees
PROPERTY PatienceGrows
PROPERTY EndingCloses
CHECK_DEADLOCK FALSE
