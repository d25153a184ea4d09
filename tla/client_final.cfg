SPECIFICATION Spec
CONSTANTS
    small = small
    large = large
    Size = {small, large}
    NoSize = NoSize
    Attach = FALSE
    Reconnect = {TRUE}
    CanFail = TRUE
    CanDie = TRUE
    MaxKeys = 0
    MaxToggles = 0
    MaxResizes = 0
    MaxLosses = 1
    MaxAttempt = 2
PROPERTY EndIsFinal
CHECK_DEADLOCK FALSE
