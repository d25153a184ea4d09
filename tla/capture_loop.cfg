SPECIFICATION FairSpec
CONSTANTS
    small = small
    large = large
    Size = {small, large}
    NoSize = NoSize
    NoRequest = NoRequest
    Delay = 2
    Settle <- MCSettle
    Shared = TRUE
    ResizeCanFail = TRUE
    MaxContent = 2
    MaxResizes = 1
    MaxToggles = 1
    MaxCaptureErrors = 1
    MaxEncodeErrors = 1
INVARIANT PacketsTrue
PROPERTY FreshUnlessError
PROPERTY EventuallyQuiet
PROPERTY NeverSilent
PROPERTY CursorModeHonoured
