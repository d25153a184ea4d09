SPECIFICATION Spec
CONSTANTS
    Hosts <- MCHosts
    Keys = {"rctrl"}
    Texts <- MCTexts
    MAX_KEYS_PER_KEYMAP = 1
    MaxMessages = 2
    MaxEnds = 1
    MaxCrashes = 1
CHECK_DEADLOCK FALSE
INVARIANTS DesktopSafety InputSafety
PROPERTY LogOutEnds
