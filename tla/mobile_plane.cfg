SPECIFICATION MobileFairSpec
CONSTANTS
    MaxSessions = 2
    MaxTraffic = 2
    VideoCap = 1
    AudioCap = 1
CHECK_DEADLOCK FALSE
PROPERTY EndHeard
