SPECIFICATION ClipboardFairSpec
CONSTANTS
    Text = {t1, t2}
    Nothing = Nothing
    Data = {"p", "q", "r", "s", "t"}
    Batch <- MCBatch
    MAX_FILE_TRANSFER_BYTES <- MCBytes
    MaxEvents = 3
    MaxMs = 2
INVARIANT ClipboardSafety
PROPERTIES EchoOnlyStale CopyArrives
CHECK_DEADLOCK FALSE
