SPECIFICATION ClipboardSpec
CONSTANTS
    Text = {t1, t2}
    Nothing = Nothing
    Data = {"p", "q", "r", "s", "t"}
    Batch <- MCBatch
    MAX_FILE_TRANSFER_BYTES <- MCBytes
    MaxEvents = 3
    MaxMs = 2
PROPERTY NeverEchoed
CHECK_DEADLOCK FALSE
