SPECIFICATION Spec
CONSTANTS
    a = a  b = b  x = x  y = y  h = h
    Chats = {a, b}
    Settings = {x, y}
    Absent = Absent
    Broken = Broken
    Files <- MCFiles
    Handlers = {h}
    QueueCap = 2
    EditDuringLoad = FALSE
    SighupSent = FALSE
    MaxEdits = 2
    MaxCrashes = 1
CHECK_DEADLOCK FALSE
INVARIANTS AllowedMessagesWritten
