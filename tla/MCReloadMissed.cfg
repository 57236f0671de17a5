SPECIFICATION FairSpec
CONSTANTS
    a = a  b = b  x = x  y = y  h = h
    Chats = {a, b}
    Settings = {x, y}
    Absent = Absent
    Broken = Broken
    Files <- MCFiles
    Handlers = {}
    QueueCap = 2
    EditDuringLoad = TRUE
    SighupSent = FALSE
    MaxEdits = 2
    MaxCrashes = 1
CHECK_DEADLOCK FALSE
PROPERTIES EditsTakeEffect
