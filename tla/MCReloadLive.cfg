SPECIFICATION FairSpec
CONSTANTS
    a = a  b = b  x = x  y = y  h = h
    Chats = {a, b}
    Settings = {x, y}
    Absent = Absent
    Broken = Broken
    Files <- MCFiles
    Handlers = {h}
    QueueCap = 2
    EditDuringLoad = FALSE
    SighupSent = FALSE
    MaxEdits = 3
    MaxCrashes = 1
CHECK_DEADLOCK FALSE
INVARIANTS RowsCurrent
PROPERTIES EditsTakeEffect RowsFollow
