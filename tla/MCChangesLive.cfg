SPECIFICATION FairSpec
CONSTANTS
    j = j  c = c  d = d  g = g  h = h
    Chats = {j}
    Handlers = {g, h}
    Conns = {c}
    Selects <- MCOneConn
    MaxCommits = 3
PROPERTIES EventuallyRead
