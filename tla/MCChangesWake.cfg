SPECIFICATION Spec
CONSTANTS
    j = j  c = c  d = d  g = g  h = h
    Chats = {j}
    Handlers = {g, h}
    Conns = {c, d}
    Selects <- MCSameChat
    MaxCommits = 2
SYMMETRY MCSymmetry
INVARIANTS TypeOK NoLostWake ToldOnlyWhileOwned
