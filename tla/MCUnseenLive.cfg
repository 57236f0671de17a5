SPECIFICATION FairSpec
CONSTANTS
    m1 = m1  m2 = m2  a = a  b = b  p = p  q = q  w = w  x = x
    None = None
    Messages = {m1}
    SentAt <- MCSentAtOne
    Audience <- MCOneMessage
    Silent = {}
    Tenants = {a}
    Runs = {p}
    Writes = {w}
    Windows = {0, 1}
    Advances = {TRUE, FALSE}
    WithMedia = {m1}
    Overlap = 0
    Margin = 0
    Day = 2
    MaxTime = 2
    MaxCalls = 3
PROPERTIES KeepsPromise CursorOnlyAdvances OwedIsShown HydratedIsAnnounced
