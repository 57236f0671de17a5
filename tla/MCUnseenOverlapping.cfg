SPECIFICATION Spec
CONSTANTS
    m1 = m1  m2 = m2  a = a  b = b  p = p  q = q  w = w  x = x
    None = None
    Messages = {m1, m2}
    SentAt <- MCSentAt
    Audience <- MCOneChat
    Silent = {}
    Tenants = {a}
    Runs = {p, q}
    Writes = {w}
    Windows = {}
    Advances = {TRUE}
    WithMedia = {m1}
    Overlap = 1
    Margin = 0
    Day = 2
    MaxTime = 3
    MaxCalls = 2
SYMMETRY MCSymmetry
INVARIANTS TypeOK NoTimelyMessageSkipped SurfacedWasAnnounced
PROPERTIES KeepsPromise
