SPECIFICATION FairSpec
CONSTANTS
    m1 = m1  m2 = m2   s = s  t = t  k = k 
    None = None
    Messages = {m1, m2}
    Syncs = {s, t}
    OnDemand = {s, t}
    Calls = {k}
    QueueCap = 1
    ResultCap = 1
INVARIANTS TypeOK QuietAfterReturn NoSendOnClosed InOnePlace StopIsHeard
PROPERTIES KeepsPromise StopEndsServe
