SPECIFICATION PartsSpec
CONSTANTS
    c = c  d = d  j = j  k = k
    worker = worker  sync1 = sync1  sync2 = sync2
    None = None
    Requests = {c, d}
    Chats = {j, k}
    ResultCap = 1
    MediaWriters = {worker, sync1, sync2}
    MaxChanges = 3
INVARIANTS TypeOK NoStolenAnswer EarlyAnswerKept
    MediaTypeOK TornForNow AtomicUnlessOverlapped
    StatusTypeOK DownBeforeExit FileKeepsUp
PROPERTIES KeepsPromise EveryRequestEnds StatusSettles
