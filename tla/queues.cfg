SPECIFICATION FairSpec
CONSTANTS
    Poller = t1
    msg = msg
    req = req
    invite = invite
    t1 = t1
    t2 = t2
    NoItem = NoItem
    Items = {msg, req}
    Requests = {req}
    Invites = {invite}
    Threads = {t1, t2}
INVARIANTS AckedIsKept
PROPERTIES NothingLost ImplementsDelivery ErrorsSurface EventuallyAccepted
