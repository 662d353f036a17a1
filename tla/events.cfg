SPECIFICATION FewSpec
CONSTANTS
    c1 = c1
    Clients = {c1}
    MaxId = 4
    QueueMax = 2
    ReplayLimit = 2
INVARIANTS StreamTypeOK InOrderOnce GapsHaveCause
PROPERTIES StreamDelivers DroppedStreamsEnd
