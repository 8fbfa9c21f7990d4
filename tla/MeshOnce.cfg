SPECIFICATION FairSpec
CONSTANTS
    ab = ab
    ba = ba
    s1 = s1
    s2 = s2
    s3 = s3
    e1 = e1
    e2 = e2
    Pairs <- MCPairs
    Rev <- MCRev
    Senders = {s1, s2, s3}
    PairOf <- Mixed
    Events = {e1}
    SideOf <- Side
    Cap = 2
    Lapses = TRUE
INVARIANTS TypeOK DeliveredOnce DroppedMeansUndelivered SentInOrder
PROPERTIES NothingFallsOut EventSettles
CHECK_DEADLOCK FALSE
