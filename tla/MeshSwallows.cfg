SPECIFICATION Spec
CONSTANTS
    ab = ab
    ba = ba
    s1 = s1
    s2 = s2
    s3 = s3
    e1 = e1
    e2 = e2
    Pairs <- MCPairs
    Rev <- MCRev
    Senders = {s1, s2, s3}
    PairOf <- OneWay
    Events = {e1, e2}
    SideOf <- Sides
    Cap = 2
    Lapses = FALSE
INVARIANT NeverSwallowed
CHECK_DEADLOCK FALSE
