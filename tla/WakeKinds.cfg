SPECIFICATION FairSpec
CONSTANTS
    alice = alice  bob = bob  human = human  m1 = m1  m2 = m2  m3 = m3  m4 = m4
    thumbsUp = thumbsUp  id1 = id1  id2 = id2
    hA = hA  hB = hB  hC = hC  hD = hD  hE = hE  loop = loop  endpoint = endpoint
    NoMid = NoMid  NoEmoji = NoEmoji  Nobody = Nobody
    Names <- MCNames
    External = {}
    Rosters <- MCRosters
    Bodies = {m1, m2, m3, m4}
    Mids = {id1, id2}
    Emojis = {thumbsUp}
    Handlers = {hA, hB, hC, hD, hE}
    EventOf <- Kinds
    Drainers = {loop}
    DrainLoop = loop
    MaxRestarts = 0
    LoseAcks = FALSE
    Lapses = FALSE
    MayReindex = TRUE
INVARIANTS NoSelfWake NoKeyLost
PROPERTY WakesSettle
CHECK_DEADLOCK FALSE
