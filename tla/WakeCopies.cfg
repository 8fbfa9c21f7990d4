SPECIFICATION Spec
CONSTANTS
    alice = alice  bob = bob  human = human  m1 = m1  m2 = m2  m3 = m3  m4 = m4
    thumbsUp = thumbsUp  id1 = id1  id2 = id2
    hA = hA  hB = hB  hC = hC  hD = hD  hE = hE  loop = loop  endpoint = endpoint
    NoMid = NoMid  NoEmoji = NoEmoji  Nobody = Nobody
    Names <- MCNames
    External = {}
    Rosters <- MCRosters
    Bodies = {m1, m2, m3}
    Mids = {id1, id2}
    Emojis = {thumbsUp}
    Handlers = {hA, hB, hC}
    EventOf <- Refetched
    Drainers = {loop, endpoint}
    DrainLoop = loop
    MaxRestarts = 1
    LoseAcks = TRUE
    Lapses = TRUE
    MayReindex = FALSE
INVARIANTS TypeOK SingleFlight ReservationStands NoOrphanReservation NoWakeLost
PROPERTY IsMailbox
CHECK_DEADLOCK FALSE
