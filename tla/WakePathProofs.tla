--------------------------- MODULE WakePathProofs ---------------------------
(***************************************************************************)
(* What holds of the wake path for any number of handlers, drains, bots    *)
(* and events: its type, that copies of one message never deliver to the   *)
(* same bot at once, and that a reservation stands while it is needed.     *)
(***************************************************************************)
EXTENDS WakePath, TLAPS

\* A handler's candidate targets are a sequence of names.
LEMMA CandidatesType ==
    ASSUME NEW h \in Handlers
    PROVE  /\ EventOf[h] \in Event
           /\ Candidates(EventOf[h]) \in Seq(Names)
           /\ Len(Candidates(EventOf[h])) \in Nat
  <1>1. EventOf[h] \in Event
    BY EventsAssumption
  <1>2. EventOf[h].mentioned \in Seq(Names) /\ EventOf[h].acct \in Names
    BY <1>1 DEF Event
  <1>3. Candidates(EventOf[h]) \in Seq(Names)
    BY <1>2 DEF Candidates
  <1> QED
    BY <1>1, <1>3

\* Each position within the candidate targets holds a name.
LEMMA CandidateIsName ==
    ASSUME NEW h \in Handlers,
           NEW k \in 1..Len(Candidates(EventOf[h]))
    PROVE  Candidates(EventOf[h])[k] \in Names
  BY CandidatesType

\* The part of the type that a handler's step to its next target touches.
HandlerType ==
    /\ pc \in [Handlers -> {"new", "queued", "posting", "accepted"} \cup Terminal]
    /\ at \in [Handlers -> Nat]
    /\ \A h \in Handlers :
          /\ at[h] \in 1..(Len(Candidates(EventOf[h])) + 1)
          /\ InFlight(h) => at[h] <= Len(Candidates(EventOf[h]))

EntriesType(entries) ==
    \A k \in entries : \E h \in Handlers, b \in Names : k \in Claim(EventOf[h], b)

\* Taking the next target keeps positions within the targets and adds only a
\* claim of the handler's own event to the entries.
LEMMA ReserveNextType ==
    ASSUME HandlerType,
           NEW h \in Handlers,
           NEW j \in 1..(Len(Candidates(EventOf[h])) + 1),
           NEW entries, EntriesType(entries),
           ReserveNext(h, j, entries)
    PROVE  HandlerType' /\ EntriesType(dedup')
  <1> DEFINE C == Candidates(EventOf[h])
             wanted == {k \in j..Len(C) : /\ Addressed(EventOf[h], C[k])
                                          /\ ~Live(EventOf[h], C[k], entries)}
  <1>1. Len(C) \in Nat
    BY CandidatesType
  <1>2. CASE /\ wanted = {}
             /\ at' = [at EXCEPT ![h] = Len(C) + 1]
             /\ pc' = [pc EXCEPT ![h] = "done"]
             /\ dedup' = entries
    <2>1. HandlerType'
      BY <1>1, <1>2 DEF HandlerType, InFlight, Terminal
    <2> QED
      BY <2>1, <1>2
  <1>3. ASSUME NEW k \in wanted,
               at' = [at EXCEPT ![h] = k],
               pc' = [pc EXCEPT ![h] = "posting"],
               dedup' = entries \cup Claim(EventOf[h], C[k])
        PROVE  HandlerType' /\ EntriesType(dedup')
    <2>1. k \in 1..Len(C)
      BY <1>1
    <2>2. C[k] \in Names
      BY <2>1, CandidateIsName
    <2>3. HandlerType'
      BY <1>1, <1>3, <2>1 DEF HandlerType, InFlight, Terminal
    <2>4. EntriesType(dedup')
      BY <1>3, <2>2 DEF EntriesType
    <2> QED
      BY <2>3, <2>4
  <1> QED
    BY <1>2, <1>3 DEF ReserveNext
-----------------------------------------------------------------------------
\* The rest of the type: queues, drains and history.
QueueType ==
    /\ hold \subseteq Item /\ disk \subseteq Item /\ expired \subseteq hold
    /\ dpc \in [Drainers -> {"idle", "iterating", "posting", "accepted"}]
    /\ batch \in [Drainers -> SUBSET Item]
    /\ cur \in [Drainers -> SUBSET Item]
    /\ inbox \subseteq Wake
    /\ gone \subseteq Item

\* What a handler is delivering is a wake the queue and the bridge may hold.
LEMMA CurrentType ==
    ASSUME HandlerType, NEW h \in Handlers, InFlight(h)
    PROVE  /\ Target(h) \in Names
           /\ Current(h) \in Item
           /\ [by |-> h, bot |-> Target(h), ev |-> EventOf[h]] \in Wake
           /\ at[h] \in 1..Len(Candidates(EventOf[h]))
           /\ at[h] + 1 \in 1..(Len(Candidates(EventOf[h])) + 1)
  <1>1. at[h] \in 1..Len(Candidates(EventOf[h])) /\ Len(Candidates(EventOf[h])) \in Nat
    BY CandidatesType DEF HandlerType
  <1>2. Target(h) \in Names
    BY <1>1, CandidateIsName DEF Target
  <1> QED
    BY <1>1, <1>2 DEF Current, Item, Wake

\* The type invariant, split by what the actions touch together.
Types ==
    /\ roster \in Rosters /\ reindexing \in BOOLEAN
    /\ restarts \in 0..MaxRestarts
    /\ HandlerType /\ EntriesType(dedup) /\ QueueType

\* It is the type invariant.
LEMMA TypeSplit == TypeOK <=> Types
  BY DEF TypeOK, Types, HandlerType, EntriesType, QueueType

\* Every step keeps the type.
LEMMA TypesStep == Types /\ [Next]_vars => Types'
  <1> SUFFICES ASSUME Types, [Next]_vars PROVE Types'
    OBVIOUS
  <1> USE DEF handlerVars, drainVars, queueVars
  <1>a. /\ roster \in Rosters /\ reindexing \in BOOLEAN
        /\ restarts \in 0..MaxRestarts
        /\ HandlerType /\ EntriesType(dedup) /\ QueueType
    BY DEF Types
  <1>1. ASSUME NEW h \in Handlers, EventPump(h) PROVE Types'
    BY <1>a, <1>1 DEF EventPump, HandlerType, InFlight, QueueType, EntriesType, Types
  <1>2. ASSUME NEW h \in Handlers, Ignore(h) PROVE HandlerType' /\ EntriesType(dedup')
    BY <1>a, <1>2 DEF Ignore, HandlerType, InFlight, EntriesType, Terminal
  <1>3. ASSUME NEW h \in Handlers
        PROVE  /\ 1 \in 1..(Len(Candidates(EventOf[h])) + 1)
               /\ Len(Candidates(EventOf[h])) + 1 \in 1..(Len(Candidates(EventOf[h])) + 1)
    BY CandidatesType
  <1>4. ASSUME NEW h \in Handlers, HandleInbound(h)
        PROVE  HandlerType' /\ EntriesType(dedup')
    <2>1. \/ Ignore(h)
          \/ ReserveNext(h, Len(Candidates(EventOf[h])) + 1, dedup)
          \/ ReserveNext(h, 1, dedup)
      BY <1>4 DEF HandleInbound
    <2> QED
      BY <2>1, <1>a, <1>2, <1>3, ReserveNextType
  <1>5. ASSUME NEW h \in Handlers, HandleReaction(h)
        PROVE  HandlerType' /\ EntriesType(dedup')
    <2>1. Ignore(h) \/ ReserveNext(h, 1, dedup)
      BY <1>5 DEF HandleReaction
    <2> QED
      BY <2>1, <1>a, <1>2, <1>3, ReserveNextType
  <1>6. ASSUME NEW h \in Handlers, WakeAccepted(h)
        PROVE  HandlerType' /\ EntriesType(dedup') /\ QueueType'
    <2>1. InFlight(h)
      BY <1>6 DEF WakeAccepted, InFlight
    <2>2. QueueType'
      BY <2>1, <1>a, <1>6, CurrentType DEF WakeAccepted, QueueType
    <2> QED
      BY <2>1, <2>2, <1>a, <1>6 DEF WakeAccepted, HandlerType, InFlight, EntriesType
  <1>7. ASSUME NEW h \in Handlers, WakeDelivered(h)
        PROVE  HandlerType' /\ EntriesType(dedup')
    <2>1. InFlight(h)
      BY <1>7 DEF WakeDelivered, InFlight
    <2>2. EntriesType(dedup \cup Claim(EventOf[h], Target(h)))
      BY <2>1, <1>a, CurrentType DEF EntriesType
    <2> QED
      BY <2>1, <2>2, <1>a, <1>7, CurrentType, ReserveNextType DEF WakeDelivered
  <1>8. ASSUME NEW h \in Handlers, WakeFailed(h)
        PROVE  HandlerType' /\ EntriesType(dedup') /\ QueueType'
    <2>1. InFlight(h)
      BY <1>8 DEF WakeFailed, InFlight
    <2>2. EntriesType(dedup \ Claim(EventOf[h], Target(h)))
      BY <1>a DEF EntriesType
    <2>3. Current(h) \in Item
      BY <2>1, <1>a, CurrentType
    <2>4. QueueType'
      BY <2>3, <1>a, <1>8 DEF WakeFailed, HoldAdd, QueueType
    <2> QED
      BY <2>1, <2>2, <2>4, <1>a, <1>8, CurrentType, ReserveNextType DEF WakeFailed
  <1>9. ASSUME NEW d \in Drainers, Drain(d) PROVE QueueType'
    <2>1. CASE DrainStart(d)
      BY <2>1, <1>a DEF DrainStart, QueueType
    <2>2. CASE DrainEnd(d)
      BY <2>2, <1>a DEF DrainEnd, QueueType
    <2>3. CASE DrainDeparted(d)
      BY <2>3, <1>a DEF DrainDeparted, HoldRemove, QueueType
    <2>4. CASE DrainItem(d)
      BY <2>4, <1>a DEF DrainItem, QueueType
    <2>5. CASE DrainAccepted(d)
      <3>1. cur[d] \subseteq Item
        BY <1>a DEF QueueType
      <3>2. {[by |-> d, bot |-> i.bot, ev |-> i.ev] : i \in cur[d]} \subseteq Wake
        BY <3>1 DEF Item, Wake
      <3> QED
        BY <2>5, <3>2, <1>a DEF DrainAccepted, QueueType
    <2>6. CASE DrainDelivered(d)
      BY <2>6, <1>a DEF DrainDelivered, HoldRemove, QueueType
    <2>7. CASE DrainFailed(d)
      BY <2>7, <1>a DEF DrainFailed, QueueType
    <2> QED
      BY <1>9, <2>1, <2>2, <2>3, <2>4, <2>5, <2>6, <2>7 DEF Drain
  <1>10. ASSUME NEW d \in Drainers, Drain(d)
         PROVE  UNCHANGED <<roster, reindexing, pc, at, dedup, restarts>>
    BY <1>10 DEF Drain, DrainStart, DrainEnd, DrainDeparted, DrainItem,
                 DrainAccepted, DrainDelivered, DrainFailed
  <1>11. CASE HoldExpires
    BY <1>a, <1>11 DEF HoldExpires, HandlerType, InFlight, EntriesType, QueueType, Types
  <1>12. CASE DedupLapses
    BY <1>a, <1>12 DEF DedupLapses, HandlerType, InFlight, EntriesType, QueueType, Types
  <1>13. CASE Reindex
    BY <1>a, <1>13 DEF Reindex, HandlerType, InFlight, EntriesType, QueueType, Types
  <1>14. CASE Restart
    <2>1. HandlerType'
      BY <1>a, <1>14 DEF Restart, HandlerType, InFlight, Terminal
    <2>2. \A h \in Handlers : InFlight(h) => Current(h) \in Item
      BY <1>a, CurrentType
    <2>3. QueueType'
      BY <2>2, <1>a, <1>14 DEF Restart, QueueType
    <2>4. EntriesType(dedup')
      BY <1>14 DEF Restart, EntriesType
    <2>5. restarts' \in 0..MaxRestarts
      BY <1>a, <1>14, BoundsAssumption DEF Restart
    <2>6. reindexing' \in BOOLEAN
      BY <1>14, Zenon DEF Restart
    <2> QED
      BY <2>1, <2>3, <2>4, <2>5, <2>6, <1>14 DEF Restart, Types
  <1>15. CASE UNCHANGED vars
    BY <1>a, <1>15 DEF vars, HandlerType, InFlight, EntriesType, QueueType, Types
  <1>16. ASSUME NEW h \in Handlers, Handle(h) PROVE Types'
    <2>1. CASE HandleInbound(h)
      BY <2>1, <1>4, <1>a DEF HandleInbound, QueueType, Types
    <2>2. CASE HandleReaction(h)
      BY <2>2, <1>5, <1>a DEF HandleReaction, QueueType, Types
    <2>3. CASE WakeAccepted(h)
      BY <2>3, <1>6, <1>a DEF WakeAccepted, Types
    <2>4. CASE WakeDelivered(h)
      BY <2>4, <1>7, <1>a DEF WakeDelivered, QueueType, Types
    <2>5. CASE WakeFailed(h)
      BY <2>5, <1>8, <1>a DEF WakeFailed, Types
    <2> QED
      BY <1>16, <2>1, <2>2, <2>3, <2>4, <2>5 DEF Handle
  <1>17. ASSUME NEW d \in Drainers, Drain(d) PROVE Types'
    BY <1>9, <1>10, <1>17, <1>a DEF HandlerType, InFlight, EntriesType, Types
  <1> QED
    BY <1>1, <1>11, <1>12, <1>13, <1>14, <1>15, <1>16, <1>17 DEF Next

\* The initial states have the type.
LEMMA InitTypes == Init => Types
  <1> SUFFICES ASSUME Init PROVE Types
    OBVIOUS
  <1>1. HandlerType
    <2>1. \A h \in Handlers : Len(Candidates(EventOf[h])) \in Nat
      BY CandidatesType
    <2> QED
      BY <2>1 DEF Init, HandlerType, InFlight
  <1>2. EntriesType(dedup) /\ QueueType
    BY DEF Init, EntriesType, QueueType
  <1>3. restarts \in 0..MaxRestarts
    BY BoundsAssumption DEF Init
  <1>4. reindexing \in BOOLEAN
    BY Zenon DEF Init
  <1> QED
    BY <1>1, <1>2, <1>3, <1>4 DEF Init, Types

\* The type invariant holds for every value of the constants: positions stay
\* within the targets, whatever the interleaving (relay.py:2343).
THEOREM TypeCorrect == Spec => []TypeOK
  BY InitTypes, TypesStep, TypeSplit, PTL DEF Spec
-----------------------------------------------------------------------------
(* Reservations.  Exclusive and ReservationStands are inductive together:  *)
(* a copy reserves only what no live entry claims, and every delivery in   *)
(* flight has its claim among the entries.                                 *)

\* Deliveries in flight hold different claims.
Exclusive ==
    \A g, h \in Handlers :
        (g # h /\ InFlight(g) /\ InFlight(h))
            => Claim(EventOf[g], Target(g)) \cap Claim(EventOf[h], Target(h)) = {}

\* What the bridge has accepted from a handler that awaits the answer.
HandlerAccepted ==
    \A h \in Handlers :
        pc[h] = "accepted" => \E w \in inbox : w.bot = Target(h) /\ w.ev = EventOf[h]

Reservations == ReservationStands /\ Exclusive /\ NoOrphanReservation /\ HandlerAccepted

\* Taking the next target keeps reservations exclusive, if the entries it starts
\* from hold the claim of every other delivery in flight.
LEMMA ReserveNextExclusive ==
    ASSUME HandlerType, Exclusive,
           NEW h \in Handlers,
           NEW j \in 1..(Len(Candidates(EventOf[h])) + 1),
           NEW entries,
           \A g \in Handlers \ {h} :
              InFlight(g) => Claim(EventOf[g], Target(g)) \subseteq entries,
           ReserveNext(h, j, entries)
    PROVE  ReservationStands' /\ Exclusive'
  <1> DEFINE C == Candidates(EventOf[h])
             wanted == {k \in j..Len(C) : /\ Addressed(EventOf[h], C[k])
                                          /\ ~Live(EventOf[h], C[k], entries)}
  <1>0. /\ entries \subseteq dedup'
        /\ \A g \in Handlers \ {h} : /\ pc'[g] = pc[g] /\ at'[g] = at[g]
                                     /\ InFlight(g)' = InFlight(g)
                                     /\ Target(g)' = Target(g)
    BY DEF ReserveNext, HandlerType, InFlight, Target
  <1>1. CASE pc' = [pc EXCEPT ![h] = "done"]
    <2>1. ~InFlight(h)'
      BY <1>1 DEF HandlerType, InFlight
    <2> QED
      BY <1>0, <2>1 DEF ReservationStands, Exclusive
  <1>2. ASSUME NEW k \in wanted,
               at' = [at EXCEPT ![h] = k],
               dedup' = entries \cup Claim(EventOf[h], C[k])
        PROVE  ReservationStands' /\ Exclusive'
    <2>1. Target(h)' = C[k]
      BY <1>2 DEF HandlerType, Target
    <2>2. Claim(EventOf[h], C[k]) \cap entries = {}
      BY DEF Claim, Live
    <2> QED
      BY <1>0, <1>2, <2>1, <2>2 DEF ReservationStands, Exclusive
  <1> QED
    BY <1>1, <1>2 DEF ReserveNext

\* It also leaves no entry orphaned, if every entry it starts from stands for a
\* wake the bridge has or for another delivery in flight.
LEMMA ReserveNextNoOrphan ==
    ASSUME HandlerType, HandlerAccepted,
           NEW h \in Handlers,
           NEW j \in 1..(Len(Candidates(EventOf[h])) + 1),
           NEW entries,
           \A e \in entries :
              \/ \E g \in Handlers \ {h} :
                    InFlight(g) /\ e \in Claim(EventOf[g], Target(g))
              \/ \E w \in inbox : e \in Claim(w.ev, w.bot),
           ReserveNext(h, j, entries),
           inbox' = inbox
    PROVE  NoOrphanReservation' /\ HandlerAccepted'
  <1> DEFINE C == Candidates(EventOf[h])
             wanted == {k \in j..Len(C) : /\ Addressed(EventOf[h], C[k])
                                          /\ ~Live(EventOf[h], C[k], entries)}
  <1>0. \A g \in Handlers \ {h} : /\ pc'[g] = pc[g]
                                  /\ InFlight(g)' = InFlight(g)
                                  /\ Target(g)' = Target(g)
    BY DEF ReserveNext, HandlerType, InFlight, Target
  <1>1. HandlerAccepted'
    <2>1. pc'[h] # "accepted"
      BY DEF ReserveNext, HandlerType
    <2> QED
      BY <1>0, <2>1 DEF HandlerAccepted
  <1>2. ASSUME dedup' = entries PROVE NoOrphanReservation'
    BY <1>0, <1>2 DEF NoOrphanReservation
  <1>3. ASSUME NEW k \in wanted,
               at' = [at EXCEPT ![h] = k],
               pc' = [pc EXCEPT ![h] = "posting"],
               dedup' = entries \cup Claim(EventOf[h], C[k])
        PROVE  NoOrphanReservation'
    <2>1. Target(h)' = C[k] /\ InFlight(h)'
      BY <1>3 DEF HandlerType, Target, InFlight
    <2> QED
      BY <1>0, <1>3, <2>1 DEF NoOrphanReservation
  <1>4. NoOrphanReservation'
    BY <1>2, <1>3 DEF ReserveNext
  <1> QED
    BY <1>1, <1>4

\* The reservations survive every step.
LEMMA ReservationsStep ==
    ASSUME Types, Reservations, [Next]_vars
    PROVE  Reservations'
  <1> USE DEF handlerVars, drainVars, queueVars
  <1>a. HandlerType /\ ReservationStands /\ Exclusive /\ NoOrphanReservation
           /\ HandlerAccepted
    BY DEF Types, Reservations
  <1>b. ASSUME UNCHANGED <<pc, at, dedup>>, inbox \subseteq inbox'
        PROVE  Reservations'
    BY <1>a, <1>b DEF Reservations, ReservationStands, Exclusive, NoOrphanReservation,
                      HandlerAccepted, InFlight, Target
  <1>c. ASSUME NEW h \in Handlers, ~InFlight(h), pc'[h] \notin {"posting", "accepted"},
               \A g \in Handlers \ {h} : pc'[g] = pc[g],
               UNCHANGED <<at, dedup, inbox>>
        PROVE  Reservations'
    BY <1>a, <1>c DEF Reservations, ReservationStands, Exclusive, NoOrphanReservation,
                      HandlerAccepted, InFlight, Target
  <1>d. ASSUME NEW h \in Handlers, ~InFlight(h), inbox' = inbox,
               NEW j \in 1..(Len(Candidates(EventOf[h])) + 1),
               ReserveNext(h, j, dedup)
        PROVE  Reservations'
    <2>1. ReservationStands' /\ Exclusive'
      <3>1. \A g \in Handlers \ {h} :
               InFlight(g) => Claim(EventOf[g], Target(g)) \subseteq dedup
        BY <1>a DEF ReservationStands
      <3> QED
        BY <3>1, <1>a, <1>d, ReserveNextExclusive
    <2>2. \A e \in dedup :
             \/ \E g \in Handlers \ {h} :
                    InFlight(g) /\ e \in Claim(EventOf[g], Target(g))
             \/ \E w \in inbox : e \in Claim(w.ev, w.bot)
      BY <1>a, <1>d DEF NoOrphanReservation
    <2> QED
      BY <2>1, <2>2, <1>a, <1>d, ReserveNextNoOrphan DEF Reservations
  <1>e. ASSUME NEW h \in Handlers
        PROVE  /\ 1 \in 1..(Len(Candidates(EventOf[h])) + 1)
               /\ Len(Candidates(EventOf[h])) + 1 \in 1..(Len(Candidates(EventOf[h])) + 1)
    BY CandidatesType
  <1>1. ASSUME NEW h \in Handlers, EventPump(h) PROVE Reservations'
    BY <1>a, <1>c, <1>1 DEF EventPump, InFlight, HandlerType
  <1>2. ASSUME NEW h \in Handlers, HandleInbound(h) \/ HandleReaction(h)
        PROVE  Reservations'
    <2>1. ~InFlight(h) /\ inbox' = inbox
      BY <1>2 DEF HandleInbound, HandleReaction, InFlight
    <2>2. \/ Ignore(h)
          \/ ReserveNext(h, Len(Candidates(EventOf[h])) + 1, dedup)
          \/ ReserveNext(h, 1, dedup)
      BY <1>2 DEF HandleInbound, HandleReaction
    <2>3. CASE Ignore(h)
      BY <1>a, <1>c, <2>1, <2>3 DEF Ignore, HandlerType
    <2> QED
      BY <1>d, <1>e, <2>1, <2>2, <2>3
  <1>3. ASSUME NEW h \in Handlers, WakeAccepted(h) PROVE Reservations'
    <2>1. \A g \in Handlers : InFlight(g)' = InFlight(g) /\ Target(g)' = Target(g)
      BY <1>a, <1>3 DEF WakeAccepted, InFlight, HandlerType, Target
    <2>2. HandlerAccepted'
      <3> DEFINE w == [by |-> h, bot |-> Target(h), ev |-> EventOf[h]]
      <3>1. w \in inbox' /\ inbox \subseteq inbox'
        BY <1>3 DEF WakeAccepted
      <3>2. w.bot = Target(h) /\ w.ev = EventOf[h]
        OBVIOUS
      <3>3. \A g \in Handlers \ {h} : pc'[g] = pc[g]
        BY <1>a, <1>3 DEF WakeAccepted, HandlerType
      <3> HIDE DEF w
      <3> QED
        BY <1>a, <2>1, <3>1, <3>2, <3>3 DEF HandlerAccepted
    <2> QED
      BY <1>a, <1>3, <2>1, <2>2
      DEF WakeAccepted, Reservations, ReservationStands, Exclusive, NoOrphanReservation
  <1>4. ASSUME NEW h \in Handlers, WakeDelivered(h) PROVE Reservations'
    <2> DEFINE entries == dedup \cup Claim(EventOf[h], Target(h))
    <2>1. InFlight(h) /\ pc[h] = "accepted" /\ inbox' = inbox
      BY <1>4 DEF WakeDelivered, InFlight
    <2>2. at[h] + 1 \in 1..(Len(Candidates(EventOf[h])) + 1)
      BY <2>1, <1>a, CurrentType
    <2>3. ReserveNext(h, at[h] + 1, entries)
      BY <1>4 DEF WakeDelivered
    <2>4. \A g \in Handlers \ {h} :
             InFlight(g) => Claim(EventOf[g], Target(g)) \subseteq entries
      BY <1>a DEF ReservationStands
    <2>5. \A e \in entries :
             \/ \E g \in Handlers \ {h} :
                    InFlight(g) /\ e \in Claim(EventOf[g], Target(g))
             \/ \E w \in inbox : e \in Claim(w.ev, w.bot)
      BY <1>a, <2>1 DEF NoOrphanReservation, HandlerAccepted
    <2> HIDE DEF entries
    <2>6. ReservationStands' /\ Exclusive'
      BY <1>a, <2>2, <2>3, <2>4, ReserveNextExclusive
    <2>7. NoOrphanReservation' /\ HandlerAccepted'
      BY <1>a, <2>1, <2>2, <2>3, <2>5, ReserveNextNoOrphan
    <2> QED
      BY <2>6, <2>7 DEF Reservations
  <1>5. ASSUME NEW h \in Handlers, WakeFailed(h) PROVE Reservations'
    <2> DEFINE entries == dedup \ Claim(EventOf[h], Target(h))
    <2>1. InFlight(h) /\ inbox' = inbox
      BY <1>5 DEF WakeFailed, InFlight
    <2>2. at[h] + 1 \in 1..(Len(Candidates(EventOf[h])) + 1)
      BY <2>1, <1>a, CurrentType
    <2>3. ReserveNext(h, at[h] + 1, entries)
      BY <1>5 DEF WakeFailed
    <2>4. \A g \in Handlers \ {h} :
             InFlight(g) => Claim(EventOf[g], Target(g)) \subseteq entries
      BY <1>a, <2>1 DEF ReservationStands, Exclusive
    <2>5. \A e \in entries :
             \/ \E g \in Handlers \ {h} :
                    InFlight(g) /\ e \in Claim(EventOf[g], Target(g))
             \/ \E w \in inbox : e \in Claim(w.ev, w.bot)
      BY <1>a DEF NoOrphanReservation
    <2> HIDE DEF entries
    <2>6. ReservationStands' /\ Exclusive'
      BY <1>a, <2>2, <2>3, <2>4, ReserveNextExclusive
    <2>7. NoOrphanReservation' /\ HandlerAccepted'
      BY <1>a, <2>1, <2>2, <2>3, <2>5, ReserveNextNoOrphan
    <2> QED
      BY <2>6, <2>7 DEF Reservations
  <1>6. ASSUME NEW d \in Drainers, Drain(d) PROVE Reservations'
    <2>1. UNCHANGED <<pc, at, dedup>> /\ inbox \subseteq inbox'
      BY <1>6 DEF Drain, DrainStart, DrainEnd, DrainDeparted, DrainItem,
                  DrainAccepted, DrainDelivered, DrainFailed
    <2> QED
      BY <1>b, <2>1
  <1>7. CASE HoldExpires \/ Reindex
    BY <1>b, <1>7 DEF HoldExpires, Reindex
  <1>8. CASE DedupLapses
    <2>1. \A h \in Handlers :
             InFlight(h) => Claim(EventOf[h], Target(h)) \subseteq dedup'
      BY <1>a, <1>8 DEF DedupLapses, ReservationStands
    <2>2. UNCHANGED <<pc, at, inbox>> /\ dedup' \subseteq dedup
      BY <1>8 DEF DedupLapses
    <2> QED
      BY <1>a, <2>1, <2>2 DEF Reservations, ReservationStands, Exclusive,
                              NoOrphanReservation, HandlerAccepted, InFlight, Target
  <1>9. CASE Restart
    <2>1. \A h \in Handlers : pc'[h] \notin {"posting", "accepted"}
      BY <1>9 DEF Restart, InFlight
    <2> QED
      BY <1>9, <2>1 DEF Restart, Reservations, ReservationStands, Exclusive,
                        NoOrphanReservation, HandlerAccepted, InFlight
  <1>10. CASE UNCHANGED vars
    BY <1>b, <1>10 DEF vars
  <1> QED
    BY <1>1, <1>2, <1>3, <1>4, <1>5, <1>6, <1>7, <1>8, <1>9, <1>10 DEF Next, Handle

\* For every set of handlers, events and drains: a delivery's reservation stands
\* until it ends, no two deliveries in flight share a claim, and no entry
\* outlives a failed delivery (relay.py:1977, 1990).
THEOREM ReservationsHold ==
    Spec => [](ReservationStands /\ Exclusive /\ NoOrphanReservation)
  <1>1. Init => Reservations
    BY DEF Init, Reservations, ReservationStands, Exclusive, NoOrphanReservation,
           HandlerAccepted, InFlight
  <1>2. Types /\ Reservations /\ [Next]_vars => Reservations'
    BY ReservationsStep
  <1>3. Reservations => ReservationStands /\ Exclusive /\ NoOrphanReservation
    BY DEF Reservations
  <1> QED
    BY <1>1, <1>2, <1>3, TypeCorrect, TypeSplit, PTL DEF Spec

\* No reservation is left behind by a failed delivery to suppress the next copy, for
\* any number of copies and drains (relay.py:1990, 2354).
THEOREM NothingIsSuppressed == Spec => []NoOrphanReservation
  BY ReservationsHold, PTL

\* The overlapping copies of one message never deliver to the same bot at the
\* same time, provided the core's ids tell messages apart (relay.py:1977).
THEOREM CopiesCollapse ==
    ASSUME IdentifiersAgree
    PROVE  Spec => []SingleFlight
  <1>1. Exclusive => SingleFlight
    <2> SUFFICES ASSUME Exclusive,
                        NEW g \in Handlers, NEW h \in Handlers,
                        g # h, InFlight(g), InFlight(h),
                        Keyed(EventOf[g]), Keyed(EventOf[h]),
                        EventOf[g].body = EventOf[h].body,
                        Target(g) = Target(h)
                 PROVE  FALSE
      BY DEF SingleFlight
    <2>1. Key(EventOf[g]) = Key(EventOf[h])
      BY IdentifiersAgree DEF IdentifiersAgree
    <2> QED
      BY <2>1 DEF Exclusive, Claim
  <1> QED
    BY <1>1, ReservationsHold, PTL
-----------------------------------------------------------------------------
(* No wake is lost.  A wake, once settled, stays settled: from in flight   *)
(* it goes to the bridge, the queue or the given-up, and it leaves the     *)
(* queue for one of the latter only.  A target is passed over only when a  *)
(* live entry claims it, and such an entry stands for a settled wake.      *)

DrainerAccepted ==
    \A d \in Drainers :
        dpc[d] = "accepted" =>
            \A i \in cur[d] : \E w \in inbox : w.bot = i.bot /\ w.ev = i.ev

\* The file is as good as the memory, and what a drain removes was delivered.
QueueInv == disk = hold /\ DrainerAccepted

\* Items with one key are for one bot and of one class.
LEMMA SameHoldKey ==
    ASSUME NEW i \in Item, NEW x \in Item, HoldKey(x) = HoldKey(i),
           NEW C \in Classes, x.ev \in C
    PROVE  x.bot = i.bot /\ i.ev \in C
  <1>1. PICK g \in Handlers, h \in Handlers : i.ev = EventOf[g] /\ x.ev = EventOf[h]
    BY DEF Item
  <1>2. x.bot = i.bot /\ i.bot \in Names
    BY DEF HoldKey, Item
  <1>3. HoldKey([bot |-> i.bot, ev |-> EventOf[h]]) = HoldKey([bot |-> i.bot, ev |-> EventOf[g]])
    BY <1>1, <1>2 DEF HoldKey
  <1> QED
    BY <1>1, <1>2, <1>3 DEF Classes, Alias, Events

\* Where ids tell messages apart, the copies of an event are a class.
LEMMA CopiesAreClass ==
    ASSUME IdentifiersAgree, NEW e \in Events
    PROVE  CopiesOf(e) \in Classes /\ e \in CopiesOf(e)
  <1>1. ASSUME NEW g \in Handlers, NEW h \in Handlers, Alias(EventOf[g], EventOf[h])
        PROVE  EventOf[g].body = EventOf[h].body
    BY <1>1 DEF Alias, IdentifiersAgree
  <1> QED
    BY <1>1 DEF CopiesOf, Classes, Events

\* What the keys take for an event is a class, and the least one it is in.
LEMMA KeyClassIsClass ==
    ASSUME NEW e \in Events
    PROVE  /\ KeyClass[e] \in Classes /\ e \in KeyClass[e]
           /\ \A C \in Classes : e \in C => KeyClass[e] \subseteq C
  <1>1. KeyClass[e] = {f \in Events : \A C \in Classes : e \in C => f \in C}
    BY DEF KeyClass
  <1>2. ASSUME NEW f \in KeyClass[e], NEW g \in Events, Alias(f, g)
        PROVE  g \in KeyClass[e]
    <2>1. \A C \in Classes : f \in C => g \in C
      BY <1>2 DEF Classes
    <2> QED
      BY <1>1, <2>1
  <1> QED
    BY <1>1, <1>2 DEF Classes

\* Items with one key are copies of one wake, where ids tell messages apart.
LEMMA SameWake ==
    ASSUME IdentifiersAgree, NEW i \in Item, NEW x \in Item, HoldKey(x) = HoldKey(i)
    PROVE  x.bot = i.bot /\ x.ev.body = i.ev.body
  <1>1. x.ev \in Events
    BY DEF Item, Events
  <1>2. x.bot = i.bot /\ i.ev \in CopiesOf(x.ev)
    BY <1>1, SameHoldKey, CopiesAreClass
  <1> QED
    BY <1>2 DEF CopiesOf

\* Every step keeps the hold queue on disk and its items traceable.
LEMMA QueueStep ==
    ASSUME Types, QueueInv, [Next]_vars
    PROVE  QueueInv'
  <1> USE DEF handlerVars, drainVars, queueVars
  <1>1. ASSUME NEW h \in Handlers, EventPump(h) \/ Handle(h) PROVE QueueInv'
    <2>1. UNCHANGED <<dpc, cur>> /\ inbox \subseteq inbox'
      BY <1>1 DEF EventPump, Handle, HandleInbound, HandleReaction, WakeAccepted,
                  WakeDelivered, WakeFailed
    <2>2. disk' = hold'
      BY <1>1 DEF EventPump, Handle, HandleInbound, HandleReaction, WakeAccepted,
                  WakeDelivered, WakeFailed, HoldAdd, QueueInv
    <2> QED
      BY <2>1, <2>2 DEF QueueInv, DrainerAccepted
  <1>2. ASSUME NEW d \in Drainers, Drain(d) PROVE QueueInv'
    <2>1. disk' = hold'
      BY <1>2 DEF Drain, DrainStart, DrainEnd, DrainDeparted, DrainItem, DrainAccepted,
                  DrainDelivered, DrainFailed, HoldRemove, QueueInv
    <2>2. CASE DrainAccepted(d)
      <3>1. inbox \subseteq inbox' /\ cur' = cur
        BY <2>2 DEF DrainAccepted
      <3>2. \A c \in Drainers \ {d} : dpc'[c] = dpc[c]
        BY <2>2 DEF DrainAccepted, Types, QueueType
      <3>3. ASSUME NEW i \in cur[d] PROVE \E w \in inbox' : w.bot = i.bot /\ w.ev = i.ev
        <4> DEFINE w == [by |-> d, bot |-> i.bot, ev |-> i.ev]
        <4>1. w \in inbox'
          BY <2>2 DEF DrainAccepted
        <4>2. w.bot = i.bot /\ w.ev = i.ev
          OBVIOUS
        <4> HIDE DEF w
        <4> QED
          BY <4>1, <4>2
      <3> QED
        BY <2>1, <3>1, <3>2, <3>3 DEF QueueInv, DrainerAccepted
    <2>3. CASE ~DrainAccepted(d)
      <3>1. /\ inbox' = inbox /\ dpc'[d] # "accepted"
            /\ \A c \in Drainers \ {d} : dpc'[c] = dpc[c] /\ cur'[c] = cur[c]
        BY <1>2, <2>3 DEF Drain, DrainStart, DrainEnd, DrainDeparted, DrainItem,
                          DrainDelivered, DrainFailed, Types, QueueType
      <3> QED
        BY <2>1, <3>1 DEF QueueInv, DrainerAccepted
    <2> QED
      BY <2>2, <2>3
  <1>3. CASE HoldExpires \/ DedupLapses \/ Reindex \/ UNCHANGED vars
    BY <1>3 DEF HoldExpires, DedupLapses, Reindex, vars, QueueInv, DrainerAccepted
  <1>4. CASE Restart
    BY <1>4 DEF Restart, QueueInv, DrainerAccepted
  <1> QED
    BY <1>1, <1>2, <1>3, <1>4 DEF Next

\* A held wake stays held until it is delivered or given up.
LEMMA HeldStays ==
    ASSUME Types, QueueInv, [Next]_vars, NEW C \in Classes, NEW b, HeldIn(C, b)
    PROVE  HeldIn(C, b)' \/ DeliveredIn(C, b)' \/ GivenUpIn(C, b)'
  <1> USE DEF handlerVars, drainVars, queueVars
  <1>1. PICK x \in hold : x.bot = b /\ x.ev \in C
    BY DEF HeldIn
  <1>2. x \in Item
    BY <1>1 DEF Types, QueueType
  <1>3. CASE x \in hold'
    BY <1>1, <1>3 DEF HeldIn
  <1>4. ASSUME NEW i \in Item, HoldRemove(i), x \notin hold'
        PROVE  i.bot = b /\ i.ev \in C
    <2>1. HoldKey(x) = HoldKey(i)
      BY <1>1, <1>4 DEF HoldRemove
    <2> QED
      BY <1>1, <1>2, <2>1, SameHoldKey
  <1>5. ASSUME NEW d \in Drainers, Drain(d), x \notin hold'
        PROVE  DeliveredIn(C, b)' \/ GivenUpIn(C, b)'
    <2>1. CASE DrainStart(d)
      BY <1>1, <1>5, <2>1 DEF DrainStart, GivenUpIn
    <2>2. CASE DrainDeparted(d)
      <3>1. PICK i \in batch[d] : HoldRemove(i) /\ gone' = gone \cup {i}
        BY <2>2 DEF DrainDeparted
      <3>2. i \in Item
        BY <3>1 DEF Types, QueueType
      <3> QED
        BY <1>4, <1>5, <3>1, <3>2 DEF GivenUpIn
    <2>3. CASE DrainDelivered(d)
      <3>1. PICK i \in cur[d] : HoldRemove(i)
        BY <2>3 DEF DrainDelivered
      <3>2. i \in Item
        BY <3>1 DEF Types, QueueType
      <3>3. \E w \in inbox : w.bot = i.bot /\ w.ev = i.ev
        BY <2>3, <3>1 DEF DrainDelivered, QueueInv, DrainerAccepted
      <3>4. inbox' = inbox
        BY <2>3 DEF DrainDelivered
      <3> QED
        BY <1>4, <1>5, <3>1, <3>2, <3>3, <3>4 DEF DeliveredIn
    <2>4. CASE DrainEnd(d) \/ DrainItem(d) \/ DrainAccepted(d) \/ DrainFailed(d)
      BY <1>1, <1>5, <2>4 DEF DrainEnd, DrainItem, DrainAccepted, DrainFailed
    <2> QED
      BY <1>5, <2>1, <2>2, <2>3, <2>4 DEF Drain
  <1>6. ASSUME NEW h \in Handlers, EventPump(h) \/ Handle(h) PROVE x \in hold'
    BY <1>1, <1>6 DEF EventPump, Handle, HandleInbound, HandleReaction, WakeAccepted,
                      WakeDelivered, WakeFailed, HoldAdd
  <1>7. HoldExpires \/ DedupLapses \/ Reindex \/ Restart \/ UNCHANGED vars => x \in hold'
    BY <1>1 DEF HoldExpires, DedupLapses, Reindex, Restart, vars, QueueInv
  <1> QED
    BY <1>3, <1>5, <1>6, <1>7 DEF Next

\* A wake in flight stays so until it is delivered, held or given up.
LEMMA FlightStays ==
    ASSUME Types, Reservations, [Next]_vars, NEW C \in Classes, NEW b, OnItsWayIn(C, b)
    PROVE  SettledIn(C, b)'
  <1> USE DEF handlerVars, drainVars, queueVars
  <1>1. PICK f \in Handlers : InFlight(f) /\ Target(f) = b /\ EventOf[f] \in C
    BY DEF OnItsWayIn
  <1>2. CASE pc'[f] = pc[f] /\ at'[f] = at[f]
    BY <1>1, <1>2 DEF SettledIn, OnItsWayIn, InFlight, Target
  <1>3. CASE WakeAccepted(f)
    BY <1>1, <1>3 DEF WakeAccepted, Types, HandlerType, InFlight, SettledIn, OnItsWayIn, Target
  <1>4. CASE WakeDelivered(f)
    <2>1. \E w \in inbox : w.bot = Target(f) /\ w.ev = EventOf[f]
      BY <1>4 DEF WakeDelivered, Reservations, HandlerAccepted
    <2>2. inbox' = inbox
      BY <1>4 DEF WakeDelivered
    <2> QED
      BY <1>1, <2>1, <2>2 DEF SettledIn, DeliveredIn
  <1>5. CASE WakeFailed(f)
    <2>1. Current(f) \in Item
      BY <1>1, CurrentType DEF Types
    <2>2. Current(f).bot = b /\ Current(f).ev \in C
      BY <1>1 DEF Current
    <2>3. CASE gone' = gone \cup {Current(f)}
      BY <2>2, <2>3 DEF SettledIn, GivenUpIn
    <2>4. CASE HoldAdd(Current(f))
      <3>1. CASE hold' = hold \cup {Current(f)}
        BY <2>2, <3>1 DEF SettledIn, HeldIn
      <3>2. ASSUME NEW x \in hold, HoldKey(x) = HoldKey(Current(f)), hold' = hold
            PROVE  SettledIn(C, b)'
        <4>1. x \in Item
          BY DEF Types, QueueType
        <4>2. x.bot = b /\ x.ev \in C
          BY <2>1, <2>2, <3>2, <4>1, SameHoldKey
        <4> QED
          BY <3>2, <4>2 DEF SettledIn, HeldIn
      <3> QED
        BY <2>4, <3>1, <3>2 DEF HoldAdd
    <2> QED
      BY <1>5, <2>3, <2>4 DEF WakeFailed
  <1>6. CASE Restart
    <2>1. Current(f) \in gone'
      BY <1>1, <1>6 DEF Restart
    <2> QED
      BY <1>1, <2>1 DEF SettledIn, GivenUpIn, Current
  <1>7. ASSUME NEW h \in Handlers, EventPump(h) \/ Handle(h),
               ~WakeAccepted(f), ~WakeDelivered(f), ~WakeFailed(f)
        PROVE  pc'[f] = pc[f] /\ at'[f] = at[f]
    <2>1. h # f
      BY <1>1, <1>7 DEF EventPump, Handle, HandleInbound, HandleReaction, InFlight
    <2> QED
      BY <1>7, <2>1 DEF EventPump, Handle, HandleInbound, HandleReaction, WakeAccepted,
                        WakeDelivered, WakeFailed, ReserveNext, Ignore, Types, HandlerType
  <1>8. ASSUME NEW d \in Drainers, Drain(d) PROVE pc' = pc /\ at' = at
    BY <1>8 DEF Drain, DrainStart, DrainEnd, DrainDeparted, DrainItem,
                DrainAccepted, DrainDelivered, DrainFailed
  <1>9. HoldExpires \/ DedupLapses \/ Reindex \/ UNCHANGED vars => pc' = pc /\ at' = at
    BY DEF HoldExpires, DedupLapses, Reindex, vars
  <1> QED
    BY <1>2, <1>3, <1>4, <1>5, <1>6, <1>7, <1>8, <1>9 DEF Next

\* What the bridge has and what was given up stay so.
LEMMA SettledStays ==
    ASSUME Types, Reservations, QueueInv, [Next]_vars,
           NEW C \in Classes, NEW b, SettledIn(C, b)
    PROVE  SettledIn(C, b)'
  <1>1. inbox \subseteq inbox' /\ gone \subseteq gone'
    BY DEF Next, EventPump, Handle, HandleInbound, HandleReaction, WakeAccepted,
           WakeDelivered, WakeFailed, Drain, DrainStart, DrainEnd, DrainDeparted,
           DrainItem, DrainAccepted, DrainDelivered, DrainFailed, HoldExpires,
           DedupLapses, Reindex, Restart, vars
  <1>2. CASE DeliveredIn(C, b) \/ GivenUpIn(C, b)
    BY <1>1, <1>2 DEF SettledIn, DeliveredIn, GivenUpIn
  <1>3. CASE HeldIn(C, b)
    BY <1>3, HeldStays DEF SettledIn
  <1>4. CASE OnItsWayIn(C, b)
    BY <1>4, FlightStays
  <1> QED
    BY <1>2, <1>3, <1>4 DEF SettledIn

\* A handler passes over a target only if it is not addressed or a live entry
\* claims it.
LEMMA ReserveNextSkips ==
    ASSUME HandlerType,
           NEW h \in Handlers,
           NEW j \in 1..(Len(Candidates(EventOf[h])) + 1),
           NEW entries,
           ReserveNext(h, j, entries),
           NEW m \in j..(at'[h] - 1),
           Addressed(EventOf[h], Candidates(EventOf[h])[m])
    PROVE  /\ m \in 1..Len(Candidates(EventOf[h]))
           /\ Live(EventOf[h], Candidates(EventOf[h])[m], dedup')
  <1> DEFINE C == Candidates(EventOf[h])
             wanted == {k \in j..Len(C) : /\ Addressed(EventOf[h], C[k])
                                          /\ ~Live(EventOf[h], C[k], entries)}
  <1>1. Len(C) \in Nat
    BY CandidatesType
  <1>2. entries \subseteq dedup' /\ at'[h] <= Len(C) + 1
    BY <1>1 DEF ReserveNext, HandlerType
  <1>3. m \in 1..Len(C) /\ m \in j..Len(C)
    <2>1. at'[h] \in Nat
      BY <1>1 DEF ReserveNext, HandlerType
    <2> QED
      BY <1>1, <1>2, <2>1
  <1>4. m \notin wanted
    <2>1. CASE wanted = {}
      BY <2>1
    <2>2. ASSUME NEW k \in wanted, \A n \in wanted : k <= n, at' = [at EXCEPT ![h] = k]
          PROVE  m \notin wanted
      <3>1. at'[h] = k /\ k \in Nat
        BY <1>1, <2>2 DEF HandlerType
      <3>2. m < k
        BY <1>3, <3>1
      <3>3. SUFFICES ASSUME m \in wanted PROVE FALSE
        OBVIOUS
      <3>4. k <= m
        BY <2>2, <3>3
      <3> QED
        BY <3>1, <3>2, <3>4, <1>3
    <2> QED
      BY <2>1, <2>2 DEF ReserveNext
  <1>5. Live(EventOf[h], C[m], entries)
    BY <1>3, <1>4
  <1> QED
    BY <1>2, <1>3, <1>5 DEF Live

\* A live entry for an event's target stands for a settled wake of its class.
LEMMA LiveIsSettled ==
    ASSUME Types', NoOrphanReservation',
           NEW h \in Handlers, NEW b \in Names, NEW C \in Classes, EventOf[h] \in C,
           Live(EventOf[h], b, dedup')
    PROVE  SettledIn(C, b)'
  <1> DEFINE k == <<Key(EventOf[h]), b>>
  <1>1. k \in dedup' /\ Keyed(EventOf[h])
    BY DEF Live
  <1>2. ASSUME NEW g \in Handlers, NEW c, k \in Claim(EventOf[g], c)
        PROVE  c = b /\ EventOf[g] \in C
    <2>1. Keyed(EventOf[g]) /\ Key(EventOf[g]) = Key(EventOf[h]) /\ c = b
      BY <1>2 DEF Claim
    <2> QED
      BY <1>1, <2>1 DEF Classes, Alias, Events
  <1>3. CASE \E g \in Handlers : InFlight(g)' /\ k \in Claim(EventOf[g], Target(g)')
    BY <1>2, <1>3 DEF SettledIn, OnItsWayIn
  <1>4. CASE \E w \in inbox' : k \in Claim(w.ev, w.bot)
    <2>1. PICK w \in inbox' : k \in Claim(w.ev, w.bot)
      BY <1>4
    <2>2. PICK g \in Handlers : w.ev = EventOf[g]
      BY <2>1 DEF Types, QueueType, Wake
    <2> QED
      BY <1>2, <2>1, <2>2 DEF SettledIn, DeliveredIn
  <1> QED
    BY <1>1, <1>3, <1>4 DEF NoOrphanReservation

\* The inductive invariant.
WakeInv == Types /\ Reservations /\ QueueInv /\ NoKeyLost

\* No step loses a wake.
LEMMA NoKeyLostStep ==
    ASSUME WakeInv, [Next]_vars
    PROVE  NoKeyLost'
  <1> USE DEF handlerVars, drainVars, queueVars
  <1>a. Types /\ Reservations /\ QueueInv /\ NoKeyLost /\ HandlerType
    BY DEF WakeInv, Types
  <1>b. Types' /\ Reservations' /\ NoOrphanReservation'
    BY <1>a, TypesStep, ReservationsStep DEF Reservations
  <1>c. \A C \in Classes : \A b : SettledIn(C, b) => SettledIn(C, b)'
    BY <1>a, SettledStays
  <1> SUFFICES ASSUME NEW h \in Handlers,
                      pc'[h] \in {"posting", "accepted", "done"},
                      NEW m \in 1..(at'[h] - 1),
                      Owes(EventOf[h], Candidates(EventOf[h])[m])
               PROVE  SettledIn(KeyClass[EventOf[h]], Candidates(EventOf[h])[m])'
    BY DEF NoKeyLost
  <1> DEFINE e == EventOf[h]
             b == Candidates(EventOf[h])[m]
             C == KeyClass[e]
  <1>e. C \in Classes /\ e \in C
    BY KeyClassIsClass DEF Events
  <1> SUFFICES SettledIn(C, b)'
    OBVIOUS
  <1> HIDE DEF C
  <1>d. at[h] \in Nat /\ at'[h] \in Nat /\ Len(Candidates(e)) \in Nat
    BY <1>a, <1>b, CandidatesType DEF Types, HandlerType
  <1>1. CASE pc[h] \in {"posting", "accepted", "done"} /\ m < at[h]
    <2>1. SettledIn(C, b)
      BY <1>a, <1>d, <1>1 DEF NoKeyLost, C
    <2> QED
      BY <1>c, <1>e, <2>1
  <1>2. CASE InFlight(h) /\ m = at[h]
    <2>1. OnItsWayIn(C, b)
      BY <1>2, <1>e DEF OnItsWayIn, Target
    <2> QED
      BY <1>c, <1>e, <2>1 DEF SettledIn
  <1>3. ASSUME NEW j \in 1..(Len(Candidates(e)) + 1), NEW entries,
               ReserveNext(h, j, entries), j <= m
        PROVE  SettledIn(C, b)'
    <2>1. m \in j..(at'[h] - 1)
      BY <1>3, <1>d
    <2>2. m \in 1..Len(Candidates(e)) /\ Live(e, b, dedup')
      BY <1>3, <1>a, <2>1, ReserveNextSkips DEF Owes
    <2>3. b \in Names
      BY <2>2, CandidateIsName
    <2> QED
      BY <2>2, <2>3, <1>b, <1>e, LiveIsSettled
  <1>4. CASE HandleInbound(h) \/ HandleReaction(h)
    <2>1. ~Ignore(h)
      BY <1>a, <1>4 DEF Ignore, HandlerType
    <2>2. CASE ReserveNext(h, 1, dedup)
      BY <1>3, <1>d, <2>2
    <2>3. CASE e.from = e.acct
      BY <2>3 DEF Owes
    <2> QED
      BY <1>4, <2>1, <2>2, <2>3 DEF HandleInbound, HandleReaction
  <1>5. CASE WakeDelivered(h) \/ WakeFailed(h)
    <2>1. InFlight(h)
      BY <1>5 DEF WakeDelivered, WakeFailed, InFlight
    <2>2. at[h] + 1 \in 1..(Len(Candidates(e)) + 1)
      BY <2>1, <1>a, CurrentType
    <2>3. \E entries : ReserveNext(h, at[h] + 1, entries)
      BY <1>5 DEF WakeDelivered, WakeFailed
    <2>4. CASE at[h] + 1 <= m
      BY <1>3, <2>2, <2>3, <2>4
    <2>5. CASE m < at[h]
      BY <1>1, <2>1, <2>5 DEF InFlight
    <2> QED
      BY <1>2, <1>d, <2>1, <2>4, <2>5
  <1>6. CASE /\ at'[h] = at[h]
             /\ pc'[h] = pc[h] \/ pc[h] \in {"posting", "accepted", "done"}
    BY <1>1, <1>d, <1>6
  <1>7. CASE EventPump(h) \/ WakeAccepted(h)
    BY <1>6, <1>7, <1>a DEF EventPump, WakeAccepted, HandlerType
  <1>8. ASSUME NEW g \in Handlers \ {h}, EventPump(g) \/ Handle(g)
        PROVE  at'[h] = at[h] /\ pc'[h] = pc[h]
    BY <1>8, <1>a DEF EventPump, Handle, HandleInbound, HandleReaction, WakeAccepted,
                      WakeDelivered, WakeFailed, ReserveNext, Ignore, HandlerType
  <1>9. ASSUME NEW d \in Drainers, Drain(d) PROVE pc' = pc /\ at' = at
    BY <1>9 DEF Drain, DrainStart, DrainEnd, DrainDeparted, DrainItem,
                DrainAccepted, DrainDelivered, DrainFailed
  <1>10. HoldExpires \/ DedupLapses \/ Reindex \/ UNCHANGED vars => pc' = pc /\ at' = at
    BY DEF HoldExpires, DedupLapses, Reindex, vars
  <1>11. CASE Restart
    BY <1>6, <1>11, <1>a DEF Restart, HandlerType
  <1> QED
    BY <1>4, <1>5, <1>6, <1>7, <1>8, <1>9, <1>10, <1>11 DEF Next, Handle

\* No wake is lost but to one that the keys of the deduplication or of the hold queue
\* take for it, whatever the core's ids are, for any number of copies, drains and
\* restarts: of the events that the keys take for this one, a target that a handler has
\* passed has a wake at the bridge, in the hold queue, in flight or given up loudly
\* (relay.py 1475, 1977, 2377).
THEOREM KeysAreNotLost == Spec => []NoKeyLost
  <1>1. Init => WakeInv
    <2>1. ASSUME Init PROVE Reservations /\ QueueInv
      BY <2>1 DEF Init, Reservations, ReservationStands, Exclusive, NoOrphanReservation,
                  HandlerAccepted, InFlight, QueueInv, DrainerAccepted
    <2>2. ASSUME Init PROVE NoKeyLost
      BY <2>2 DEF Init, NoKeyLost
    <2> QED
      BY <2>1, <2>2, InitTypes DEF WakeInv
  <1>2. WakeInv /\ [Next]_vars => WakeInv'
    <2> SUFFICES ASSUME WakeInv, [Next]_vars PROVE WakeInv'
      OBVIOUS
    <2>1. Types /\ Reservations /\ QueueInv
      BY DEF WakeInv
    <2> QED
      BY <2>1, TypesStep, ReservationsStep, QueueStep, NoKeyLostStep DEF WakeInv
  <1>3. WakeInv => NoKeyLost
    BY DEF WakeInv
  <1> QED
    BY <1>1, <1>2, <1>3, PTL DEF Spec

\* As long as the core's ids tell messages apart, no wake is lost: a target a handler
\* has passed has its wake at the bridge, in the hold queue, in flight or given up
\* loudly.
THEOREM WakesAreNotLost ==
    ASSUME IdentifiersAgree
    PROVE  Spec => []NoWakeLost
  <1>1. \A h \in Handlers : KeyClass[EventOf[h]] \subseteq CopiesOf(EventOf[h])
    BY CopiesAreClass, KeyClassIsClass DEF Events
  <1>2. \A h \in Handlers : \A b : SettledIn(KeyClass[EventOf[h]], b) => Settled(EventOf[h], b)
    BY <1>1 DEF Settled, SettledIn, DeliveredIn, HeldIn, GivenUpIn, OnItsWayIn
  <1>3. NoKeyLost => NoWakeLost
    BY <1>2 DEF NoKeyLost, NoWakeLost
  <1> QED
    BY <1>3, KeysAreNotLost, PTL
-----------------------------------------------------------------------------
(* Nobody wakes himself.  What reaches the queue and the bridge came from  *)
(* a handler in flight, and one is in flight only on an addressed target.  *)

ForOthers(x) == x.bot # x.ev.from /\ ~x.ev.notice

FlightAddressed ==
    \A h \in Handlers : InFlight(h) => Addressed(EventOf[h], Target(h))

SelfWakeInv ==
    /\ FlightAddressed
    /\ \A x \in inbox \cup hold \cup disk : ForOthers(x)
    /\ \A d \in Drainers : \A i \in batch[d] \cup cur[d] : ForOthers(i)

\* Taking the next target puts a handler in flight on an addressed one only.
LEMMA ReserveNextAddressed ==
    ASSUME HandlerType, FlightAddressed,
           NEW h \in Handlers,
           NEW j \in 1..(Len(Candidates(EventOf[h])) + 1),
           NEW entries,
           ReserveNext(h, j, entries)
    PROVE  FlightAddressed'
  <1>1. \A g \in Handlers \ {h} : InFlight(g)' = InFlight(g) /\ Target(g)' = Target(g)
    BY DEF ReserveNext, HandlerType, InFlight, Target
  <1>2. InFlight(h)' => Addressed(EventOf[h], Target(h)')
    BY DEF ReserveNext, HandlerType, InFlight, Target
  <1> QED
    BY <1>1, <1>2 DEF FlightAddressed

\* Every step keeps it.
LEMMA SelfWakeStep ==
    ASSUME Types, SelfWakeInv, [Next]_vars
    PROVE  SelfWakeInv'
  <1> USE DEF handlerVars, drainVars, queueVars
  <1>a. HandlerType /\ QueueType /\ FlightAddressed
    BY DEF Types, SelfWakeInv
  <1>b. ASSUME NEW h \in Handlers, InFlight(h)
        PROVE  /\ ForOthers(Current(h))
               /\ ForOthers([by |-> h, bot |-> Target(h), ev |-> EventOf[h]])
    BY <1>a, <1>b DEF FlightAddressed, Addressed, ForOthers, Current
  <1>c. \A h \in Handlers :
           /\ 1 \in 1..(Len(Candidates(EventOf[h])) + 1)
           /\ Len(Candidates(EventOf[h])) + 1 \in 1..(Len(Candidates(EventOf[h])) + 1)
    BY CandidatesType
  <1>1. ASSUME NEW h \in Handlers, EventPump(h) \/ Handle(h) PROVE SelfWakeInv'
    <2>1. CASE HandleInbound(h) \/ HandleReaction(h)
      <3>1. \/ Ignore(h)
            \/ \E j \in 1..(Len(Candidates(EventOf[h])) + 1) : ReserveNext(h, j, dedup)
        BY <1>c, <2>1 DEF HandleInbound, HandleReaction
      <3>2. Ignore(h) => FlightAddressed'
        BY <1>a DEF Ignore, HandlerType, FlightAddressed, InFlight, Target
      <3>3. FlightAddressed'
        BY <1>a, <3>1, <3>2, ReserveNextAddressed
      <3> QED
        BY <2>1, <3>3 DEF HandleInbound, HandleReaction, SelfWakeInv
    <2>2. CASE EventPump(h)
      <3>1. FlightAddressed'
        BY <1>a, <2>2 DEF EventPump, HandlerType, FlightAddressed, InFlight, Target
      <3> QED
        BY <2>2, <3>1 DEF EventPump, SelfWakeInv
    <2>3. CASE WakeAccepted(h)
      <3>1. InFlight(h)
        BY <2>3 DEF WakeAccepted, InFlight
      <3>2. FlightAddressed'
        BY <1>a, <2>3, <3>1 DEF WakeAccepted, HandlerType, FlightAddressed, InFlight, Target
      <3> QED
        BY <1>b, <2>3, <3>1, <3>2 DEF WakeAccepted, SelfWakeInv
    <2>4. CASE WakeDelivered(h) \/ WakeFailed(h)
      <3>1. InFlight(h)
        BY <2>4 DEF WakeDelivered, WakeFailed, InFlight
      <3>2. at[h] + 1 \in 1..(Len(Candidates(EventOf[h])) + 1)
        BY <1>a, <3>1, CurrentType
      <3>3. FlightAddressed'
        BY <1>a, <2>4, <3>2, ReserveNextAddressed DEF WakeDelivered, WakeFailed
      <3>4. /\ hold' \subseteq hold \cup {Current(h)}
            /\ disk' \subseteq disk \cup hold \cup {Current(h)}
            /\ UNCHANGED <<inbox, batch, cur>>
        BY <2>4 DEF WakeDelivered, WakeFailed, HoldAdd
      <3> QED
        BY <1>b, <3>1, <3>3, <3>4 DEF SelfWakeInv
    <2> QED
      BY <1>1, <2>1, <2>2, <2>3, <2>4 DEF Handle
  <1>2. ASSUME NEW d \in Drainers, Drain(d) PROVE SelfWakeInv'
    <2>1. FlightAddressed'
      <3>1. pc' = pc /\ at' = at
        BY <1>2 DEF Drain, DrainStart, DrainEnd, DrainDeparted, DrainItem,
                    DrainAccepted, DrainDelivered, DrainFailed
      <3> QED
        BY <1>a, <3>1 DEF FlightAddressed, InFlight, Target
    <2>2. hold' \subseteq hold /\ disk' \subseteq hold \cup disk
      BY <1>2 DEF Drain, DrainStart, DrainEnd, DrainDeparted, DrainItem,
                  DrainAccepted, DrainDelivered, DrainFailed, HoldRemove
    <2>3. \A c \in Drainers :
             batch'[c] \cup cur'[c] \subseteq batch[c] \cup cur[c] \cup hold
      BY <1>2, <1>a DEF Drain, DrainStart, DrainEnd, DrainDeparted, DrainItem,
                        DrainAccepted, DrainDelivered, DrainFailed, QueueType
    <2>4. \A w \in inbox' : ForOthers(w)
      <3>1. CASE DrainAccepted(d)
        <4>1. ASSUME NEW i \in cur[d]
              PROVE  ForOthers([by |-> d, bot |-> i.bot, ev |-> i.ev])
          BY DEF SelfWakeInv, ForOthers
        <4> QED
          BY <3>1, <4>1 DEF DrainAccepted, SelfWakeInv
      <3>2. CASE ~DrainAccepted(d)
        BY <1>2, <3>2 DEF Drain, DrainStart, DrainEnd, DrainDeparted, DrainItem,
                          DrainDelivered, DrainFailed, SelfWakeInv
      <3> QED
        BY <3>1, <3>2
    <2> QED
      BY <2>1, <2>2, <2>3, <2>4 DEF SelfWakeInv
  <1>3. CASE HoldExpires \/ DedupLapses \/ Reindex \/ UNCHANGED vars
    <2>1. UNCHANGED <<pc, at, hold, disk, inbox, batch, cur>>
      BY <1>3 DEF HoldExpires, DedupLapses, Reindex, vars
    <2> QED
      BY <2>1 DEF SelfWakeInv, FlightAddressed, InFlight, Target
  <1>4. CASE Restart
    <2>1. \A h \in Handlers : ~InFlight(h)'
      BY <1>4, <1>a DEF Restart, HandlerType, InFlight
    <2> QED
      BY <1>4, <2>1 DEF Restart, SelfWakeInv, FlightAddressed
  <1> QED
    BY <1>1, <1>2, <1>3, <1>4 DEF Next

\* Whoever posts what and whatever the account index says, no bot is woken by its
\* own post and nobody by a device notice, not even from the hold queue
\* (relay.py:2284, 2336).
THEOREM NobodyWakesHimself == Spec => []NoSelfWake
  <1>1. Init => SelfWakeInv
    BY DEF Init, SelfWakeInv, FlightAddressed, InFlight
  <1>2. Types /\ SelfWakeInv /\ [Next]_vars => SelfWakeInv'
    BY SelfWakeStep
  <1>3. SelfWakeInv => NoSelfWake
    BY DEF SelfWakeInv, NoSelfWake, ForOthers
  <1> QED
    BY <1>1, <1>2, <1>3, TypeCorrect, TypeSplit, PTL DEF Spec
=============================================================================
