------------------------- MODULE WakeMailboxProofs -------------------------
(***************************************************************************)
(* The wake path implements the mailbox, for any number of handlers,       *)
(* drains, bots and restarts, as long as the core's ids tell messages      *)
(* apart.  Every action of the wake path is one of the mailbox's or        *)
(* changes nothing that the mailbox sees.                                  *)
(***************************************************************************)
EXTENDS WakePathProofs

\* The wake of a handler that is at work on it.
WakeOf(h) == <<EventOf[h].body, Target(h)>>

\* An item a drain has in hand was begun by some handler.
DrainKnown ==
    \A d \in Drainers : \A i \in batch[d] \cup cur[d] : Settled(i.ev, i.bot)

MailboxInv == Types /\ Reservations /\ QueueInv /\ DrainKnown

\* What is open depends on where the handlers are, and on nothing else.
LEMMA OpenedSame ==
    ASSUME \A g \in Handlers : InFlight(g)' = InFlight(g) /\ Target(g)' = Target(g)
    PROVE  Opened' = Opened
  BY DEF Opened

\* One handler's step closes at most its own wake.
LEMMA OneCloses ==
    ASSUME NEW h \in Handlers,
           \A g \in Handlers \ {h} : InFlight(g)' = InFlight(g) /\ Target(g)' = Target(g)
    PROVE  /\ Opened \subseteq Opened' \cup {WakeOf(h)}
           /\ ~InFlight(h) => Opened \subseteq Opened'
  BY DEF Opened, WakeOf

\* What is open after a step are wakes.
LEMMA OpenedType ==
    ASSUME HandlerType'
    PROVE  Opened' \subseteq Bodies \X Names
  <1> SUFFICES ASSUME NEW h \in Handlers, InFlight(h)'
               PROVE  <<EventOf[h].body, Target(h)'>> \in Bodies \X Names
    BY DEF Opened
  <1>1. EventOf[h].body \in Bodies
    BY CandidatesType DEF Event
  <1>2. at'[h] \in 1..Len(Candidates(EventOf[h]))
    BY CandidatesType DEF HandlerType
  <1>3. Target(h)' \in Names
    BY <1>2, CandidateIsName DEF Target
  <1> QED
    BY <1>1, <1>3

\* A handler at work on a wake has it open.
LEMMA InFlightOpen ==
    ASSUME NEW h \in Handlers, InFlight(h)
    PROVE  WakeOf(h) \in Opened
  BY DEF Opened, WakeOf

\* What is settled, the mailbox knows.
LEMMA SettledIsKnown ==
    ASSUME NEW e, NEW b, Settled(e, b)
    PROVE  <<e.body, b>> \in M!Known
  <1>1. DeliveredIn(CopiesOf(e), b) => <<e.body, b>> \in WakesOf(inbox)
    BY DEF DeliveredIn, CopiesOf, WakesOf
  <1>2. HeldIn(CopiesOf(e), b) => <<e.body, b>> \in WakesOf(hold)
    BY DEF HeldIn, CopiesOf, WakesOf
  <1>3. GivenUpIn(CopiesOf(e), b) => <<e.body, b>> \in WakesOf(gone)
    BY DEF GivenUpIn, CopiesOf, WakesOf
  <1>4. OnItsWayIn(CopiesOf(e), b) => <<e.body, b>> \in Opened
    BY DEF OnItsWayIn, CopiesOf, Opened
  <1> QED
    BY <1>1, <1>2, <1>3, <1>4 DEF Settled, SettledIn, M!Known

\* Sets of items and their wakes.
LEMMA WakesOfUnion ==
    ASSUME NEW S, NEW T
    PROVE  /\ WakesOf(S \cup T) = WakesOf(S) \cup WakesOf(T)
           /\ S \subseteq T => WakesOf(S) \subseteq WakesOf(T)
  BY DEF WakesOf

LEMMA WakesOfOne ==
    ASSUME NEW x
    PROVE  WakesOf({x}) = {<<x.ev.body, x.bot>>}
  BY DEF WakesOf

\* The wakes of what a handler gives up or has accepted.
LEMMA WakesOfCurrent ==
    ASSUME NEW h \in Handlers
    PROVE  /\ WakesOf({Current(h)}) = {WakeOf(h)}
           /\ WakesOf({[by |-> h, bot |-> Target(h), ev |-> EventOf[h]]}) = {WakeOf(h)}
  <1>1. Current(h).ev = EventOf[h] /\ Current(h).bot = Target(h)
    BY DEF Current
  <1>2. WakesOf({Current(h)}) = {WakeOf(h)}
    BY <1>1, WakesOfOne DEF WakeOf
  <1> DEFINE w == [by |-> h, bot |-> Target(h), ev |-> EventOf[h]]
  <1>3. w.ev = EventOf[h] /\ w.bot = Target(h)
    OBVIOUS
  <1> HIDE DEF w
  <1>4. WakesOf({w}) = {WakeOf(h)}
    BY <1>3, WakesOfOne DEF WakeOf
  <1> QED
    BY <1>2, <1>4 DEF w
-----------------------------------------------------------------------------
\* What a drain has in hand stays known, because what is settled stays settled.
LEMMA DrainKnownStep ==
    ASSUME IdentifiersAgree, MailboxInv, [Next]_vars
    PROVE  DrainKnown'
  <1> USE DEF handlerVars, drainVars, queueVars
  <1>a. Types /\ Reservations /\ QueueInv /\ DrainKnown
    BY DEF MailboxInv
  <1>b. \A e \in Events : \A b : Settled(e, b) => Settled(e, b)'
    BY <1>a, SettledStays, CopiesAreClass DEF Settled
  <1>c. \A d \in Drainers : \A i \in batch[d] \cup cur[d] : i.ev \in Events
    BY <1>a DEF Types, QueueType, Item, Events
  <1>1. CASE \A d \in Drainers : batch'[d] \cup cur'[d] \subseteq batch[d] \cup cur[d]
    BY <1>1, <1>a, <1>b, <1>c DEF DrainKnown
  <1>2. ASSUME NEW d \in Drainers, DrainStart(d) PROVE DrainKnown'
    <2>1. \A i \in hold' : Settled(i.ev, i.bot)'
      <3>1. hold' \subseteq hold /\ \A i \in hold : i.ev \in CopiesOf(i.ev)
        BY <1>2, <1>a, CopiesAreClass DEF DrainStart, Types, QueueType, Item, Events
      <3> QED
        BY <3>1 DEF Settled, SettledIn, HeldIn
    <2>2. /\ batch'[d] = hold' /\ cur' = cur
          /\ \A c \in Drainers \ {d} : batch'[c] = batch[c]
      BY <1>2, <1>a DEF DrainStart, Types, QueueType
    <2> QED
      BY <2>1, <2>2, <1>a, <1>b, <1>c DEF DrainKnown
  <1>3. ASSUME NEW d \in Drainers, Drain(d), ~DrainStart(d)
        PROVE  \A c \in Drainers : batch'[c] \cup cur'[c] \subseteq batch[c] \cup cur[c]
    BY <1>3, <1>a DEF Drain, DrainEnd, DrainDeparted, DrainItem, DrainAccepted,
                      DrainDelivered, DrainFailed, Types, QueueType
  <1>4. ASSUME NEW h \in Handlers, EventPump(h) \/ Handle(h) PROVE batch' = batch /\ cur' = cur
    BY <1>4 DEF EventPump, Handle, HandleInbound, HandleReaction, WakeAccepted,
                WakeDelivered, WakeFailed
  <1>5. HoldExpires \/ DedupLapses \/ Reindex \/ UNCHANGED vars => batch' = batch /\ cur' = cur
    BY DEF HoldExpires, DedupLapses, Reindex, vars
  <1>6. Restart => \A d \in Drainers : batch'[d] = {} /\ cur'[d] = {}
    BY DEF Restart
  <1> QED
    BY <1>1, <1>2, <1>3, <1>4, <1>5, <1>6 DEF Next

\* A handler's steps begin wakes, and close them with the wake accounted for, or
\* deliver one.
LEMMA HandlerSteps ==
    ASSUME IdentifiersAgree, MailboxInv, Types',
           NEW h \in Handlers, EventPump(h) \/ Handle(h)
    PROVE  M!Handle \/ M!Accept
  <1> USE DEF handlerVars, drainVars, queueVars
  <1>a. Types /\ HandlerType /\ QueueType /\ Reservations /\ HandlerType'
    BY DEF MailboxInv, Types
  <1>b. Opened' \subseteq Bodies \X Names
    BY <1>a, OpenedType
  <1>c. ASSUME ~WakeAccepted(h)
        PROVE  \A g \in Handlers \ {h} : InFlight(g)' = InFlight(g) /\ Target(g)' = Target(g)
    BY <1>a DEF EventPump, Handle, HandleInbound, HandleReaction, WakeAccepted,
                WakeDelivered, WakeFailed, ReserveNext, Ignore, HandlerType, InFlight, Target
  <1>1. CASE EventPump(h) \/ HandleInbound(h) \/ HandleReaction(h)
    <2>1. ~InFlight(h) /\ ~WakeAccepted(h) /\ UNCHANGED <<hold, inbox, gone>>
      BY <1>1 DEF EventPump, HandleInbound, HandleReaction, WakeAccepted, InFlight
    <2>2. Opened \subseteq Opened'
      BY <2>1, <1>c, OneCloses
    <2> QED
      BY <1>b, <2>1, <2>2 DEF M!Handle, WakesOf
  <1>2. CASE WakeAccepted(h)
    <2>1. InFlight(h) /\ UNCHANGED <<hold, gone>>
      BY <1>2 DEF WakeAccepted, InFlight
    <2>2. Opened' = Opened
      <3>1. \A g \in Handlers : InFlight(g)' = InFlight(g) /\ Target(g)' = Target(g)
        BY <1>2, <1>a DEF WakeAccepted, HandlerType, InFlight, Target
      <3> QED
        BY <3>1, OpenedSame
    <2>3. WakesOf(inbox') = WakesOf(inbox) \cup {WakeOf(h)}
      <3> DEFINE w == [by |-> h, bot |-> Target(h), ev |-> EventOf[h]]
      <3>1. inbox' = inbox \cup {w}
        BY <1>2 DEF WakeAccepted
      <3>2. WakesOf({w}) = {WakeOf(h)}
        BY WakesOfCurrent
      <3>3. WakesOf(inbox \cup {w}) = WakesOf(inbox) \cup WakesOf({w})
        BY WakesOfUnion
      <3> QED
        BY <3>1, <3>2, <3>3
    <2>4. WakesOf(inbox)' = WakesOf(inbox')
      BY DEF WakesOf
    <2>5. WakeOf(h) \in Opened
      BY <2>1, InFlightOpen
    <2> QED
      BY <2>1, <2>2, <2>3, <2>4, <2>5 DEF M!Accept, M!Known, WakesOf
  <1>3. CASE WakeDelivered(h)
    <2>1. InFlight(h) /\ ~WakeAccepted(h) /\ UNCHANGED <<hold, inbox, gone>>
      BY <1>3 DEF WakeDelivered, WakeAccepted, InFlight
    <2>2. Opened \subseteq Opened' \cup {WakeOf(h)}
      BY <2>1, <1>c, OneCloses
    <2>3. WakeOf(h) \in WakesOf(inbox)
      BY <1>3, <1>a DEF WakeDelivered, Reservations, HandlerAccepted, WakesOf, WakeOf
    <2> QED
      BY <1>b, <2>1, <2>2, <2>3 DEF M!Handle, WakesOf
  <1>4. CASE WakeFailed(h)
    <2>1. InFlight(h) /\ ~WakeAccepted(h) /\ inbox' = inbox
      <3>1. InFlight(h) /\ inbox' = inbox
        BY <1>4 DEF WakeFailed, InFlight
      <3>2. pc'[h] # "accepted"
        BY <1>4, <1>a DEF WakeFailed, ReserveNext, HandlerType
      <3>3. ~WakeAccepted(h)
        BY <3>2, <1>a DEF WakeAccepted, HandlerType
      <3> QED
        BY <3>1, <3>3
    <2>2. Opened \subseteq Opened' \cup {WakeOf(h)} /\ WakeOf(h) \in Opened
      BY <2>1, <1>c, OneCloses, InFlightOpen
    <2>3. CASE gone' = gone \cup {Current(h)} /\ UNCHANGED queueVars
      <3>1. WakesOf(gone') = WakesOf(gone) \cup {WakeOf(h)}
        <4>1. WakesOf(gone \cup {Current(h)}) = WakesOf(gone) \cup WakesOf({Current(h)})
          BY WakesOfUnion
        <4> QED
          BY <2>3, <4>1, WakesOfCurrent
      <3>2. WakesOf(gone)' = WakesOf(gone')
        BY DEF WakesOf
      <3>3. WakesOf(hold)' = WakesOf(hold) /\ WakesOf(inbox)' = WakesOf(inbox)
        BY <2>1, <2>3 DEF WakesOf
      <3> QED
        BY <1>b, <2>2, <3>1, <3>2, <3>3 DEF M!Handle
    <2>4. CASE HoldAdd(Current(h)) /\ UNCHANGED gone
      <3>1. Current(h) \in Item
        BY <2>1, <1>a, CurrentType
      <3>2. WakesOf(hold)' = WakesOf(hold')
        BY DEF WakesOf
      <3>3. WakesOf(hold') = WakesOf(hold) \cup {WakeOf(h)}
        <4>1. CASE hold' = hold \cup {Current(h)}
          <5>1. WakesOf(hold \cup {Current(h)}) = WakesOf(hold) \cup WakesOf({Current(h)})
            BY WakesOfUnion
          <5> QED
            BY <4>1, <5>1, WakesOfCurrent
        <4>2. ASSUME NEW x \in hold, HoldKey(x) = HoldKey(Current(h)), hold' = hold
              PROVE  WakesOf(hold') = WakesOf(hold) \cup {WakeOf(h)}
          <5>1. x \in Item
            BY <1>a DEF QueueType
          <5>2. x.bot = Current(h).bot /\ x.ev.body = Current(h).ev.body
            BY <3>1, <4>2, <5>1, SameWake
          <5>3. <<x.ev.body, x.bot>> = WakeOf(h)
            BY <5>2 DEF Current, WakeOf
          <5> QED
            BY <4>2, <5>3 DEF WakesOf
        <4> QED
          BY <2>4, <4>1, <4>2 DEF HoldAdd
      <3>4. WakesOf(gone)' = WakesOf(gone) /\ WakesOf(inbox)' = WakesOf(inbox)
        BY <2>1, <2>4 DEF WakesOf
      <3> QED
        BY <1>b, <2>2, <3>2, <3>3, <3>4 DEF M!Handle
    <2> QED
      BY <1>4, <2>3, <2>4 DEF WakeFailed
  <1> QED
    BY <1>1, <1>2, <1>3, <1>4 DEF Handle

\* An item whose key a drain removes was a copy of the wake it dealt with.
LEMMA RemovedIsCopy ==
    ASSUME IdentifiersAgree, Types, NEW i \in Item, HoldRemove(i)
    PROVE  /\ WakesOf(hold') \subseteq WakesOf(hold)
           /\ WakesOf(hold) \subseteq WakesOf(hold') \cup {<<i.ev.body, i.bot>>}
  <1>1. hold' \subseteq hold
    BY DEF HoldRemove
  <1>2. ASSUME NEW x \in hold, x \notin hold' PROVE <<x.ev.body, x.bot>> = <<i.ev.body, i.bot>>
    <2>1. x \in Item /\ HoldKey(x) = HoldKey(i)
      BY <1>2 DEF HoldRemove, Types, QueueType
    <2> QED
      BY <2>1, SameWake
  <1> QED
    BY <1>1, <1>2 DEF WakesOf

\* A drain's steps deliver wakes that are known, or take out what is delivered
\* or given up, or touch nothing the mailbox sees.
LEMMA DrainSteps ==
    ASSUME IdentifiersAgree, MailboxInv, NEW d \in Drainers, Drain(d)
    PROVE  M!Accept \/ M!Settle \/ UNCHANGED M!vars
  <1> USE DEF handlerVars, drainVars, queueVars
  <1>a. Types /\ QueueType /\ QueueInv /\ DrainKnown
    BY DEF MailboxInv, Types
  <1>b. Opened' = Opened
    <2>1. pc' = pc /\ at' = at
      BY DEF Drain, DrainStart, DrainEnd, DrainDeparted, DrainItem, DrainAccepted,
             DrainDelivered, DrainFailed
    <2> QED
      BY <2>1, OpenedSame DEF InFlight, Target
  <1>c. WakesOf(hold)' = WakesOf(hold') /\ WakesOf(inbox)' = WakesOf(inbox')
        /\ WakesOf(gone)' = WakesOf(gone')
    BY DEF WakesOf
  <1>1. CASE DrainEnd(d) \/ DrainItem(d) \/ DrainFailed(d)
    <2>1. UNCHANGED <<hold, inbox, gone>>
      BY <1>1 DEF DrainEnd, DrainItem, DrainFailed
    <2> QED
      BY <1>b, <2>1 DEF M!vars, WakesOf
  <1>2. CASE DrainStart(d)
    <2>1. hold' = hold \ expired /\ gone' = gone \cup expired /\ inbox' = inbox
      BY <1>2 DEF DrainStart
    <2>2. expired \subseteq hold
      BY <1>a DEF QueueType
    <2>3. WakesOf(gone') = WakesOf(gone) \cup WakesOf(expired)
      BY <2>1, WakesOfUnion
    <2>4. WakesOf(hold) = WakesOf(hold') \cup WakesOf(expired)
      BY <2>1, <2>2 DEF WakesOf
    <2> QED
      BY <1>b, <1>c, <2>1, <2>3, <2>4 DEF M!Settle, M!Known
  <1>3. CASE DrainDeparted(d)
    <2>1. PICK i \in batch[d] : HoldRemove(i) /\ gone' = gone \cup {i}
      BY <1>3 DEF DrainDeparted
    <2>2. i \in Item /\ inbox' = inbox
      BY <1>3, <1>a, <2>1 DEF QueueType, DrainDeparted
    <2>3. <<i.ev.body, i.bot>> \in M!Known
      BY <1>a, <2>1, SettledIsKnown DEF DrainKnown
    <2>4. WakesOf(gone') = WakesOf(gone) \cup {<<i.ev.body, i.bot>>}
      BY <2>1 DEF WakesOf
    <2> QED
      BY <1>a, <1>b, <1>c, <2>1, <2>2, <2>3, <2>4, RemovedIsCopy DEF M!Settle, M!Known
  <1>4. CASE DrainAccepted(d)
    <2> DEFINE posted == {[by |-> d, bot |-> i.bot, ev |-> i.ev] : i \in cur[d]}
    <2>1. inbox' = inbox \cup posted /\ UNCHANGED <<hold, gone>>
      BY <1>4 DEF DrainAccepted
    <2>2. ASSUME NEW w \in posted PROVE <<w.ev.body, w.bot>> \in M!Known
      <3>1. PICK i \in cur[d] : w = [by |-> d, bot |-> i.bot, ev |-> i.ev]
        OBVIOUS
      <3>2. w.ev = i.ev /\ w.bot = i.bot
        BY <3>1
      <3>3. <<i.ev.body, i.bot>> \in M!Known
        BY <1>a, SettledIsKnown DEF DrainKnown
      <3> QED
        BY <3>2, <3>3
    <2>3. WakesOf(posted) \subseteq M!Known
      BY <2>2 DEF WakesOf
    <2>4. WakesOf(inbox \cup posted) = WakesOf(inbox) \cup WakesOf(posted)
      BY WakesOfUnion
    <2> QED
      BY <1>b, <1>c, <2>1, <2>3, <2>4 DEF M!Accept, M!Known
  <1>5. CASE DrainDelivered(d)
    <2>1. PICK i \in cur[d] : HoldRemove(i)
      BY <1>5 DEF DrainDelivered
    <2>2. i \in Item /\ inbox' = inbox /\ gone' = gone
      BY <1>5, <1>a, <2>1 DEF QueueType, DrainDelivered
    <2>3. \E w \in inbox : w.bot = i.bot /\ w.ev = i.ev
      BY <1>5, <1>a, <2>1 DEF DrainDelivered, QueueInv, DrainerAccepted
    <2>4. <<i.ev.body, i.bot>> \in WakesOf(inbox)
      BY <2>3 DEF WakesOf
    <2> QED
      BY <1>a, <1>b, <1>c, <2>1, <2>2, <2>4, RemovedIsCopy DEF M!Settle, M!Known
  <1> QED
    BY <1>1, <1>2, <1>3, <1>4, <1>5 DEF Drain

\* A restart is a crash of the mailbox, and the rest it does not see.
LEMMA OtherSteps ==
    ASSUME MailboxInv, HoldExpires \/ DedupLapses \/ Reindex \/ Restart \/ UNCHANGED vars
    PROVE  M!Crash \/ UNCHANGED M!vars
  <1> USE DEF handlerVars, drainVars, queueVars
  <1>a. HandlerType /\ QueueInv
    BY DEF MailboxInv, Types
  <1>1. CASE Restart
    <2>1. UNCHANGED <<hold, inbox>>
      BY <1>1, <1>a DEF Restart, QueueInv
    <2>2. Opened' = {}
      BY <1>1, <1>a DEF Restart, HandlerType, Opened, InFlight
    <2>3. WakesOf({Current(h) : h \in {g \in Handlers : InFlight(g)}}) = Opened
      <3>1. \A h \in Handlers : Current(h).ev = EventOf[h] /\ Current(h).bot = Target(h)
        BY DEF Current
      <3> QED
        BY <3>1 DEF WakesOf, Opened
    <2>4. WakesOf(gone') = WakesOf(gone) \cup Opened
      <3> DEFINE F == {Current(h) : h \in {g \in Handlers : InFlight(g)}}
      <3>1. gone' = gone \cup F
        BY <1>1 DEF Restart
      <3>2. WakesOf(gone \cup F) = WakesOf(gone) \cup WakesOf(F)
        BY WakesOfUnion
      <3> QED
        BY <2>3, <3>1, <3>2
    <2>5. WakesOf(gone)' = WakesOf(gone')
      BY DEF WakesOf
    <2> QED
      BY <2>1, <2>2, <2>4, <2>5 DEF M!Crash, WakesOf
  <1>2. CASE HoldExpires \/ DedupLapses \/ Reindex \/ UNCHANGED vars
    <2>1. UNCHANGED <<pc, at, hold, inbox, gone>>
      BY <1>2 DEF HoldExpires, DedupLapses, Reindex, vars
    <2>2. Opened' = Opened
      BY <2>1, OpenedSame DEF InFlight, Target
    <2> QED
      BY <2>1, <2>2 DEF M!vars, WakesOf
  <1> QED
    BY <1>1, <1>2

\* For every value of the constants under which ids tell messages apart, the
\* wake path implements the mailbox: what was begun and is no longer being
\* delivered is at the bridge, on disk, or given up (relay.py:2392, 2419).
THEOREM ImplementsMailbox ==
    ASSUME IdentifiersAgree
    PROVE  Spec => IsMailbox
  <1>1. Init => MailboxInv /\ M!Init
    <2>1. ASSUME Init PROVE Reservations /\ QueueInv /\ DrainKnown
      BY <2>1 DEF Init, Reservations, ReservationStands, Exclusive, NoOrphanReservation,
                  HandlerAccepted, InFlight, QueueInv, DrainerAccepted, DrainKnown
    <2>2. ASSUME Init PROVE M!Init
      BY <2>2 DEF Init, M!Init, Opened, InFlight, WakesOf
    <2> QED
      BY <2>1, <2>2, InitTypes DEF MailboxInv
  <1>2. MailboxInv /\ [Next]_vars => MailboxInv'
    <2> SUFFICES ASSUME MailboxInv, [Next]_vars PROVE MailboxInv'
      OBVIOUS
    <2>1. Types /\ Reservations /\ QueueInv
      BY DEF MailboxInv
    <2> QED
      BY <2>1, TypesStep, ReservationsStep, QueueStep, DrainKnownStep DEF MailboxInv
  <1>3. MailboxInv /\ MailboxInv' /\ [Next]_vars => [M!Next]_(M!vars)
    <2> SUFFICES ASSUME MailboxInv, MailboxInv', [Next]_vars PROVE [M!Next]_(M!vars)
      OBVIOUS
    <2>1. Types'
      BY DEF MailboxInv
    <2> QED
      BY <2>1, HandlerSteps, DrainSteps, OtherSteps DEF Next, M!Next
  <1> QED
    BY <1>1, <1>2, <1>3, PTL DEF Spec, IsMailbox, M!Spec
=============================================================================
