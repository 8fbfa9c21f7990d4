------------------------------ MODULE WakePath ------------------------------
(***************************************************************************)
(* The wake path of the relay (src/app/relay.py): one asyncio handler per  *)
(* core event, the per-message wake deduplication, the durable hold queue  *)
(* and the drains that retry it, with restarts in between.                 *)
(*                                                                         *)
(* Every member account in the process surfaces its own copy of a group    *)
(* message, and the core may hand the same copy over again.  A handler is  *)
(* the life of one such copy: EventOf[h] is the event it was started for.  *)
(* Handlers and drains interleave at their awaits only, so whatever the    *)
(* code does between two awaits is one action here.                        *)
(*                                                                         *)
(* A definition whose name ends in Slip is a plausible mistake in the one  *)
(* it precedes; the specification never uses it.  Substituting it is how   *)
(* the properties are shown to have teeth.                                 *)
(***************************************************************************)
EXTENDS Naturals, Sequences, FiniteSets

CONSTANTS
    Names,         \* localparts, up to case: bots, humans, external members
    External,      \* members whose account lives elsewhere (config.external)
    Rosters,       \* the rosters a (re)start may load; {} counts everyone in
    Bodies,        \* what really happened: one message or one reaction
    Mids,          \* rfc724_mid values
    NoMid,         \* the id lookup failed (rfc724_mid = "")
    Emojis, NoEmoji,
    Nobody,        \* an unresolved sender
    Handlers,      \* handler tasks, each started at most once
    EventOf,       \* the event each of them is started for
    Drainers,      \* concurrent drain_holds: the drain loop, POST /drain
    DrainLoop,     \* the one of them that main.drain_loop runs
    MaxRestarts,   \* bound on restarts
    LoseAcks,      \* may the answer to an accepted POST be lost
    Lapses,        \* may dedup entries outlive their 300 s TTL
    MayReindex     \* may the account index be rebuilt meanwhile

Event ==
    [kind: {"dm", "group", "reaction"}, body: Bodies, acct: Names,
     chat: Nat, msg: Nat, mid: Mids \cup {NoMid}, from: Names \cup {Nobody},
     members: SUBSET Names, mentioned: Seq(Names),
     emoji: Emojis \cup {NoEmoji}, own: BOOLEAN, notice: BOOLEAN]

ASSUME EventsAssumption == EventOf \in [Handlers -> Event]
ASSUME RostersAssumption == Rosters \subseteq SUBSET Names /\ Rosters # {}
ASSUME BoundsAssumption == MaxRestarts \in Nat
ASSUME SwitchesAssumption == {LoseAcks, Lapses, MayReindex} \subseteq BOOLEAN
ASSUME ActorsAssumption == Handlers \cap Drainers = {} /\ DrainLoop \in Drainers

Item == [bot: Names, ev: {EventOf[h] : h \in Handlers}]
Wake == [by: Handlers \cup Drainers, bot: Names,
         ev: {EventOf[h] : h \in Handlers}]

VARIABLES
    roster,      \* config.roster, fixed while the process lives
    reindexing,  \* the account index is cleared and not yet refilled
    pc,          \* per handler
    at,          \* per handler: position in its candidate targets
    dedup,       \* live entries of _wake_dedup: reservations and wakes
    hold,        \* HoldQueue._items
    disk,        \* hold_queue.json
    expired,     \* held items past the hold queue's TTL
    dpc,         \* per drain
    batch,       \* per drain: what is left of its pending() snapshot
    cur,         \* per drain: the item it is POSTing (a set of at most one)
    inbox,       \* wakes the bridge accepted, with who POSTed them
    gone,        \* wakes given up: bot departed, aged out, lost in a crash
    restarts

handlerVars == <<pc, at, dedup>>
drainVars == <<dpc, batch, cur>>
queueVars == <<hold, disk, expired>>
vars == <<roster, reindexing, pc, at, dedup, hold, disk, expired,
          dpc, batch, cur, inbox, gone, restarts>>

-----------------------------------------------------------------------------
(* What an event addresses, and the keys it is known by. *)

\* Who the event may wake, in the order tried: the mentioned names of a group
\* message, otherwise the owner of the account that surfaced it.
Candidates(e) == IF e.kind = "group" THEN e.mentioned ELSE <<e.acct>>

\* Slip: the sender is not excluded.
AddressedSlip(e, b) ==
    /\ ~e.notice /\ b \notin External
    /\ e.kind = "group" => b \in e.members
    /\ e.kind = "reaction" => e.own

\* The filters of handle_inbound and handle_reaction.  An external member
\* passes through reserve and release without an await in between, which
\* leaves nothing behind.
Addressed(e, b) ==
    /\ ~e.notice
    /\ b # e.from
    /\ b \notin External
    /\ e.kind = "group" => b \in e.members
    /\ e.kind = "reaction" => e.own

\* The dedup key.  Only a message without an id escapes deduplication: a
\* reaction's key is a formatted string and never empty.
Keyed(e) == e.kind = "reaction" \/ e.mid # NoMid
KeySlip(e) == <<e.chat, e.msg>>   \* Slip: ids local to the account
Key(e) == IF e.kind = "reaction" THEN <<e.mid, e.emoji, e.from>>
                                 ELSE <<e.mid, NoEmoji, Nobody>>
Claim(e, b) == IF Keyed(e) THEN {<<Key(e), b>>} ELSE {}
Live(e, b, entries) == Keyed(e) /\ <<Key(e), b>> \in entries

\* HoldQueue._key
HoldKey(i) ==
    <<i.bot, i.ev.chat, i.ev.msg, i.ev.mid, i.ev.emoji,
      IF i.ev.kind = "reaction" THEN i.ev.from ELSE Nobody>>

InRoster(b) == roster = {} \/ b \in roster

InFlight(h) == pc[h] \in {"posting", "accepted"}
Target(h) == Candidates(EventOf[h])[at[h]]
Current(h) == [bot |-> Target(h), ev |-> EventOf[h]]

-----------------------------------------------------------------------------
Init ==
    /\ roster \in Rosters
    /\ reindexing = FALSE
    /\ pc = [h \in Handlers |-> "new"]
    /\ at = [h \in Handlers |-> 1]
    /\ dedup = {}
    /\ hold = {} /\ disk = {} /\ expired = {}
    /\ dpc = [d \in Drainers |-> "idle"]
    /\ batch = [d \in Drainers |-> {}]
    /\ cur = [d \in Drainers |-> {}]
    /\ inbox = {} /\ gone = {}
    /\ restarts = 0

\* The pump thread schedules the handler and does not wait for it.
EventPump(h) ==
    /\ pc[h] = "new"
    /\ pc' = [pc EXCEPT ![h] = "queued"]
    /\ UNCHANGED <<roster, reindexing, at, dedup, queueVars, drainVars,
                   inbox, gone, restarts>>

\* Slip: one position too far.
ReserveNextSlip(h, j, entries) ==
    /\ at' = [at EXCEPT ![h] = Len(Candidates(EventOf[h])) + 2]
    /\ pc' = [pc EXCEPT ![h] = "done"]
    /\ dedup' = entries

\* Slip: what another copy has claimed is released on the way past it.
ReserveReleasesSlip(h, j, entries) ==
    LET e == EventOf[h]
        rest == {k \in j..Len(Candidates(e)) : Addressed(e, Candidates(e)[k])}
        wanted == {k \in rest : ~Live(e, Candidates(e)[k], entries)}
        free == entries \ UNION {Claim(e, Candidates(e)[k]) : k \in rest}
    IN \/ /\ wanted = {}
          /\ at' = [at EXCEPT ![h] = Len(Candidates(e)) + 1]
          /\ pc' = [pc EXCEPT ![h] = "done"]
          /\ dedup' = free
       \/ \E k \in wanted :
             /\ \A m \in wanted : k <= m
             /\ at' = [at EXCEPT ![h] = k]
             /\ pc' = [pc EXCEPT ![h] = "posting"]
             /\ dedup' = free \cup Claim(e, Candidates(e)[k])

\* The rest of the handler's loop up to its next await, from position j on,
\* with the live dedup entries as they are now: the first addressed target
\* that no other copy has claimed is reserved.
ReserveNext(h, j, entries) ==
    LET e == EventOf[h]
        wanted == {k \in j..Len(Candidates(e)) :
                      /\ Addressed(e, Candidates(e)[k])
                      /\ ~Live(e, Candidates(e)[k], entries)}
    IN \/ /\ wanted = {}
          /\ at' = [at EXCEPT ![h] = Len(Candidates(e)) + 1]
          /\ pc' = [pc EXCEPT ![h] = "done"]
          /\ dedup' = entries
       \/ \E k \in wanted :
             /\ \A m \in wanted : k <= m
             /\ at' = [at EXCEPT ![h] = k]
             /\ pc' = [pc EXCEPT ![h] = "posting"]
             /\ dedup' = entries \cup Claim(e, Candidates(e)[k])

\* localpart_for(account_id): nothing is found while the index is refilled up
\* to this account.
OwnKnown == IF reindexing THEN BOOLEAN ELSE {TRUE}

Ignore(h) ==
    /\ pc' = [pc EXCEPT ![h] = "ignored"]
    /\ UNCHANGED <<at, dedup>>

HandleInbound(h) ==
    /\ pc[h] = "queued" /\ EventOf[h].kind # "reaction"
    /\ \E known \in OwnKnown :
          LET e == EventOf[h] IN
          \/ /\ ~known /\ e.kind = "dm" /\ ~e.notice
             /\ Ignore(h)
          \/ /\ known /\ e.from = e.acct      \* own message echoed back
             /\ ReserveNext(h, Len(Candidates(e)) + 1, dedup)
          \/ /\ ~(known /\ e.from = e.acct)
             /\ known \/ e.kind = "group" \/ e.notice
             /\ ReserveNext(h, 1, dedup)
    /\ UNCHANGED <<roster, reindexing, queueVars, drainVars, inbox, gone,
                   restarts>>

HandleReaction(h) ==
    /\ pc[h] = "queued" /\ EventOf[h].kind = "reaction"
    /\ \E known \in OwnKnown :
          IF known THEN ReserveNext(h, 1, dedup) ELSE Ignore(h)
    /\ UNCHANGED <<roster, reindexing, queueVars, drainVars, inbox, gone,
                   restarts>>

\* The bot's url resolved and the bridge took the POST; the answer is on its
\* way back.
WakeAccepted(h) ==
    /\ pc[h] = "posting"
    /\ inbox' = inbox \cup {[by |-> h, bot |-> Target(h), ev |-> EventOf[h]]}
    /\ pc' = [pc EXCEPT ![h] = "accepted"]
    /\ UNCHANGED <<roster, reindexing, at, dedup, queueVars, drainVars, gone,
                   restarts>>

\* _deliver returns True: _wake_commit, then on to the next target.
WakeDelivered(h) ==
    /\ pc[h] = "accepted"
    /\ ReserveNext(h, at[h] + 1, dedup \cup Claim(EventOf[h], Target(h)))
    /\ UNCHANGED <<roster, reindexing, queueVars, drainVars, inbox, gone,
                   restarts>>

\* Slip: the new item stays in memory until something else is flushed.
HoldAddSlip(i) ==
    /\ hold' = hold \cup {i}
    /\ UNCHANGED <<disk, expired>>

\* HoldQueue.add: idempotent on the event key, flushed at once.
HoldAdd(i) ==
    IF \E x \in hold : HoldKey(x) = HoldKey(i)
    THEN UNCHANGED queueVars
    ELSE /\ hold' = hold \cup {i}
         /\ disk' = hold \cup {i}
         /\ UNCHANGED expired

\* Slip: the reservation of a failed delivery is not released.
WakeFailedSlip(h) ==
    /\ pc[h] = "posting"
    /\ HoldAdd(Current(h))
    /\ ReserveNext(h, at[h] + 1, dedup)
    /\ UNCHANGED <<roster, reindexing, drainVars, inbox, gone, restarts>>

\* _deliver returns False: no url, a failed POST, or an answer that never
\* came.  The wake is held, or dropped if the bot left the roster; then
\* _wake_release, then on to the next target.
WakeFailed(h) ==
    /\ pc[h] = "posting" \/ (LoseAcks /\ pc[h] = "accepted")
    /\ IF InRoster(Target(h))
       THEN HoldAdd(Current(h)) /\ UNCHANGED gone
       ELSE gone' = gone \cup {Current(h)} /\ UNCHANGED queueVars
    /\ ReserveNext(h, at[h] + 1, dedup \ Claim(EventOf[h], Target(h)))
    /\ UNCHANGED <<roster, reindexing, drainVars, inbox, restarts>>

-----------------------------------------------------------------------------
(* drain_holds. *)

\* HoldQueue.remove: by key, flushed.
HoldRemove(i) ==
    /\ hold' = {x \in hold : HoldKey(x) # HoldKey(i)}
    /\ disk' = hold'
    /\ expired' = expired \cap hold'

\* Slip: nothing ages out.
DrainStartSlip(d) ==
    /\ dpc[d] = "idle" /\ hold # {}
    /\ batch' = [batch EXCEPT ![d] = hold]
    /\ dpc' = [dpc EXCEPT ![d] = "iterating"]
    /\ UNCHANGED <<roster, reindexing, handlerVars, queueVars, cur, inbox, gone,
                   restarts>>

\* pending(): prune what is past the TTL, then snapshot.  A pass over an empty
\* queue changes nothing and is left out.
DrainStart(d) ==
    /\ dpc[d] = "idle" /\ hold # {}
    /\ hold' = hold \ expired
    /\ disk' = IF expired = {} THEN disk ELSE hold'
    /\ expired' = {}
    /\ gone' = gone \cup expired
    /\ batch' = [batch EXCEPT ![d] = hold']
    /\ dpc' = [dpc EXCEPT ![d] = "iterating"]
    /\ UNCHANGED <<roster, reindexing, handlerVars, cur, inbox, restarts>>

DrainEnd(d) ==
    /\ dpc[d] = "iterating" /\ batch[d] = {}
    /\ dpc' = [dpc EXCEPT ![d] = "idle"]
    /\ UNCHANGED <<roster, reindexing, handlerVars, queueVars, batch, cur,
                   inbox, gone, restarts>>

DrainDeparted(d) ==
    /\ dpc[d] = "iterating"
    /\ \E i \in batch[d] :
          /\ ~InRoster(i.bot)
          /\ HoldRemove(i)
          /\ gone' = gone \cup {i}
          /\ batch' = [batch EXCEPT ![d] = @ \ {i}]
    /\ UNCHANGED <<roster, reindexing, handlerVars, dpc, cur, inbox, restarts>>

\* On to the next item of the snapshot: resolve its bot's url and POST.
DrainItem(d) ==
    /\ dpc[d] = "iterating"
    /\ \E i \in batch[d] :
          /\ InRoster(i.bot)
          /\ cur' = [cur EXCEPT ![d] = {i}]
          /\ batch' = [batch EXCEPT ![d] = @ \ {i}]
    /\ dpc' = [dpc EXCEPT ![d] = "posting"]
    /\ UNCHANGED <<roster, reindexing, handlerVars, queueVars, inbox, gone,
                   restarts>>

DrainAccepted(d) ==
    /\ dpc[d] = "posting"
    /\ inbox' = inbox \cup {[by |-> d, bot |-> i.bot, ev |-> i.ev] : i \in cur[d]}
    /\ dpc' = [dpc EXCEPT ![d] = "accepted"]
    /\ UNCHANGED <<roster, reindexing, handlerVars, queueVars, batch, cur, gone,
                   restarts>>

DrainDelivered(d) ==
    /\ dpc[d] = "accepted"
    /\ \E i \in cur[d] : HoldRemove(i)
    /\ cur' = [cur EXCEPT ![d] = {}]
    /\ dpc' = [dpc EXCEPT ![d] = "iterating"]
    /\ UNCHANGED <<roster, reindexing, handlerVars, batch, inbox, gone, restarts>>

\* Slip: an item is tried once.
DrainFailedSlip(d) ==
    /\ dpc[d] = "posting"
    /\ \E i \in cur[d] : HoldRemove(i)
    /\ cur' = [cur EXCEPT ![d] = {}]
    /\ dpc' = [dpc EXCEPT ![d] = "iterating"]
    /\ UNCHANGED <<roster, reindexing, handlerVars, batch, inbox, gone, restarts>>

\* The item stays queued.
DrainFailed(d) ==
    /\ dpc[d] = "posting" \/ (LoseAcks /\ dpc[d] = "accepted")
    /\ cur' = [cur EXCEPT ![d] = {}]
    /\ dpc' = [dpc EXCEPT ![d] = "iterating"]
    /\ UNCHANGED <<roster, reindexing, handlerVars, queueVars, batch, inbox,
                   gone, restarts>>

-----------------------------------------------------------------------------
(* Time, the account index and the process itself. *)

\* A held item passes the hold queue's TTL (24 h).
HoldExpires ==
    /\ \E i \in hold \ expired : expired' = expired \cup {i}
    /\ UNCHANGED <<roster, reindexing, handlerVars, hold, disk, drainVars,
                   inbox, gone, restarts>>

\* A dedup entry passes its TTL (300 s).  No delivery takes that long: the
\* http client gives up after 10 s.
DedupLapses ==
    /\ Lapses
    /\ \E k \in dedup :
          /\ \A h \in Handlers :
                InFlight(h) => k \notin Claim(EventOf[h], Target(h))
          /\ dedup' = dedup \ {k}
    /\ UNCHANGED <<roster, reindexing, pc, at, queueVars, drainVars, inbox,
                   gone, restarts>>

\* _reindex_accounts clears the index, and has refilled it.
Reindex ==
    /\ MayReindex
    /\ reindexing' = ~reindexing
    /\ UNCHANGED <<roster, handlerVars, queueVars, drainVars, inbox, gone,
                   restarts>>

\* The process dies and starts again, perhaps with another roster: tasks,
\* drains and the dedup cache are gone, the hold queue is read from disk.
Restart ==
    /\ restarts < MaxRestarts
    /\ restarts' = restarts + 1
    /\ roster' \in Rosters
    /\ reindexing' = FALSE
    /\ pc' = [h \in Handlers |->
                 IF pc[h] = "queued" \/ InFlight(h) THEN "lost" ELSE pc[h]]
    /\ gone' = gone \cup {Current(h) : h \in {g \in Handlers : InFlight(g)}}
    /\ dedup' = {}
    /\ hold' = disk /\ expired' = expired \cap disk
    /\ dpc' = [d \in Drainers |-> "idle"]
    /\ batch' = [d \in Drainers |-> {}]
    /\ cur' = [d \in Drainers |-> {}]
    /\ UNCHANGED <<at, disk, inbox>>

Handle(h) == \/ HandleInbound(h) \/ HandleReaction(h)
             \/ WakeAccepted(h) \/ WakeDelivered(h) \/ WakeFailed(h)

Drain(d) == \/ DrainStart(d) \/ DrainEnd(d) \/ DrainDeparted(d)
            \/ DrainItem(d) \/ DrainAccepted(d) \/ DrainDelivered(d)
            \/ DrainFailed(d)

Next == \/ \E h \in Handlers : EventPump(h) \/ Handle(h)
        \/ \E d \in Drainers : Drain(d)
        \/ HoldExpires \/ DedupLapses \/ Reindex \/ Restart

Spec == Init /\ [][Next]_vars

\* The loop runs every scheduled task and every request to the bridge ends
\* within the client's timeout, so a handler proceeds; drain_loop comes back
\* every few seconds whatever a pass raised; time passes.  POST /drain is a
\* caller's choice and nothing makes the process restart.
Fairness ==
    /\ \A h \in Handlers : WF_vars(Handle(h))
    /\ WF_vars(Drain(DrainLoop))
    /\ WF_vars(HoldExpires)

FairSpec == Spec /\ Fairness
-----------------------------------------------------------------------------
\* What the core's identifiers are relied on for: the keys of the
\* deduplication and of the hold queue are equal exactly for copies of the same
\* message or reaction.  It fails when an id lookup fails (mid = NoMid) and the
\* account-local ids that stand in for it coincide.
IdentifiersAgree ==
    \A g, h \in Handlers :
        LET e == EventOf[g]
            f == EventOf[h]
        IN /\ Keyed(e) /\ Keyed(f) => (Key(e) = Key(f) <=> e.body = f.body)
           /\ \A b \in Names :
                 HoldKey([bot |-> b, ev |-> e]) = HoldKey([bot |-> b, ev |-> f])
                    => e.body = f.body

Terminal == {"done", "ignored", "lost"}

\* Every variable has its type; a handler's position lies within its targets
\* or just past them, and it is in flight only on a target (relay.py:2343).
TypeOK ==
    /\ roster \in Rosters
    /\ reindexing \in BOOLEAN
    /\ pc \in [Handlers -> {"new", "queued", "posting", "accepted"} \cup Terminal]
    /\ at \in [Handlers -> Nat]
    /\ \A h \in Handlers :
          /\ at[h] \in 1..(Len(Candidates(EventOf[h])) + 1)
          /\ InFlight(h) => at[h] <= Len(Candidates(EventOf[h]))
    /\ \A k \in dedup : \E h \in Handlers, b \in Names : k \in Claim(EventOf[h], b)
    /\ hold \subseteq Item /\ disk \subseteq Item /\ expired \subseteq hold
    /\ dpc \in [Drainers -> {"idle", "iterating", "posting", "accepted"}]
    /\ batch \in [Drainers -> SUBSET Item]
    /\ cur \in [Drainers -> SUBSET Item]
    /\ inbox \subseteq Wake
    /\ gone \subseteq Item
    /\ restarts \in 0..MaxRestarts

\* The overlapping copies of one message never deliver to the same bot at the
\* same time: _wake_reserve lets exactly one win (relay.py:1977).
SingleFlight ==
    \A g, h \in Handlers :
        /\ g # h
        /\ InFlight(g) /\ InFlight(h)
        /\ Keyed(EventOf[g]) /\ Keyed(EventOf[h])
        /\ EventOf[g].body = EventOf[h].body
        => Target(g) # Target(h)

\* While a handler delivers, its reservation stands: no other copy that it overlaps
\* with, delivered, failed or collapsed, takes it away (relay.py:1990).
ReservationStands ==
    \A h \in Handlers :
        InFlight(h) => Claim(EventOf[h], Target(h)) \subseteq dedup

\* A live dedup entry is either being delivered now or stands for a wake the
\* bridge has: a failed delivery leaves no entry behind to suppress the next
\* copy (relay.py:1990).
NoOrphanReservation ==
    \A k \in dedup :
        \/ \E h \in Handlers : InFlight(h) /\ k \in Claim(EventOf[h], Target(h))
        \/ \E w \in inbox : k \in Claim(w.ev, w.bot)

Events == {EventOf[h] : h \in Handlers}
CopiesOf(e) == {f \in Events : f.body = e.body}

\* A wake of bot b for one of the events C.
DeliveredIn(C, b) == \E w \in inbox : w.bot = b /\ w.ev \in C
HeldIn(C, b) == \E i \in hold : i.bot = b /\ i.ev \in C
GivenUpIn(C, b) == \E i \in gone : i.bot = b /\ i.ev \in C
OnItsWayIn(C, b) ==
    \E h \in Handlers : InFlight(h) /\ Target(h) = b /\ EventOf[h] \in C

SettledIn(C, b) ==
    DeliveredIn(C, b) \/ HeldIn(C, b) \/ GivenUpIn(C, b) \/ OnItsWayIn(C, b)

Settled(e, b) == SettledIn(CopiesOf(e), b)

\* Events that have one key, the sets of events that share no key with another,
\* and for each event the least such set: what the keys take for it.
Alias(e, f) ==
    \/ Keyed(e) /\ Keyed(f) /\ Key(e) = Key(f)
    \/ \E b \in Names : HoldKey([bot |-> b, ev |-> e]) = HoldKey([bot |-> b, ev |-> f])

Classes == {C \in SUBSET Events : \A e \in C, f \in Events : Alias(e, f) => f \in C}

KeyClass == [e \in Events |-> {f \in Events : \A C \in Classes : e \in C => f \in C}]

\* Does a handler owe this candidate a wake?  A message an account sent itself
\* is nobody's business.
Owes(e, b) == Addressed(e, b) /\ e.from # e.acct

\* No wake is lost: every target a handler has passed has its wake at the
\* bridge, in the hold queue, in the hands of another copy, or given up loudly,
\* although copies collapse onto each other, deliveries fail, drains run
\* concurrently and the process restarts (relay.py:2343, 2419).
NoWakeLost ==
    \A h \in Handlers :
        pc[h] \in {"posting", "accepted", "done"} =>
            \A j \in 1..(at[h] - 1) :
                LET b == Candidates(EventOf[h])[j]
                IN Owes(EventOf[h], b) => Settled(EventOf[h], b)

\* A wake is lost to a wake with the same key only.  Where the core's ids do not tell
\* messages apart (a failed id lookup, relay.py:2377), every target a handler has
\* passed has at least the wake of an event that the keys take for this one, directly
\* or by way of others; where they do, this is NoWakeLost.
NoKeyLost ==
    \A h \in Handlers :
        pc[h] \in {"posting", "accepted", "done"} =>
            \A j \in 1..(at[h] - 1) :
                LET b == Candidates(EventOf[h])[j]
                IN Owes(EventOf[h], b) => SettledIn(KeyClass[EventOf[h]], b)

\* No bot is woken by a message it sent, whichever account's copy surfaced it
\* and whatever the account index said (relay.py:2336), and nobody is woken by
\* a device notice (relay.py:2284): neither directly nor from the hold queue.
NoSelfWake ==
    \A x \in inbox \cup hold : x.bot # x.ev.from /\ ~x.ev.notice

\* The wake path is a mailbox: a wake whose delivery began is at the bridge, on
\* disk, or dropped and logged when it is closed, whatever failures, concurrent
\* drains and restarts; what is on disk leaves it only for a reason; and the
\* bridge gets nothing else (relay.py:1438, 2392, 2419).
Opened == {<<EventOf[h].body, Target(h)>> : h \in {g \in Handlers : InFlight(g)}}
WakesOf(S) == {<<x.ev.body, x.bot>> : x \in S}

M == INSTANCE Mailbox WITH
        Wakes <- Bodies \X Names,
        open <- Opened, kept <- WakesOf(hold), delivered <- WakesOf(inbox),
        dropped <- WakesOf(gone)

IsMailbox == M!Spec

\* A scheduled handler's wakes settle for good: each one, or one the keys take
\* for it, reaches the bridge or is given up loudly; none stays in the hold
\* queue or in flight for ever (relay.py:2399, 2419).
WakesSettle ==
    \A h \in Handlers :
        \A j \in DOMAIN Candidates(EventOf[h]) :
            LET b == Candidates(EventOf[h])[j]
            IN (pc[h] = "queued" /\ Owes(EventOf[h], b)) ~>
                  \/ DeliveredIn(KeyClass[EventOf[h]], b)
                  \/ GivenUpIn(KeyClass[EventOf[h]], b)
                  \/ pc[h] \in {"ignored", "lost"}

=============================================================================
