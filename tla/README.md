# deltachat-fabric: a TLA+ model of the relay

The relay (`src/app/`) connects Delta Chat accounts to agents. It drives one Delta Chat core
over RPC, wakes the agent (bot) an inbound message is for, sends on the agents' behalf, and
keeps the accounts, contacts and group chats of the roster in order. It is a small program with
a lot of concurrency: one asyncio loop, a thread pool for blocking calls and for the HTTP
endpoints, an event-pump thread, one event forwarder thread per account, and files written
without locks. This directory models the parts of it in which order matters.

## The system

| component (code) | state | operations | interacts with |
|---|---|---|---|
| Wake path: `Relay.handle_inbound`, `handle_reaction`, `_deliver` (relay.py 2272-2409) | `_wake_dedup` (key -> time, 300 s) | one asyncio task per core event | event pump (`main._event_pump`), account index, agent directory (HTTP POST to the bridge), hold queue |
| Hold queue: `HoldQueue`, `drain_holds` (1438-1523, 2419-2437) | `_items` and `hold_queue.json` | add, pending (prunes), remove; drained every 5 s and by `POST /drain` | wake path |
| Outbox: `Outbox`, `Relay.send*`, `_park`, `drain_outbox` (1800-1925, 2004-2129) | `_items` and `outbox.json` | enqueue, mark_terminal, age_out; request threads, the drain loop, `POST /drain` | core, HTTP callers who poll `GET /outbox/<key>` |
| Peer mesh: `PeerMesh` (1530-1793), `flush_verified_pair` (2142) | `_queues` (pair -> list), `_inflight` | send_to_peer, _age_out, _flush_queue, in request and event threads | core (handshakes), verified events |
| Channel provisioning: `reconcile_once`, `securejoin_star`, `provision_channels`, `provision_verified_member` (main.py 248-486) | none of its own: accounts, contacts, group chats in the core | a reconcile pass, a verified event | core, account index |
| Account index: `_reindex_accounts`, `account_id_for`, `localpart_for` (relay.py 502-524, 918) | two dicts that are cleared and refilled | lookup, rebuild, from every thread | everything |
| Event stream: `_ensure_event_forwarders`, `_forward_events`, `_next_event` (815-852) | the set of accounts that have a forwarder, one merged queue | forward, restart, get; a thread per account and the event pump | core, account index, wake path |
| Agent directory: `AgentDirectory` (1215-1436) | url map, refresh flag, throttle | resolve, wake | wake path |
| Onboarding: `reconcile_once`, `ensure_account`, `OnboardRegistry`, `detect_state_loss` (main.py 110-172, 248-282, relay.py 1146-1208) | the registry and its file | a reconcile pass, a start | core, mail server, credential store |
| Credential stores: `SecretsStore` (main.py 61-96), `opconnect.py`, `authentik_sync.py` | a secrets file, or one item of a vault | get or create a password; set it at the mail server | the relay and the sync, two processes |
| HTTP API, MCP server, configuration, core wrappers | none, or constant after start | pass-through | all |

What is hard: copies of one message arrive through several accounts and their handlers overlap at
each `await`; deliveries fail, or succeed with the answer lost; two drains run at once; threads
share lists and files without a lock; lookups miss while another thread refills the index; the
process dies between two file writes; handshakes complete at any time, and their event comes once.

What makes each part correct:

- *wake path and hold queue*: a wake is not lost once its handler has passed it, copies of one
  message do not deliver at the same time, no reservation outlives its delivery, a bot is not woken
  by its own post, and every wake comes to an end;
- *outbox*: what is answered "queued" can be polled and comes to an outcome; the outcome is true and
  settled, though several drains run; nothing is sent twice without need;
- *peer mesh*: a queued message is sent at most once, in the order of its queue, never lost track of,
  and sent when the pair is verified; what is logged as dropped was not sent;
- *account index and event stream*: when no rebuild is under way the index has every onboarded bot, an
  entry is never another bot's account, and every event of every account reaches the pump once and in
  order;
- *onboarding and credentials*: every bot comes up in the end, an account's password is the one the
  mail server has, vault, mail server and core come to agree, and the state-loss guard does not cry
  wolf;
- *provisioning*: every member begins its handshake, and every verified member gets into the realm's
  group, by the event or by a later pass.

## Modules

| module | models | granularity |
|---|---|---|
| `WakePath` | wake path, hold queue, both drains | an action is what runs between two awaits |
| `Mailbox` | what the wake path promises, abstractly | |
| `Courier` | what the outbox promises, abstractly | |
| `Outbox` | outbox, sends, drains, file | an action is what a thread does between calls to the core, file operations and list operations |
| `PeerMesh` | peer mesh, verified-event flushes | an action is what a thread does between calls to the core; threads switch inside `_age_out` as well, after it copied the list |
| `Provision` | reconcile pass, star, channel provisioning, verified events | an action is what a thread does between calls to the core |
| `Accounts` | account index, `ensure_account`, forwarders, event pump's queue | an action is what a thread does between calls to the core |
| `Credentials` | both credential stores, logins, the Authentik sync, the onboarding registry and the state-loss guard | an action is what a process does between two requests or file operations |
| `*MC` | the constants of the instances TLC checks | |
| `WakePathProofs`, `WakeMailboxProofs`, `OutboxProofs`, `OutboxCourierProofs`, `PeerMeshProofs`, `ProvisionProofs`, `AccountsProofs`, `CredentialsProofs` | theorems | |

The modules meet in what they leave to each other. An account that `Accounts` onboards is a member
`Provision` may find onboarded; a verified event that the stream of `Accounts` delivers is `Report`
in `PeerMesh` and a verified event in `Provision`, an inbound message `EventPump` in `WakePath`; a
rebuild of the index in `Accounts` is the window of `Reindex` in `WakePath` and of `EventMisses` in
`PeerMesh`; a login in `Accounts` succeeds or fails as `Credentials` says why. They are checked apart
because their products are out of TLC's reach and because they share no variable but through such
calls.

Each module's definitions are tied to source lines by `map` in `PROJECT.json`. A definition whose
name ends in `Slip` is a plausible mistake in the one after it; the specification does not use it.
Putting it in that definition's place makes the property named in `PROJECT.json` fail.

**WakePath.** `Handlers` are handler tasks, `EventOf` the events they are started for (who, in
which account, with which ids); text and mention parsing are reduced to whom an event mentions.
`pc`, `at` are a handler's place in its loop over targets; `dedup` the live entries of
`_wake_dedup`; `hold`, `disk` the queue and its file; `dpc`, `batch`, `cur` the drains;
`inbox` what the bridge accepted. `HandleInbound` and `HandleReaction` run up to the first POST;
`ReserveNext` is the loop body that filters and reserves; `WakeAccepted` is the bridge taking the
POST, `WakeDelivered` its answer, and `WakeFailed` everything else (no url, refusal, lost answer:
hold or give up, then release). `DrainStart` .. `DrainFailed` are `drain_holds`. `DedupLapses` and
`HoldExpires` are the two TTLs, `Reindex` opens and closes the window in which `localpart_for`
misses, `Restart` keeps the file only.

**Mailbox.** The abstract specification of the wake path: wakes are open, kept, delivered or dropped.
`Handle` begins and ends deliveries, `Accept` is the bridge, `Settle` a drain, `Crash` a restart. It
says what a wake may never do (be closed without being delivered, kept or dropped; leave the disk
without a reason) and leaves open who delivers it, how often, and everything about keys, copies and
reservations. `WakePath!IsMailbox` is the refinement: `open` is what handlers in flight work on,
`kept` the hold queue, `delivered` the bridge's inbox, `dropped` what was given up.

**Outbox.** A request is its own key: `enqueue` makes a random one. `items` is the list, `entry`
what is in it, `file` and `temp` what was last written, `flush` and `image` a thread's way through
`_flush` (dump, write, replace, or a rename that finds the file gone). `landed` counts how often the
core took a message, `doubts` how often an answer was lost, a delivery found its entry gone, or a
restart read a file that still called it pending. `SendLands`, `SendRaises`, `SendFails` are what a send
comes to; `EnqueueIdentical` is the early return for equal content. `Drainers` are the drain loop and
any number of `POST /drain` beside it: `DrainTry` calls the core, `DrainMark` and `DrainKeep` act on
the result, `DrainRaises` is `account_id_for`, outside of the try, ending the pass. `AgeOut` is the loop
of `age_out` that finds what is old, `GiveUp` the mark of one entry, which comes after its log line and
whatever another drain did meanwhile; `AgeOutPrune` is the beginning of the comprehension and
`AgeOutRebind` the end of it, with `view` the list it reads if another drain has replaced that one: what
was appended to the new list is gone then. `crowded` and `mishaps` record whether drains overlapped,
a process died, or a prune undid another.

**Courier.** The abstract specification of the outbox and the sends: requests are fresh, refused, taken by
the core, or on the list, where they wait or have an outcome. A request is answered only when it is one of
these, or when one with the same content is on the list (`Answer`); the core takes it once more
(`Attempt`); it leaves the waiting for an outcome and the list for good (`Settle`); "delivered" is
said of what was taken only; a crash may put the list back. `alone` says that one thread drains, and is up to the environment: while it holds
nothing is attempted that does not wait, and outcomes are final; without it a prune may put the list
back to an older one (`Clobber`). Keys, entries, files, images, attempts and threads are left out.
`Outbox!IsCourier` is the refinement: `waiting`, `delivered` and `dropped` are the entries of `items` by
outcome, `taken` what landed, `alone` that the drains under way do not overlap.

**PeerMesh.** `queue` maps a directed pair to the identity of its list and `text` an identity to
its messages, because the defects of this code are about who still refers to which list. `job` is
the list of pairs a thread has to flush, `held` and `pos` the list it works on. `Take`, `Join`,
`MarkInflight`, `AppendTo` are the unverified branch of `send_to_peer`; `SendLive` the verified one;
`AgeOutScan` copies the list and `AgeOutRebind` puts the copy in the table, with other threads in
between (the log is written there, and no lock is held); `Pop`, `FlushOne`, `FlushFails`, `FlushEnds`
are `_flush_queue`. A send that raises may have landed: `doubted` records it. `raced` records the messages an
age-out and another thread were at odds about: put back after they were taken away, added to the list after
it was copied, or taken away after they were logged as dropped. `EventFlushes` flushes both directions, `EventMisses` is a lookup that failed. External members (`config.external`) have no
pair here: `Reject` covers a message to one.

**Provision.** One realm, since realms share nothing. `onboarded`, `joined`, `verified`,
`channel` are the core's; `pc`, `todo`, `target` the threads': the pass and one per verified event.
The pass goes idle, star, listing, creating or adding; an event starts at listing. `todo` is the set of
members a thread has left and is dealt with in the code's order, `Order`: bots, then externals (`IsNext`).
A group is created
empty and filled by one call per member, which raises for a bot that is no key-contact and ends the
thread's work for the realm (`AddRaises`). A channel is named by the thread that created it, so that
two of them can come into being.

**Accounts.** Accounts are numbered as the core does. `created`, `configured`, `owner` are the core's;
`index` is `_localpart_to_accid`; `pc`, `todo`, `at`, `rest` are the threads' way through a pass and a
rebuild. A rebuild is clear, list, then one read per account, and each of those is a step: `Clear` or
`LookupMisses`, `List`, `Fill` / `FillSkips`. `EnsureKnown` .. `SetupRaises` are `ensure_account`,
which reads the index without a rebuild. `forwarded` is the set `_ensure_event_forwarders` guards by a
lock, `running` how many forwarder threads an account has, `emitted`, `moved`, `hand`, `merged`,
`pumped` an account's events on their way to the pump. Callers stand for every thread that looks a name
up. `Before` lets some bots be onboarded from an earlier life.

**Credentials.** A password is a number. `item` is the vault's item, `server` what the mail server
has, `core` what an account was configured with, `memory` and `file` the local store, `known` and
`registry` the onboarding registry and its file. `snap` is the item as a process read it: `PutItem`
puts the whole of it, so the last writer wins, which is how the code uses the vault's PUT. `ReadItem`
.. `PutRaises` are `OpConnectStore.get_or_create`, run by both processes; `GetLocal` .. `MintRaises`
are `SecretsStore.get_or_create`; `AlreadyOnboarded`, `LogIn`, `LogInFails`, `Mark` the rest of the
pass; `SetPassword` .. `SyncEnds` are `sync_bot`. `unsaved` records the bots whose mark could not be
written to the registry's file, which no later pass makes up for (main.py 145-149). A request may fail, or be carried out and its answer
lost. `Accepts` is the mail server's side and external.

## Runs

All runs set `CHECK_DEADLOCK FALSE`: with the bounds on restarts and failures spent and every
request answered the system rests.

| run | asks | bounds |
|---|---|---|
| `wake_copies` | safety of copies, drains, lost answers, lapses, a restart; the wake path is a mailbox | 2 bots and a person, 3 handlers (two copies, one handed over again), 2 drains, 2 rosters, 1 restart |
| `wake_kinds` | no self-wake; only what has one key is taken for one wake; every wake owed settles (liveness) | 5 events: a direct message, a group post by a bot, a notice, two reactions without ids; 1 drain, index rebuilds |
| `outbox` | outcomes are true, and settled but for the passes that had the message in hand; no unneeded second send; a key nobody else's message equals stays pollable; the outbox is a courier; outcomes come (liveness) | two requests of different contents, or of one content, and the drain loop; or one request, the drain loop and a `POST /drain`, a lost answer and a restart; 1 attempt |
| `mesh_once` | but for what an age-out raced for: at most once, in order, dropped only if undelivered, nothing falls out, an event settles (liveness) | 3 senders on both directions of a pair, 1 event, cap 2, switches at calls to the core and inside `_age_out` |
| `provision_sync` | whoever is dealt with is in the channel; events provision, the star reaches all, passes catch up (liveness) | a lead, a bot and an external member, 1 failing call, 1 restart |
| `accounts_index` | the index is complete and true; events arrive, in order; bots come up (liveness) | 2 bots, one of which may be onboarded before, a name nobody has, 2 callers and the pass; three scenarios: 2 lookups; a lookup, a read and a setup that raise; a lookup, a dying forwarder and 2 events |
| `creds_agree` | nobody is locked out, no false alarm; all come to agree on what was not rotated, bots log in and get into the registry's file (liveness) | 2 bots, the pass and the sync; with the vault 2 failing requests, or 1 and a rotation, or a death and lost accounts; with the file a failing request with a failing write, or with a death and lost accounts |
| `outbox_key`, `mesh_twice`, `mesh_swallows`, `provision_starved`, `creds_rotation` | claims of comments and docstrings the code does not keep | see *Disagreements* |

The scenarios of `outbox`, `accounts_index` and `creds_agree` are chosen in the initial state, so one run has
them all. `MaxAccounts` is more than the passes of any scenario can make. A write that fails in a
scenario with lost accounts is left out: the bot would be locked out for good (see *Scope*).

The action constraint `TwoAtWork` of `outbox` keeps two requests and the drain loop from being under way all
at once: two requests, or one and the loop, or one and two drains. It holds nothing up for good, since requests
come to their end. Two prunes that overlap need entries of their own and one appended between them to
lose it, which is a larger instance than the run's: the run has that branch (`mishaps`) with one entry,
and the theorems have it at any size. TLC shows the loss in a separate search with `c1`, `c3`, both
drains and neither restart nor lost answer.

`NoWakeLost` and `NoKeyLost` are one property where the core's ids tell messages apart, as they do in
`wake_copies`. In `wake_kinds` the lookups of two reactions failed, so that they have one key: the second
is suppressed while the first one's entry lives, `NoWakeLost` fails there, and `NoKeyLost` says that this
is all that is lost.

Why the bounds are enough for what is asked: the races of this code are between two actors over one
entry (two copies, a handler and a drain, two drains, two flushes, a sender and a flush, a pass and
an event), and each run has both actors and a bystander or a second entry. One restart shows what a
file that is behind does. The larger the instance the more of the same; where size could matter
(number of copies, drains, requests, threads, restarts) the theorems below take over.

## Fairness

- `WakePath`: the loop runs every scheduled task and the HTTP client gives a POST up after 10 s, so a
  handler proceeds; `drain_loop` comes back every 5 s whatever a pass raised; TTLs pass. Nobody has
  to call `POST /drain`, and nothing restarts.
- `Outbox`, `PeerMesh`: a thread that was started runs on, and blocking calls to the core return;
  the drain loop comes back, whatever a pass raised. Nobody has to send, no handshake completes, no event is reported.
- `Provision`: `reconciler_loop` comes round again whatever a pass raised, and threads run. No login
  has to succeed and no handshake to complete.
- `Accounts`: a thread that began a rebuild goes on with it; `reconciler_loop` comes round again whatever
  a pass raised; forwarders and the pump are threads that loop. No name has to be looked up.
- `Credentials`: the pass and the cron-started sync come round again, and their requests time out. No
  request has to succeed except that failures are finitely many: a request that fails in every pass ends
  the pass for the bots after it each time (main.py 268), and these never log in.

Only weak fairness is used, on the steps of a thread as a whole. `WakesSettle` needs no success:
the hold queue's TTL ends a wake. `ParkedSettles` needs no send to succeed, since attempts are bounded, but
it needs passes that come to their end: its premise is that from some moment on `account_id_for` does not
raise. While the accounts cannot be listed a message waits for ever, uncounted and not aged out. A run has
finitely many lost answers, `POST /drain`s, failures and events; with these spent the loops go on by
themselves. `EventsArrive` in particular starts dead forwarders again when the stream is idle, which it comes
to be as the events are finitely many; a stream that never idles is not covered.

## Proofs

All theorems hold for arbitrary constants within the modules' assumptions, which only say what kind
of thing each constant is; what a theorem assumes beyond them is in its statement and named here.
Each proof module states a `Types` that is inductive by itself (`TypeOK` and what the steps need
besides), proves it one lemma per action, and uses it for the invariants that follow.

`WakePathProofs`:
- `TypeCorrect`: `TypeOK`. It includes that a handler in flight is on one of its targets, which
  `Target(h)` needs to mean anything.
- `ReservationsHold`: `ReservationStands`, `Exclusive`, `NoOrphanReservation` (which
  `NothingIsSuppressed` restates). The first alone is not inductive: a handler keeps its entry when
  another one releases only because no two in flight hold the same entry (`Exclusive`), and an entry is
  released only by the one that claimed it; `NoOrphanReservation` in turn needs that a handler whose
  POST was accepted has its wake at the bridge (`HandlerAccepted`).
- `CopiesCollapse`: `SingleFlight`, assuming `IdentifiersAgree`: the keys of the deduplication and of
  the hold queue coincide exactly for copies of one message or reaction. The code relies on the core
  for that; it fails when an id lookup fails (relay.py 964-971, 2377).
- `KeysAreNotLost`: `NoKeyLost`, for any ids. `Classes` are the sets of events that share no key of
  the deduplication or the hold queue with an event outside, and `KeyClass` the least one an event is
  in. The invariant adds that the file equals the queue after every step (`HoldAdd`, `HoldRemove` and
  pruning flush at once) and that what a drain removes was accepted. Each step keeps a settled wake of a
  class settled, since whatever takes an item's place or removes it has its key (`SameHoldKey`), and the
  targets a handler skips are settled because a live entry is (`LiveIsSettled`).
- `WakesAreNotLost`: `NoWakeLost` under `IdentifiersAgree`, a corollary: then an event's class has
  only its copies.
- `NobodyWakesHimself`: `NoSelfWake`, whatever the index answers: a wake in a handler's hands, in the
  queue, in its file, in a drain's batch or at the bridge is for somebody else than its author.

`WakeMailboxProofs`:
- `ImplementsMailbox`: the refinement `IsMailbox`, under `IdentifiersAgree`. Each action of the wake
  path is mapped to `Handle`, `Accept`, `Settle`, `Crash` or a stutter. Besides the invariants above it
  needs that the items in a drain's hands were begun by some handler (`DrainKnown`), or else removing
  one would not be a step of the mailbox.

`OutboxProofs`:
- `TypeCorrect`: `TypeOK`.
- `DeliveredIsTrue`: `DeliveredMeansSent`. It is not inductive, since a restart reads the file, the file
  comes from `temp`, and that from some thread's image: `SentInv` says it of all four.
- `QueuedIsPollable`: `QueuedStaysPollable`, for any contents. `TrackedInv` adds that a request on its
  way through `enqueue` after the append is in the list, or was and aged out. A prune takes away only what it
  found old, unless it reads a list that another prune has replaced, which `mishaps` records.
- `SentAgainOnlyInDoubt`: `NoNeedlessSend`, for any number of drains. `PlacedInv` says that the list,
  the lists it replaced and their copies name only requests whose entry was appended, `ShapeInv` that a drain
  has at most one entry in hand, which is not one it has left. `CountInv` counts the landings of a message
  beyond its doubts: none before it was parked; while it is pending, one for each drain that has sent it and
  is about to mark it (`Marking`); and always at most one for each drain that is not still to send it or give
  it up (`Owing`).
- `OutcomesAreSettled`: `OutcomeIsSettled`, for any number of drains. A pass takes up only what is pending
  (`DrainStart`, `AgeOut`), lets go of each entry as it changes it, and no step of a drain makes an entry
  pending again.

`OutboxCourierProofs`:
- `ImplementsCourier`: the refinement `IsCourier`, for any number of drains. Each action of the outbox is
  mapped to one of the courier or to a stutter; a prune that undoes another is `Clobber`. Besides the
  invariants above it needs that what `age_out` is about to prune has an outcome (`StaleInv`), that a
  request in the middle of a flush was not answered yet (`WriterInv`), and that while no drains overlap the
  one under way has in hand only what is listed and pending (`AloneInv`).

`PeerMeshProofs`, for any switches of threads, inside `_age_out` too:
- `TypeCorrect`: `TypeOK`.
- `SentOnce`: `DeliveredOnce`; `DroppedIsUndelivered`: `DroppedMeansUndelivered`; `TrackedForever`:
  `NothingFallsOut`. One invariant serves these three: a list has messages of its pair, each once
  (`ListInv`); a list that is being sent is out of the table and in one thread's hands (`HandInv`); a
  list yet to be made is in nobody's reach, so that no thread makes one twice (`FreshInv`); a message
  that is not `raced` waits in one place, and not after it was sent or dropped (`MessageInv`); a chat has
  it once (`ChatInv`). `raced` grows only where a copy and the table differ, or where a thread takes away
  what another has logged as dropped, so these are the only exceptions.
- `QueueOrder`: `SentInOrder`, without exception. The same message may be in an old list, in a copy that
  took its place and in the chat, so `OrderInv` relates them: `LineInv`, that a message ahead of another in
  one list is ahead of it in every list that holds the other one, or was dropped; and `PassedInv`, that a
  sender sent all that it has passed. It needs that the copy `_age_out` makes keeps the order, which
  `BeforeWithout` shows.

`ProvisionProofs`:
- `TypeCorrect`: `TypeOK`, which says that a channel has only verified members and that a thread that
  is adding has a channel to add to.
- `EndsAreComplete`: `EndsComplete`. `EndsInv` adds that an event has none but its member to deal with,
  and that a thread about to create has no channel yet; the argument is that channels only grow, so what
  one thread finds or adds no other one takes away. It needs that no bot or external member is listed
  twice (`MembersAssumption`).

`AccountsProofs`:
- `TypeCorrect`: `TypeOK`; index and threads name only accounts that exist.
- `EntriesAreTrue`: `IndexTrue`, and `NobodyIsMissing`: `IndexComplete`. `IndexInv` says that
  whichever account of a bot the index misses, some rebuild under way is still to read it in; and that
  only the pass changes whose an account is, one that is nobody's or that bot's already.
- `StreamInOrder`: `EventsInOrder`. `StreamInv` says that an account has at most one forwarder, which
  holds at most one event, and that what is pumped, merged, in its hand and still in the core follow
  one another without a gap.

`CredentialsProofs`:
- `TypeCorrect`: `TypeOK`.
- `NobodyIsLockedOut`: `CoreCanLogIn`, for bots whose password nobody rotates. `ItemInv` says that a
  password which the mail server has, and the item or the pass besides, is the item's, and that the sync
  has no other one to put in its place, although items are overwritten by older ones; it needs that a process at a
  request has a password for it (`HandInv`), that a password about to be put is nowhere else (`FreshInv`), and that
  with the file there is no sync and no item (`LocalInv`).
- `GuardIsRight`: `NoFalseAlarm`, by `GuardInv`: until accounts are lost, whoever is marked or in the
  file is configured.

Only model-checked: liveness (`WakesSettle`, `ParkedSettles`, `EventSettles`, `EventsArrive`,
`BotsComeUp`, `CredentialsAgree`, `BotsLogIn`, `BotsAreMarked` and those of `Provision`), which is
outside the prover's reach, as are `ENABLED` and induction over data. Every invariant and every
action property that holds of the modules is a theorem. No module uses a RECURSIVE operator.

## Scope of what holds

- `NoNeedlessSend` allows one landing per drain. `POST /drain` runs the code of the drain loop in a request
  thread, and nothing keeps two passes from sending the same entries.
- `OutcomeIsSettled` does not say that an outcome is final: a pass that had the message in hand when it
  was marked may turn "dropped" into "delivered" or the reverse, once. A poll in between has shown an
  outcome the documents call CONCLUSIVE (relay.py 1834, 1877, 1886): see *Disagreements*.
- `QueuedStaysPollable` is about a living process, a message nobody else sent the like of, and no two prunes
  that overlap. Without the second premise it fails (`outbox_key`); without the first it fails after a
  restart on an older file, without the third when what was appended between two prunes is lost.
- `NoWakeLost` holds where the core's ids tell messages apart; otherwise it is `NoKeyLost`.
- `DeliveredOnce`, `NothingFallsOut` and `EventSettles` except the messages an age-out and another thread
  were at odds about (`raced`): such a message may be sent twice (`mesh_twice`), or be lost.
  `DroppedMeansUndelivered` also excepts a message whose send raised after it had landed.
- `SentInOrder` is about messages that were in one list. The messages of two lists of a pair, and those
  sent at once, may mix in the chat: see *Disagreements*.
- `NoWakeLost` is about wakes whose handler came as far as its filters. An event that arrives while the
  account index is refilled may be ignored (`"ignored"`), and a task may die with the process
  (`"lost"`).
- `PassCatchesUp` is about members all of whose predecessors in the pass are verified; without that
  condition it is `VerifiedAreCaughtUp`, which fails.
- `IndexComplete` is about runs in which no read of an account raised: an account whose
  read raises is skipped (`FillSkips`) until the next rebuild.
- `NoFalseAlarm` takes the reads of the accounts at a start to succeed; one that raises (relay.py 512-515)
  leaves its account out, and the guard reports that bot.
- A read of an account's configuration that raises makes `ensure_account` set the account up again
  (relay.py 1179-1181); `Credentials` leaves this out. It would also give a bot its rotated password.
- `BotsAreMarked` excepts a bot whose own mark could not be written: no later pass writes it again, unless
  another bot is marked, or the relay restarts.
- `CoreCanLogIn` is about bots whose password nobody rotated, and no scenario has both a write of
  the secrets file that fails and lost accounts: a password minted just before is then used to create
  the mailbox but forgotten at the restart (main.py 94), and the bot stays locked out.
- The vault is taken to do what `opconnect.py` uses it for: a PUT replaces the whole item, and the
  last writer wins.

## Disagreements between code and comments

Each of these is shown by a run:

1. `outbox_key`: a transient failure parks the message "(never dropped)" and its key can be polled, where
   404 means "never existed or tombstone aged out" (relay.py 2008-2013; also 1834, 1875-1878). For a send
   equal to one in the list `enqueue` stores nothing and returns a new key (1858-1864).
2. `mesh_twice`: flushes are "EXACTLY-ONCE" and the pop "ATOMIC" (relay.py 1561, 1728). One thread copies the
   list in `_age_out` (1613), another pops and sends it, the first puts the copy in its place (1620), and the
   next flush sends it again.
3. `mesh_swallows`: messages are "never silently swallowed" (relay.py 1566). A sender appends to a list
   that was popped or replaced during its handshake.
4. `provision_starved`: the pass is "the idempotent catch-up for members ALREADY verified" (main.py 715).
   The first unverified bot ends it for the realm.
5. `creds_rotation`: what the vault has is what the fabric configures and what the mail server binds, and
   "rotatable" (opconnect.py 5-8), a rotated password "HONORED" (77). The sync sets the new password at the
   mail server; `ensure_account` returns early for a bot that is configured (relay.py 1172-1174), so the
   core keeps the old one.

Seen while modelling, and reachable in the modules, without a run of their own:

- "wake each target at most once per TTL" (relay.py 1947): a failed delivery is held and its reservation
  released; another copy delivers, and the drain delivers again.
- The hint has "the chat/channel id PRE-FILLED" (relay.py 57): the id is that of the account whose copy
  won (2298), and means another chat, or none, in the woken bot's account.
- The outbox "never silently loses" over a crash (relay.py 1821). Two threads flush at once, and the older
  image may be the one that stays in the file; a restart reads it. `QueuedIsTracked` fails for this too, if
  the requests' contents differ and a restart is allowed.
- The outcome of a poll is CONCLUSIVE (relay.py 1834, 1877, 1886). A pass of the drain loop and a
  `POST /drain` hold one message; one drops it, for a moment in which its account is not found, say, and
  the other delivers it. `GiveUp` may also mark "dropped" what another pass has just marked "delivered".
- A rotated password is "never overwritten" (opconnect.py 78). `PutItem` writes the item as its process read
  it, perhaps before the rotation of another bot's password (105).
- The registry is a "durable record" of every bot onboarded at least once (main.py 111): after a failed write
  a bot is in it only in memory (145-149).
- A request that finds the pair verified is to "flush the backlog FIRST so the queued-earlier messages
  precede this live one" (relay.py 1677). If an event's thread has popped the backlog and waits for the
  core, the request finds nothing to flush, and its message precedes them.
- "Ensure ONE group chat per realm" (main.py 286): a pass and a verified event may both list none and
  create one each; `Provision` lets `channel` have two for that reason.
- `ensure_account` is to make an account for a bot that has none; in the window of another thread's
  rebuild it makes a second one (relay.py 1166).

## Not modelled

- Contents: texts, mention patterns, payloads, addresses, log lines.
- The agent directory's refresh guard, its throttle and the merged url map (relay.py 1277-1364): they
  decide when a wake finds its bot's url, which `WakePath` leaves open, so that its safety does not
  depend on them.
- The MCP server and the pass-through HTTP endpoints: no state.
- Core wrappers (contacts, chats, invites, reactions): one RPC each; what they come to is a choice in
  the actions that call them.
- A change of the mail domain (relay.py 1175-1182): the domain is a constant of a process.
- File errors (disk full) of the hold queue; two Outbox objects made by two first requests at once
  (relay.py 2088); duplicated verified events; external members without an invite link.

## Plan

Done, in this order: `WakePath` (the relay's purpose), `Outbox`, `PeerMesh`, `Provision`, `Mailbox`,
`Accounts`, `Credentials`, `Courier`, with proofs beside each.

What would add most next:
1. `Directory`: the refresh flag, the throttle after a miss and the merged url map, and that a bot that
   is listed is found in the end.
2. A property on the number of groups per realm, which `Provision` already lets exceed one.
3. `WakePath` with a third copy and a departing bot in the same run, to see liveness there.
