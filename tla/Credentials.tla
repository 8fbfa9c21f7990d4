---------------------------- MODULE Credentials ----------------------------
(***************************************************************************)
(* How a bot gets the password it logs in with, and is remembered          *)
(* (src/app/opconnect.py, authentik_sync.py, main.py).  Two processes that *)
(* know nothing of each other mint passwords into one item of a vault: the *)
(* reconcile pass of the relay, which logs in with them, and the Authentik *)
(* sync, which sets them at the mail server.  Both read the item, add a    *)
(* field and PUT the whole of it.  With the local backend the pass alone   *)
(* mints, into a file, and the first login creates the mailbox.            *)
(*                                                                         *)
(* A step is what a process does between two requests or file operations.  *)
(* A password is a number, in the order they are minted; 0 is none.        *)
(*                                                                         *)
(* A name that ends in Slip is a plausible mistake in the definition that  *)
(* follows it; the specification never uses it.                            *)
(***************************************************************************)
EXTENDS Naturals, Sequences, SequencesExt

CONSTANTS
    Roster,      \* the roster's localparts, in order
    Pass,        \* the reconcile pass
    Sync,        \* the Authentik sync
    Scenarios    \* backends with bounds on what may go wrong, to choose from

Bots == ToSet(Roster)
Processes == {Pass, Sync}

\* How many requests may fail, file writes fail, passwords be rotated, processes
\* die, and the accounts of the core be lost.
Kinds == {"request", "write", "rotation", "restart", "wipe"}
Scenario == [backend: {"local", "opconnect"}, bounds: [Kinds -> Nat]]

ASSUME RosterAssumption == Roster \in Seq(Bots) /\ IsInjective(Roster) /\ Pass # Sync
ASSUME ScenariosAssumption == Scenarios \subseteq Scenario

VARIABLES
    backend,      \* select_secret_backend
    left,         \* what may still go wrong, per kind
    minted,       \* passwords minted so far
    item,         \* the vault's item: the password per bot
    rotated,      \* the last password the item's owner set, per bot
    memory,       \* SecretsStore._data
    file,         \* secrets.json
    server,       \* the password the mail server has for a bot
    bound,        \* bots the mail server can look up (they have an email)
    core,         \* the password the bot's account was configured with
    known,        \* OnboardRegistry._data
    registry,     \* its file
    unsaved,      \* bots whose mark could not be written to it, and has not been since
    wiped,        \* have the accounts of the core ever been lost
    alarm,        \* what the state-loss guard reported at the last start
    pc,           \* per process
    todo,         \* per process: the bots still to come
    snap,         \* per process: the item as it read it
    pw,           \* per process: the password in hand
    provisioned   \* bots onboarded in this pass

world == <<item, rotated, server, bound>>
local == <<memory, file>>
guard == <<known, registry, unsaved, wiped, alarm>>
vars == <<backend, left, minted, world, local, core, guard, pc, todo, snap, pw,
          provisioned>>

NoPasswords == [b \in Bots |-> 0]

Init ==
    /\ \E s \in Scenarios : backend = s.backend /\ left = s.bounds
    /\ minted = 0
    /\ item = NoPasswords /\ rotated = NoPasswords
    /\ memory = NoPasswords /\ file = NoPasswords
    /\ server = NoPasswords /\ bound = {} /\ core = NoPasswords
    /\ known = {} /\ registry = {} /\ unsaved = {} /\ wiped = FALSE /\ alarm = {}
    /\ pc = [p \in Processes |-> "idle"]
    /\ todo = [p \in Processes |-> <<>>]
    /\ snap = [p \in Processes |-> NoPasswords]
    /\ pw = [p \in Processes |-> 0]
    /\ provisioned = {}

May(kind) ==
    /\ left[kind] > 0
    /\ left' = [left EXCEPT ![kind] = @ - 1]

Go(p, where) == pc' = [pc EXCEPT ![p] = where]
Bot(p) == Head(todo[p])

\* The process is done with the item and the password it had in hand.
Drop(p) == /\ snap' = [snap EXCEPT ![p] = NoPasswords]
           /\ pw' = [pw EXCEPT ![p] = 0]

NextBot(p) == /\ todo' = [todo EXCEPT ![p] = Tail(@)]
              /\ Go(p, "get")
              /\ Drop(p)

Leave(p) == /\ todo' = [todo EXCEPT ![p] = <<>>]
            /\ Go(p, "idle")
            /\ Drop(p)

\* What an exception does: reconcile_once calls get_or_create outside of its try,
\* so the pass is over; sync_roster goes on to the next bot.
Raise(p) == IF p = Pass THEN Leave(p) ELSE NextBot(p)

\* Slip: both processes take it for a login.
GotSlip(p) == Go(p, "login")

\* get_or_create returned.
Got(p) == Go(p, IF p = Pass THEN "login" ELSE "set")

\* A pass begins, or the sync's cron tick.
Start(p) ==
    /\ pc[p] = "idle"
    /\ p = Sync => backend = "opconnect"
    /\ todo' = [todo EXCEPT ![p] = Roster]
    /\ provisioned' = IF p = Pass THEN {} ELSE provisioned
    /\ Go(p, "get")
    /\ UNCHANGED <<backend, left, minted, world, local, core, guard, snap, pw>>

-----------------------------------------------------------------------------
(* OpConnectStore.get_or_create *)

\* Slip: the sync mints a password at every tick.
ReadItemSlip(p) ==
    /\ backend = "opconnect" /\ pc[p] = "get" /\ todo[p] # <<>>
    /\ IF item[Bot(p)] # 0 /\ p = Pass
       THEN /\ pw' = [pw EXCEPT ![p] = item[Bot(p)]]
            /\ Got(p)
            /\ UNCHANGED <<minted, snap>>
       ELSE /\ minted' = minted + 1
            /\ snap' = [snap EXCEPT ![p] = item]
            /\ pw' = [pw EXCEPT ![p] = minted']
            /\ Go(p, "put")
    /\ UNCHANGED <<backend, left, world, local, core, guard, todo, provisioned>>

\* The item has the bot's password, or one is minted.
ReadItem(p) ==
    /\ backend = "opconnect" /\ pc[p] = "get" /\ todo[p] # <<>>
    /\ IF item[Bot(p)] # 0
       THEN /\ pw' = [pw EXCEPT ![p] = item[Bot(p)]]
            /\ Got(p)
            /\ UNCHANGED <<minted, snap>>
       ELSE /\ minted' = minted + 1
            /\ snap' = [snap EXCEPT ![p] = item]
            /\ pw' = [pw EXCEPT ![p] = minted']
            /\ Go(p, "put")
    /\ UNCHANGED <<backend, left, world, local, core, guard, todo, provisioned>>

\* It cannot be read; or, for the sync, its user not be found or created.
ReadRaises(p) ==
    /\ backend = "opconnect" /\ pc[p] = "get" /\ todo[p] # <<>>
    /\ May("request")
    /\ Raise(p)
    /\ UNCHANGED <<backend, minted, world, local, core, guard, provisioned>>

Written(p) == [snap[p] EXCEPT ![Bot(p)] = pw[p]]

PutItem(p) ==
    /\ pc[p] = "put"
    /\ item' = Written(p)
    /\ Got(p)
    /\ UNCHANGED <<backend, left, minted, rotated, server, bound, local, core,
                   guard, todo, snap, pw, provisioned>>

\* The PUT fails, or its answer is lost.
PutRaises(p) ==
    /\ pc[p] = "put" /\ May("request")
    /\ item' \in {item, Written(p)}
    /\ Raise(p)
    /\ UNCHANGED <<backend, minted, rotated, server, bound, local, core, guard,
                   provisioned>>

\* The item's owner rotates a password.
Rotate(b) ==
    /\ item[b] # 0 /\ May("rotation")
    /\ minted' = minted + 1
    /\ item' = [item EXCEPT ![b] = minted']
    /\ rotated' = [rotated EXCEPT ![b] = minted']
    /\ UNCHANGED <<backend, server, bound, local, core, guard, pc, todo, snap, pw,
                   provisioned>>

-----------------------------------------------------------------------------
(* SecretsStore.get_or_create *)

GetLocal ==
    /\ backend = "local" /\ pc[Pass] = "get" /\ todo[Pass] # <<>>
    /\ memory[Bot(Pass)] # 0
    /\ pw' = [pw EXCEPT ![Pass] = memory[Bot(Pass)]]
    /\ Got(Pass)
    /\ UNCHANGED <<backend, left, minted, world, local, core, guard, todo, snap,
                   provisioned>>

\* Slip: the file is written when the pass is over.
MintLocalSlip ==
    /\ backend = "local" /\ pc[Pass] = "get" /\ todo[Pass] # <<>>
    /\ memory[Bot(Pass)] = 0
    /\ minted' = minted + 1
    /\ memory' = [memory EXCEPT ![Bot(Pass)] = minted']
    /\ pw' = [pw EXCEPT ![Pass] = minted']
    /\ Got(Pass)
    /\ UNCHANGED <<backend, left, world, file, core, guard, todo, snap, provisioned>>

MintLocal ==
    /\ backend = "local" /\ pc[Pass] = "get" /\ todo[Pass] # <<>>
    /\ memory[Bot(Pass)] = 0
    /\ minted' = minted + 1
    /\ memory' = [memory EXCEPT ![Bot(Pass)] = minted']
    /\ file' = memory'
    /\ pw' = [pw EXCEPT ![Pass] = minted']
    /\ Got(Pass)
    /\ UNCHANGED <<backend, left, world, core, guard, todo, snap, provisioned>>

\* The file cannot be written.  The password stays in memory, so the next pass
\* takes it for a stored one.
MintRaises ==
    /\ backend = "local" /\ pc[Pass] = "get" /\ todo[Pass] # <<>>
    /\ memory[Bot(Pass)] = 0 /\ May("write")
    /\ minted' = minted + 1
    /\ memory' = [memory EXCEPT ![Bot(Pass)] = minted']
    /\ Raise(Pass)
    /\ UNCHANGED <<backend, world, file, core, guard, provisioned>>

-----------------------------------------------------------------------------
(* ensure_account, and the end of reconcile_once *)

\* Slip: only a bot that was onboarded just now is reported.
AlreadyOnboardedSlip ==
    /\ pc[Pass] = "login" /\ core[Bot(Pass)] # 0
    /\ NextBot(Pass)
    /\ UNCHANGED <<backend, left, minted, world, local, core, guard, provisioned>>

\* The account is configured already; with which password is not looked at.
AlreadyOnboarded ==
    /\ pc[Pass] = "login" /\ core[Bot(Pass)] # 0
    /\ provisioned' = provisioned \cup {Bot(Pass)}
    /\ NextBot(Pass)
    /\ UNCHANGED <<backend, left, minted, world, local, core, guard>>

\* A chatmail server creates a mailbox at its first login.  The other one asks
\* Authentik.
Accepts(b) == IF backend = "local" THEN server[b] \in {0, pw[Pass]}
                                   ELSE b \in bound /\ server[b] = pw[Pass]

LogIn ==
    /\ pc[Pass] = "login" /\ core[Bot(Pass)] = 0 /\ Accepts(Bot(Pass))
    /\ server' = [server EXCEPT ![Bot(Pass)] = pw[Pass]]
    /\ core' = [core EXCEPT ![Bot(Pass)] = pw[Pass]]
    /\ provisioned' = provisioned \cup {Bot(Pass)}
    /\ NextBot(Pass)
    /\ UNCHANGED <<backend, left, minted, item, rotated, bound, local, guard>>

\* The login is refused, or fails for no lasting reason.
LogInFails ==
    /\ pc[Pass] = "login" /\ core[Bot(Pass)] = 0
    /\ \/ ~Accepts(Bot(Pass)) /\ UNCHANGED left
       \/ May("request")
    /\ NextBot(Pass)
    /\ UNCHANGED <<backend, minted, world, local, core, guard, provisioned>>

\* Slip: every desired bot is marked.
MarkSlip ==
    /\ pc[Pass] = "get" /\ todo[Pass] = <<>>
    /\ known' = Bots /\ registry' = Bots
    /\ Leave(Pass)
    /\ UNCHANGED <<backend, left, minted, world, local, core, unsaved, wiped, alarm,
                   provisioned>>

\* The pass is over, and the registry marks who was provisioned.  Its file is written
\* when one of them is not marked yet, with all that are.
Mark ==
    /\ pc[Pass] = "get" /\ todo[Pass] = <<>>
    /\ known' = known \cup provisioned
    /\ IF provisioned \subseteq known THEN UNCHANGED <<registry, unsaved>>
                                     ELSE registry' = known' /\ unsaved' = {}
    /\ Leave(Pass)
    /\ UNCHANGED <<backend, left, minted, world, local, core, wiped, alarm,
                   provisioned>>

\* The registry's file cannot be written.  The marks stay in memory, so the next pass
\* takes them for written ones.
MarkRaises ==
    /\ pc[Pass] = "get" /\ todo[Pass] = <<>>
    /\ ~(provisioned \subseteq known) /\ May("write")
    /\ known' = known \cup provisioned
    /\ unsaved' = unsaved \cup (provisioned \ known)
    /\ Leave(Pass)
    /\ UNCHANGED <<backend, minted, world, local, core, registry, wiped, alarm,
                   provisioned>>

-----------------------------------------------------------------------------
(* sync_bot *)

\* Slip: only a new user gets a password.
SetPasswordSlip ==
    /\ pc[Sync] = "set"
    /\ server' = IF server[Bot(Sync)] = 0
                 THEN [server EXCEPT ![Bot(Sync)] = pw[Sync]] ELSE server
    /\ Go(Sync, "update")
    /\ UNCHANGED <<backend, left, minted, item, rotated, bound, local, core, guard,
                   todo, snap, pw, provisioned>>

SetPassword ==
    /\ pc[Sync] = "set"
    /\ server' = [server EXCEPT ![Bot(Sync)] = pw[Sync]]
    /\ Go(Sync, "update")
    /\ UNCHANGED <<backend, left, minted, item, rotated, bound, local, core, guard,
                   todo, snap, pw, provisioned>>

UpdateUser ==
    /\ pc[Sync] = "update"
    /\ bound' = bound \cup {Bot(Sync)}
    /\ NextBot(Sync)
    /\ UNCHANGED <<backend, left, minted, item, rotated, server, local, core,
                   guard, provisioned>>

\* set_password is carried out, and its answer is lost.
SetAnswerLost ==
    /\ pc[Sync] = "set" /\ May("request")
    /\ server' = [server EXCEPT ![Bot(Sync)] = pw[Sync]]
    /\ NextBot(Sync)
    /\ UNCHANGED <<backend, minted, item, rotated, bound, local, core, guard,
                   provisioned>>

\* A request fails: logged, and on to the next bot.  The user may have been
\* updated all the same, or only add_to_group have failed.
SyncRaises ==
    /\ pc[Sync] \in {"set", "update"} /\ May("request")
    /\ bound' \in {bound, IF pc[Sync] = "set" THEN bound ELSE bound \cup {Bot(Sync)}}
    /\ NextBot(Sync)
    /\ UNCHANGED <<backend, minted, item, rotated, server, local, core, guard,
                   provisioned>>

SyncEnds ==
    /\ pc[Sync] = "get" /\ todo[Sync] = <<>>
    /\ Leave(Sync)
    /\ UNCHANGED <<backend, left, minted, world, local, core, guard,
                   provisioned>>

-----------------------------------------------------------------------------
(* Processes that die *)

\* The relay starts again, perhaps with an accounts directory that is new, and
\* detect_state_loss looks for bots that are known and have no account.
Restart(lost) ==
    /\ IF lost THEN May("wipe") ELSE May("restart")
    /\ core' = IF lost THEN NoPasswords ELSE core
    /\ wiped' = (wiped \/ lost)
    /\ alarm' = {b \in registry : core'[b] = 0}
    /\ memory' = file /\ known' = registry /\ unsaved' = {}
    /\ Leave(Pass)
    /\ UNCHANGED <<backend, minted, world, file, registry, provisioned>>

SyncDies ==
    /\ pc[Sync] # "idle" /\ May("restart")
    /\ Leave(Sync)
    /\ UNCHANGED <<backend, minted, world, local, core, guard, provisioned>>

GetOrCreate(p) == ReadItem(p) \/ ReadRaises(p) \/ PutItem(p) \/ PutRaises(p)

Reconcile ==
    \/ Start(Pass) \/ GetOrCreate(Pass) \/ GetLocal \/ MintLocal \/ MintRaises
    \/ AlreadyOnboarded \/ LogIn \/ LogInFails \/ Mark \/ MarkRaises

SyncRoster ==
    \/ Start(Sync) \/ GetOrCreate(Sync) \/ SetPassword \/ SetAnswerLost
    \/ UpdateUser \/ SyncRaises \/ SyncEnds

Next ==
    \/ Reconcile \/ SyncRoster
    \/ \E b \in Bots : Rotate(b)
    \/ \E lost \in BOOLEAN : Restart(lost)
    \/ SyncDies

Spec == Init /\ [][Next]_vars

\* reconciler_loop comes round whatever a pass raised, and cron starts the sync
\* again; requests time out.  Nothing has to go wrong.
Fairness == WF_vars(Reconcile) /\ WF_vars(SyncRoster)

FairSpec == Spec /\ Fairness
-----------------------------------------------------------------------------
Password == 0..minted

\* Every variable has its type; a process that has a password in hand has a bot it is
\* for (main.py:268).
TypeOK ==
    /\ backend \in {"local", "opconnect"} /\ left \in [Kinds -> Nat]
    /\ minted \in Nat
    /\ {item, rotated, memory, file, server, core} \subseteq [Bots -> Password]
    /\ {bound, known, registry, unsaved, alarm, provisioned} \subseteq SUBSET Bots
    /\ wiped \in BOOLEAN
    /\ pc \in [Processes -> {"idle", "get", "put", "login", "set", "update"}]
    /\ todo \in [Processes -> Seq(Bots)]
    /\ snap \in [Processes -> [Bots -> Password]]
    /\ pw \in [Processes -> Password]
    /\ \A p \in Processes :
          pc[p] \in {"put", "login", "set", "update"} => todo[p] # <<>>
    /\ pc[Pass] \notin {"set", "update"} /\ pc[Sync] # "login"

\* What an account was configured with is what the mail server has: although two
\* processes mint passwords into one item and overwrite each other's, no bot is
\* configured and then locked out by a password set later, unless its password was
\* rotated (opconnect.py:105).
CoreCanLogIn ==
    \A b \in Bots : core[b] # 0 /\ rotated[b] = 0 => server[b] = core[b]

\* The state-loss guard does not cry wolf: when it reports a bot the accounts were lost,
\* though the registry and the core are written at different times (main.py:170).
NoFalseAlarm == alarm # {} => wiped

\* The vault, the mail server and the core come to agree on every bot's password for
\* good, lost updates notwithstanding, unless it was rotated (opconnect.py:5).
CredentialsAgree ==
    \A b \in Bots :
        <>[](backend = "opconnect" /\ rotated[b] = 0
                => item[b] = server[b] /\ server[b] = core[b])

\* Every bot gets in for good, rotated or not: failed requests, passes that one bot's
\* exception ends, deaths and lost accounts only delay it (main.py:267).  Its account
\* keeps the password the mail server has, unless that was rotated (see RotationReaches).
BotsLogIn ==
    \A b \in Bots : <>[](core[b] # 0 /\ (rotated[b] = 0 => server[b] = core[b]))

\* Every bot that is onboarded gets into the registry's file for good, the one that the
\* state-loss guard reads at the next start, although the relay may die between onboarding
\* and marking it, and a pass finds most bots onboarded already (main.py:276).  All that
\* keeps a bot out of it is a failed write of that very mark (main.py:148): no later
\* pass makes up for it.
BotsAreMarked == \A b \in Bots : <>[](b \in registry \cup unsaved)

-----------------------------------------------------------------------------
(* What the code says of itself and does not keep. *)

\* opconnect.py:5-8: one field per bot is the single source, "so the credential Authentik
\* provisions == what the fabric configures == what the mail server LDAP-binds.  Single
\* source, DR-covered, rotatable".
RotationReaches ==
    \A b \in Bots :
        <>[](backend = "opconnect" => item[b] = server[b] /\ server[b] = core[b])
=============================================================================
