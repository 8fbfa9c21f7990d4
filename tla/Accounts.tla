------------------------------ MODULE Accounts ------------------------------
(***************************************************************************)
(* The accounts of the core and the two things kept per account            *)
(* (src/app/relay.py): the index from a bot's localpart to its account,    *)
(* which any thread that misses a name clears and refills, and the         *)
(* forwarder threads, which merge the accounts' event queues into the one  *)
(* the event pump reads.  The reconcile pass onboards the roster's bots    *)
(* through ensure_account; request threads and the star look names up.     *)
(* A step is what a thread does between calls to the core.                 *)
(*                                                                         *)
(* Accounts are numbered as the core does, in the order they were made.    *)
(*                                                                         *)
(* A name that ends in Slip is a plausible mistake in the definition that  *)
(* follows it; the specification never uses it.                            *)
(***************************************************************************)
EXTENDS Naturals, Sequences, FiniteSets, SequencesExt

CONSTANTS
    Roster,        \* the roster's localparts, in order
    Strangers,     \* names that are looked up and belong to no account
    Before,        \* the bots that may be onboarded already, in order
    Nobody,        \* the address of an account that has none
    Pass,          \* the thread of the reconcile pass
    Callers,       \* threads that call account_id_for
    MaxAccounts,   \* bound on the accounts the core can make
    Budgets        \* bounds on what may happen, one of which is chosen

Bots == ToSet(Roster)
Names == Bots \cup Strangers
Threads == {Pass} \cup Callers
AccountIds == 1..MaxAccounts

\* How many lookups may miss, reads from the core raise, add_account or
\* transport setups raise, forwarders die, and events arrive.
Kinds == {"lookup", "misread", "refusal", "death", "event"}

ASSUME NamesAssumption ==
    /\ Roster \in Seq(Bots) /\ IsInjective(Roster)
    /\ Nobody \notin Names /\ Bots \cap Strangers = {}
    /\ Pass \notin Callers
ASSUME BeforeAssumption ==
    \A s \in Before : s \in Seq(Bots) /\ IsInjective(s) /\ Len(s) <= MaxAccounts
ASSUME BoundsAssumption == MaxAccounts \in Nat /\ Budgets \subseteq [Kinds -> Nat]

VARIABLES
    created,     \* accounts the core has: 1..created
    configured,  \* those whose transport is set up
    owner,       \* per account: the localpart of its address
    index,       \* _localpart_to_accid, 0 for no entry
    pc,          \* per thread
    todo,        \* the bots the pass has still to onboard
    at,          \* the account the pass is setting up
    rest,        \* per thread: accounts it has still to read into the index
    pumping,     \* _pumping
    forwarded,   \* _forwarded
    running,     \* per account: its forwarder threads
    emitted,     \* per account: how many events the core has queued
    moved,       \* per account: how many of them forwarders have taken
    hand,        \* per account: events forwarders are about to put
    merged,      \* _events
    pumped,      \* per account: the last event the pump has got
    misread,     \* has a read from the core raised
    left         \* what may still happen, per kind

core == <<created, configured, owner>>
eventVars == <<emitted, moved, hand, merged, pumped>>
forwarderVars == <<pumping, forwarded, running>>
vars == <<core, index, pc, todo, at, rest, forwarderVars, eventVars,
          misread, left>>

NoIndex == [n \in Names |-> 0]

Init ==
    /\ \E s \in Before :
          /\ created = Len(s)
          /\ configured = 1..Len(s)
          /\ owner = [a \in AccountIds |-> IF a <= Len(s) THEN s[a] ELSE Nobody]
          /\ index = [n \in Names |-> IF n \in ToSet(s)
                                      THEN CHOOSE a \in 1..Len(s) : s[a] = n
                                      ELSE 0]
    /\ pc = [t \in Threads |-> "idle"]
    /\ todo = <<>> /\ at = 0
    /\ rest = [t \in Threads |-> {}]
    /\ pumping = FALSE /\ forwarded = {}
    /\ running = [a \in AccountIds |-> 0]
    /\ emitted = [a \in AccountIds |-> 0]
    /\ moved = [a \in AccountIds |-> 0]
    /\ hand = [a \in AccountIds |-> {}]
    /\ merged = <<>>
    /\ pumped = [a \in AccountIds |-> 0]
    /\ misread = FALSE
    /\ left \in Budgets

May(kind) ==
    /\ left[kind] > 0
    /\ left' = [left EXCEPT ![kind] = @ - 1]

Misread == May("misread") /\ misread' = TRUE

Go(t, where) == pc' = [pc EXCEPT ![t] = where]

\* Where a thread goes after a rebuild, or when it raised: the caller returns,
\* the pass takes up its next bot.
Return(t) == Go(t, IF t = Pass THEN "ensuring" ELSE "idle")

-----------------------------------------------------------------------------
(* _ensure_event_forwarders: under the lock, a thread for every account that *)
(* has none.                                                                 *)

\* Slip: nobody looks whether an account has one.
EnsureForwardersSlip(accids) ==
    /\ forwarded' = forwarded \cup accids
    /\ running' = [a \in AccountIds |->
                      running[a] + (IF a \in accids THEN 1 ELSE 0)]

EnsureForwarders(accids) ==
    /\ forwarded' = forwarded \cup accids
    /\ running' = [a \in AccountIds |->
                      running[a] + (IF a \in accids \ forwarded THEN 1 ELSE 0)]

-----------------------------------------------------------------------------
(* _reindex_accounts and account_id_for *)

\* account_id_for misses and clears the index.
LookupMisses(c, n) ==
    /\ pc[c] = "idle" /\ index[n] = 0 /\ May("lookup")
    /\ index' = NoIndex
    /\ Go(c, "listing")
    /\ UNCHANGED <<core, todo, at, rest, forwarderVars, eventVars, misread>>

\* ensure_account clears it once its account is configured.
Clear ==
    /\ pc[Pass] = "clearing"
    /\ index' = NoIndex
    /\ Go(Pass, "listing")
    /\ UNCHANGED <<core, todo, at, rest, forwarderVars, eventVars, misread,
                   left>>

\* Slip: one account too far.
ListSlip(t) ==
    /\ pc[t] = "listing"
    /\ rest' = [rest EXCEPT ![t] = 1..(created + 1)]
    /\ Go(t, "filling")
    /\ UNCHANGED <<core, index, todo, at, forwarderVars, eventVars, misread, left>>

\* get_all_account_ids; an account made since joins the running event stream.
List(t) ==
    /\ pc[t] = "listing"
    /\ IF pumping THEN EnsureForwarders(1..created)
                  ELSE UNCHANGED <<forwarded, running>>
    /\ rest' = [rest EXCEPT ![t] = 1..created]
    /\ IF created = 0 THEN Return(t) ELSE Go(t, "filling")
    /\ UNCHANGED <<core, index, todo, at, pumping, eventVars, misread, left>>

\* It raises, and the index stays cleared.
ListRaises(t) ==
    /\ pc[t] = "listing" /\ Misread
    /\ Return(t)
    /\ UNCHANGED <<core, index, todo, at, rest, forwarderVars, eventVars>>

\* The account t reads next.
Reads(t, a) ==
    /\ pc[t] = "filling" /\ a \in rest[t]
    /\ \A x \in rest[t] : a <= x

FillOn(t, a) ==
    /\ rest' = [rest EXCEPT ![t] = @ \ {a}]
    /\ IF rest[t] = {a} THEN Return(t) ELSE UNCHANGED pc

\* Slip: an account without an address is taken for the one read before it.
FillSlip(t, a) ==
    /\ Reads(t, a)
    /\ LET n == IF owner[a] = Nobody /\ a > 1 THEN owner[a - 1] ELSE owner[a]
       IN index' = IF n = Nobody THEN index ELSE [index EXCEPT ![n] = a]
    /\ FillOn(t, a)
    /\ UNCHANGED <<core, todo, at, forwarderVars, eventVars, misread, left>>

Fill(t, a) ==
    /\ Reads(t, a)
    /\ index' = IF owner[a] = Nobody THEN index ELSE [index EXCEPT ![owner[a]] = a]
    /\ FillOn(t, a)
    /\ UNCHANGED <<core, todo, at, forwarderVars, eventVars, misread, left>>

\* get_config raises: the account is left out.
FillSkips(t, a) ==
    /\ Reads(t, a) /\ Misread
    /\ FillOn(t, a)
    /\ UNCHANGED <<core, index, todo, at, forwarderVars, eventVars>>

Rebuild(t) == List(t) \/ ListRaises(t) \/ \E a \in AccountIds : Fill(t, a) \/ FillSkips(t, a)

-----------------------------------------------------------------------------
(* reconcile_once and ensure_account *)

ReconcileOnce ==
    /\ pc[Pass] = "idle"
    /\ todo' = Roster
    /\ Go(Pass, "ensuring")
    /\ UNCHANGED <<core, index, at, rest, forwarderVars, eventVars, misread,
                   left>>

PassEnds ==
    /\ pc[Pass] = "ensuring" /\ todo = <<>>
    /\ Go(Pass, "idle")
    /\ UNCHANGED <<core, index, todo, at, rest, forwarderVars, eventVars,
                   misread, left>>

\* Slip: whoever is in the index is onboarded.
EnsureKnownSlip ==
    /\ pc[Pass] = "ensuring" /\ todo # <<>>
    /\ index[Head(todo)] # 0
    /\ todo' = Tail(todo)
    /\ UNCHANGED <<core, index, pc, at, rest, forwarderVars, eventVars, misread,
                   left>>

\* The index has an account of the bot's, and the core says it is configured.
EnsureKnown ==
    /\ pc[Pass] = "ensuring" /\ todo # <<>>
    /\ index[Head(todo)] \in configured
    /\ todo' = Tail(todo)
    /\ UNCHANGED <<core, index, pc, at, rest, forwarderVars, eventVars, misread,
                   left>>

\* It has one that is not configured.
EnsureAgain ==
    /\ pc[Pass] = "ensuring" /\ todo # <<>>
    /\ index[Head(todo)] # 0 /\ index[Head(todo)] \notin configured
    /\ at' = index[Head(todo)]
    /\ Go(Pass, "setup")
    /\ UNCHANGED <<core, index, todo, rest, forwarderVars, eventVars, misread,
                   left>>

\* Its configuration cannot be read: the setup is run again.
EnsureMisreads ==
    /\ pc[Pass] = "ensuring" /\ todo # <<>>
    /\ index[Head(todo)] # 0 /\ Misread
    /\ at' = index[Head(todo)]
    /\ Go(Pass, "setup")
    /\ UNCHANGED <<core, index, todo, rest, forwarderVars, eventVars>>

\* The index has none, so add_account makes one, or raises.
AddAccount ==
    /\ pc[Pass] = "ensuring" /\ todo # <<>> /\ index[Head(todo)] = 0
    /\ created < MaxAccounts
    /\ created' = created + 1
    /\ at' = created + 1
    /\ Go(Pass, "setup")
    /\ UNCHANGED <<configured, owner, index, todo, rest, forwarderVars,
                   eventVars, misread, left>>

AddRaises ==
    /\ pc[Pass] = "ensuring" /\ todo # <<>> /\ index[Head(todo)] = 0
    /\ May("refusal")
    /\ todo' = Tail(todo)
    /\ UNCHANGED <<core, index, pc, at, rest, forwarderVars, eventVars, misread>>

\* Slip: the new account is not put into the index.
SetupSlip ==
    /\ pc[Pass] = "setup"
    /\ configured' = configured \cup {at}
    /\ owner' = [owner EXCEPT ![at] = Head(todo)]
    /\ todo' = Tail(todo)
    /\ Go(Pass, "ensuring")
    /\ UNCHANGED <<created, index, at, rest, forwarderVars, eventVars, misread,
                   left>>

\* add_or_update_transport logs in and configures the account.
Setup ==
    /\ pc[Pass] = "setup"
    /\ configured' = configured \cup {at}
    /\ owner' = [owner EXCEPT ![at] = Head(todo)]
    /\ todo' = Tail(todo)
    /\ Go(Pass, "clearing")
    /\ UNCHANGED <<created, index, at, rest, forwarderVars, eventVars, misread,
                   left>>

\* It raises, or the core says that the account is not configured.  The account
\* stays, and may or may not know its address.
SetupRaises ==
    /\ pc[Pass] = "setup" /\ May("refusal")
    /\ owner' \in {owner, [owner EXCEPT ![at] = Head(todo)]}
    /\ todo' = Tail(todo)
    /\ Go(Pass, "ensuring")
    /\ UNCHANGED <<created, configured, index, at, rest, forwarderVars,
                   eventVars, misread>>

Reconcile ==
    \/ ReconcileOnce \/ PassEnds
    \/ EnsureKnown \/ EnsureAgain \/ EnsureMisreads \/ AddAccount \/ AddRaises
    \/ Setup \/ SetupRaises \/ Clear \/ Rebuild(Pass)

-----------------------------------------------------------------------------
(* The event stream: _forward_events, _next_event *)

\* The core queues an event for an account that receives.
Emit(a) ==
    /\ a \in configured /\ May("event")
    /\ emitted' = [emitted EXCEPT ![a] = @ + 1]
    /\ UNCHANGED <<core, index, pc, todo, at, rest, forwarderVars, moved, hand,
                   merged, pumped, misread>>

\* A forwarder of the account that is waiting in wait_for_event.
Waits(a) == running[a] > Cardinality(hand[a])

ForwarderTakes(a) ==
    /\ Waits(a) /\ moved[a] < emitted[a]
    /\ moved' = [moved EXCEPT ![a] = @ + 1]
    /\ hand' = [hand EXCEPT ![a] = @ \cup {moved'[a]}]
    /\ UNCHANGED <<core, index, pc, todo, at, rest, forwarderVars, emitted,
                   merged, pumped, misread, left>>

ForwarderPuts(a) ==
    /\ \E e \in hand[a] :
          /\ merged' = Append(merged, <<a, e>>)
          /\ hand' = [hand EXCEPT ![a] = @ \ {e}]
    /\ UNCHANGED <<core, index, pc, todo, at, rest, forwarderVars, emitted,
                   moved, pumped, misread, left>>

\* Slip: a forwarder that dies keeps its place.
ForwarderDiesSlip(a) ==
    /\ Waits(a) /\ May("death")
    /\ running' = [running EXCEPT ![a] = @ - 1]
    /\ UNCHANGED <<core, index, pc, todo, at, rest, pumping, forwarded, emitted,
                   moved, hand, merged, pumped, misread>>

\* wait_for_event raises: the thread gives its place up and ends.
ForwarderDies(a) ==
    /\ Waits(a) /\ May("death")
    /\ running' = [running EXCEPT ![a] = @ - 1]
    /\ forwarded' = forwarded \ {a}
    /\ UNCHANGED <<core, index, pc, todo, at, rest, pumping, emitted, moved,
                   hand, merged, pumped, misread>>

\* The first _next_event of the pump.
PumpStarts ==
    /\ ~pumping
    /\ pumping' = TRUE
    /\ EnsureForwarders(1..created)
    /\ UNCHANGED <<core, index, pc, todo, at, rest, eventVars, misread, left>>

PumpGets ==
    /\ pumping /\ merged # <<>>
    /\ merged' = Tail(merged)
    /\ pumped' = [pumped EXCEPT ![Head(merged)[1]] = Head(merged)[2]]
    /\ UNCHANGED <<core, index, pc, todo, at, rest, forwarderVars, emitted,
                   moved, hand, misread, left>>

\* Nothing came for a poll interval: forwarders that are missing are started.
PumpIdles ==
    /\ pumping /\ merged = <<>> /\ ~(1..created \subseteq forwarded)
    /\ EnsureForwarders(1..created)
    /\ UNCHANGED <<core, index, pc, todo, at, rest, pumping, eventVars, misread,
                   left>>

Forwarder(a) == ForwarderTakes(a) \/ ForwarderPuts(a)
Pump == PumpStarts \/ PumpGets \/ PumpIdles

Next ==
    \/ Reconcile
    \/ \E c \in Callers : Rebuild(c) \/ \E n \in Names : LookupMisses(c, n)
    \/ \E a \in AccountIds : Emit(a) \/ Forwarder(a) \/ ForwarderDies(a)
    \/ Pump

Spec == Init /\ [][Next]_vars

\* A thread that began a rebuild goes on with it; reconciler_loop comes round again
\* whatever a pass raised; forwarders and the pump are threads that loop for ever.
\* No name has to be looked up, and no forwarder dies unless the core fails it.
Fairness ==
    /\ WF_vars(Reconcile)
    /\ \A c \in Callers : WF_vars(Rebuild(c))
    /\ \A a \in AccountIds : WF_vars(Forwarder(a))
    /\ WF_vars(Pump)

FairSpec == Spec /\ Fairness
-----------------------------------------------------------------------------
\* Every variable has its type; entries of the index and the accounts threads are
\* about to read exist (relay.py:507).
TypeOK ==
    /\ created \in 0..MaxAccounts
    /\ configured \subseteq 1..created
    /\ owner \in [AccountIds -> Bots \cup {Nobody}]
    /\ \A a \in configured : owner[a] # Nobody
    /\ index \in [Names -> 0..created]
    /\ pc \in [Threads -> {"idle", "ensuring", "setup", "clearing", "listing", "filling"}]
    /\ todo \in Seq(Bots)
    /\ pc[Pass] = "setup" => todo # <<>> /\ at \in 1..created
    /\ at \in 0..created
    /\ rest \in [Threads -> SUBSET (1..created)]
    /\ pumping \in BOOLEAN /\ forwarded \subseteq 1..created
    /\ running \in [AccountIds -> Nat]
    /\ emitted \in [AccountIds -> Nat] /\ moved \in [AccountIds -> Nat]
    /\ hand \in [AccountIds -> SUBSET Nat]
    /\ merged \in Seq(AccountIds \X Nat)
    /\ pumped \in [AccountIds -> Nat]
    /\ misread \in BOOLEAN /\ left \in [Kinds -> Nat]

Rebuilding(t) == pc[t] \in {"clearing", "listing", "filling"}

\* When no thread is rebuilding the index, it has an account for every bot that is
\* onboarded, however the rebuilds of several threads cleared and filled it over
\* one another: none of them leaves a hole behind, unless the core failed a read
\* (relay.py:502).
IndexComplete ==
    (~misread /\ \A t \in Threads : ~Rebuilding(t)) =>
        \A a \in configured : index[owner[a]] # 0

\* An entry of the index is an account with that bot's address: a bot never sends
\* from another one's account, although accounts are configured while threads read
\* them in (relay.py:516).
IndexTrue == \A n \in Names : index[n] # 0 => owner[index[n]] = n

\* The pump gets the events of an account each once and in the core's order, although
\* the pump and several rebuilds start forwarders and dying ones are replaced
\* (relay.py:834).
EventsInOrder ==
    [][\A a \in AccountIds : pumped'[a] # pumped[a] => pumped'[a] = pumped[a] + 1]_vars

\* Every event gets to the pump, which catches up with the core again and again: an
\* account that is onboarded while the stream runs gets a forwarder, and so does one
\* whose forwarder died (relay.py:834).
EventsArrive == \A a \in AccountIds : []<>(pumped[a] = emitted[a])

Onboarded(b) == \E a \in configured : owner[a] = b

\* Every bot of the roster is onboarded for good, and found, again and again: setups that
\* raise, reads that raise and rebuilds by others only delay it (relay.py:1166).
BotsComeUp ==
    \A b \in Bots : <>[]Onboarded(b) /\ []<>(index[b] # 0)
=============================================================================
