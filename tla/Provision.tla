----------------------------- MODULE Provision -----------------------------
(***************************************************************************)
(* How one realm gets its group chat (src/app/main.py): the reconcile pass *)
(* onboards the accounts, has every member securejoin the lead, and then   *)
(* creates or completes the channel; a verified event adds the member it   *)
(* reports.  The pass and the events run in threads of their own and take  *)
(* no lock; a step is what a thread does between calls to the core.        *)
(*                                                                         *)
(* Realms have members, names and channels of their own, so one of them    *)
(* is enough.  A channel is named after the thread that created it.        *)
(*                                                                         *)
(* A name that ends in Slip is a plausible mistake in the definition that  *)
(* follows it; the specification never uses it.                            *)
(***************************************************************************)
EXTENDS Naturals, Sequences, FiniteSets, SequencesExt

CONSTANTS
    Lead,          \* the realm's lead
    Bots,          \* its other members in the roster, sorted
    Externals,     \* its members with an account of their own (and an invite), in roster order
    Pass,          \* the thread of the reconcile pass
    MaxFailures,   \* bound on calls to the core that fail for no lasting reason
    MaxRestarts    \* bound on restarts

Members == ToSet(Bots) \cup ToSet(Externals)
Accounts == {Lead} \cup ToSet(Bots)
Threads == {Pass} \cup Members      \* a verified event is named after its member

ASSUME MembersAssumption ==
    /\ IsInjective(Bots) /\ IsInjective(Externals)
    /\ ToSet(Bots) \cap ToSet(Externals) = {}
    /\ {Lead, Pass} \cap Members = {}
ASSUME BoundsAssumption == MaxFailures \in Nat /\ MaxRestarts \in Nat

VARIABLES
    onboarded,   \* accounts the core has
    joined,      \* members who began a handshake with the lead
    verified,    \* members who are key-contacts of the lead (in the core)
    channel,     \* the lead's group chats with the realm's name: their members
    pc,          \* per thread
    todo,        \* per thread: the members it still has to deal with, in Order
    target,      \* per thread: the channel it adds to, a set of at most one
    failures, restarts

core == <<onboarded, joined, verified, channel>>
vars == <<onboarded, joined, verified, channel, pc, todo, target, failures, restarts>>

InChannel(m) == \E c \in DOMAIN channel : m \in channel[c]

\* desired_channels lists the bots first; threads deal with members in that order.
Order == Bots \o Externals
Precedes(k, m) == \E i, j \in DOMAIN Order : i < j /\ Order[i] = k /\ Order[j] = m
IsNext(m, t) == m \in todo[t] /\ \A k \in todo[t] : ~Precedes(k, m)

Init ==
    /\ onboarded = {} /\ joined = {} /\ verified = {}
    /\ channel = [c \in {} |-> {}]
    /\ pc = [t \in Threads |-> IF t = Pass THEN "idle" ELSE "none"]
    /\ todo = [t \in Threads |-> {}]
    /\ target = [t \in Threads |-> {}]
    /\ failures = 0 /\ restarts = 0

\* Thread t is through, or gave up.
Leave(t, result) ==
    /\ pc' = [pc EXCEPT ![t] = IF t = Pass THEN "idle" ELSE result]
    /\ todo' = [todo EXCEPT ![t] = {}]
    /\ target' = [target EXCEPT ![t] = {}]

-----------------------------------------------------------------------------
(* reconcile_once, securejoin_star *)

\* Every account the core has not got yet is tried; some of the logins succeed.
ReconcileOnce ==
    /\ pc[Pass] = "idle"
    /\ \E S \in SUBSET Accounts : onboarded' = onboarded \cup S
    /\ pc' = [pc EXCEPT ![Pass] = IF Lead \in onboarded' THEN "star" ELSE "idle"]
    /\ todo' = [todo EXCEPT ![Pass] = Members]
    /\ UNCHANGED <<joined, verified, channel, target, failures, restarts>>

\* Slip: a member that is not onboarded ends the star.
StarMemberSlip ==
    /\ pc[Pass] = "star"
    /\ \E m \in Members :
          /\ IsNext(m, Pass)
          /\ IF m \in onboarded \cup verified
             THEN joined' = joined \cup {m} /\ todo' = [todo EXCEPT ![Pass] = @ \ {m}]
             ELSE todo' = [todo EXCEPT ![Pass] = {}] /\ UNCHANGED joined
    /\ UNCHANGED <<onboarded, verified, channel, pc, target, failures, restarts>>

\* The next member accepts the lead's invite, or, if external, has the lead accept
\* its own.  Who is verified, or has no account yet, is passed over.
StarMember ==
    /\ pc[Pass] = "star"
    /\ \E m \in Members :
          /\ IsNext(m, Pass)
          /\ joined' = IF m \in verified \/ m \in ToSet(Bots) \ onboarded THEN joined
                       ELSE joined \cup {m}
          /\ todo' = [todo EXCEPT ![Pass] = @ \ {m}]
    /\ UNCHANGED <<onboarded, verified, channel, pc, target, failures, restarts>>

\* The handshake cannot be started: logged, and on to the next member.
StarFails ==
    /\ pc[Pass] = "star" /\ failures < MaxFailures
    /\ \E m \in Members :
          IsNext(m, Pass) /\ todo' = [todo EXCEPT ![Pass] = @ \ {m}]
    /\ failures' = failures + 1
    /\ UNCHANGED <<core, pc, target, restarts>>

\* The lead is not in the account index, which another thread is refilling: the
\* realm is left out of this star.
StarSkips ==
    /\ pc[Pass] = "star" /\ todo[Pass] = Members /\ failures < MaxFailures
    /\ failures' = failures + 1
    /\ todo' = [todo EXCEPT ![Pass] = {}]
    /\ UNCHANGED <<core, pc, target, restarts>>

StarEnds ==
    /\ pc[Pass] = "star" /\ todo[Pass] = {}
    /\ pc' = [pc EXCEPT ![Pass] = "listing"]
    /\ UNCHANGED <<core, todo, target, failures, restarts>>

-----------------------------------------------------------------------------
(* provision_channels by the pass, provision_verified_member by an event *)

Wanted(t) == IF t = Pass THEN ToSet(Bots) ELSE {t}

\* Slip: an existing channel is completed with the members it was created for.
WantedThereSlip(t) == Wanted(t)

WantedThere(t) == IF t = Pass THEN Members ELSE {t}

\* list_channels found none, and one is created: with the bots, whoever of them is
\* verified, or with the member the event reported.
ListFindsNone(t) ==
    /\ pc[t] = "listing" /\ channel = [c \in {} |-> {}]
    /\ pc' = [pc EXCEPT ![t] = "creating"]
    /\ UNCHANGED <<core, todo, target, failures, restarts>>

\* The first match in the core's order, whichever that is, with its members as
\* they are now.
ListFinds(t) ==
    /\ pc[t] = "listing"
    /\ \E c \in DOMAIN channel :
          /\ target' = [target EXCEPT ![t] = {c}]
          /\ todo' = [todo EXCEPT ![t] = WantedThere(t) \ channel[c]]
    /\ pc' = [pc EXCEPT ![t] = "adding"]
    /\ UNCHANGED <<core, failures, restarts>>

\* Slip: an event creates the channel with all the realm's bots.
CreateSlip(t) ==
    /\ pc[t] = "creating"
    /\ channel' = [c \in DOMAIN channel \cup {t} |-> IF c = t THEN {} ELSE channel[c]]
    /\ target' = [target EXCEPT ![t] = {t}]
    /\ todo' = [todo EXCEPT ![t] = ToSet(Bots)]
    /\ pc' = [pc EXCEPT ![t] = "adding"]
    /\ UNCHANGED <<onboarded, joined, verified, failures, restarts>>

\* create_channel makes an empty group, then adds its members one by one.
Create(t) ==
    /\ pc[t] = "creating"
    /\ channel' = [c \in DOMAIN channel \cup {t} |-> IF c = t THEN {} ELSE channel[c]]
    /\ target' = [target EXCEPT ![t] = {t}]
    /\ todo' = [todo EXCEPT ![t] = Wanted(t)]
    /\ pc' = [pc EXCEPT ![t] = "adding"]
    /\ UNCHANGED <<onboarded, joined, verified, failures, restarts>>

\* Slip: an address-contact is made for a member who is no key-contact.
AddSlip(t) ==
    /\ pc[t] = "adding"
    /\ \E m \in Members :
          /\ IsNext(m, t)
          /\ channel' = [c \in DOMAIN channel |->
                            IF c \in target[t] THEN channel[c] \cup {m} ELSE channel[c]]
          /\ todo' = [todo EXCEPT ![t] = @ \ {m}]
    /\ UNCHANGED <<onboarded, joined, verified, pc, target, failures, restarts>>

\* A key-contact is added to the group.
Add(t) ==
    /\ pc[t] = "adding"
    /\ \E m \in verified :
          /\ IsNext(m, t)
          /\ channel' = [c \in DOMAIN channel |->
                            IF c \in target[t] THEN channel[c] \cup {m} ELSE channel[c]]
          /\ todo' = [todo EXCEPT ![t] = @ \ {m}]
    /\ UNCHANGED <<onboarded, joined, verified, pc, target, failures, restarts>>

\* The pass asks first whether an external member is verified.
PassedOver(m, t) == t = Pass /\ m \in ToSet(Externals)

AddPasses(t) ==
    /\ pc[t] = "adding"
    /\ \E m \in Members \ verified :
          IsNext(m, t) /\ PassedOver(m, t) /\ todo' = [todo EXCEPT ![t] = @ \ {m}]
    /\ UNCHANGED <<core, pc, target, failures, restarts>>

\* _resolve_contact raises for a bot that is no key-contact: the thread gives the
\* realm up for now, and the members after this one with it.
AddRaises(t) ==
    /\ pc[t] = "adding"
    /\ \E m \in Members \ verified : IsNext(m, t) /\ ~PassedOver(m, t)
    /\ Leave(t, "refused")
    /\ UNCHANGED <<core, failures, restarts>>

\* A call to the core raises for some other reason, or the lead is not in the account
\* index, which another thread is refilling: an event is then dropped.
CoreFails(t) ==
    /\ pc[t] \in {"listing", "creating", "adding"} /\ failures < MaxFailures
    /\ failures' = failures + 1
    /\ Leave(t, "failed")
    /\ UNCHANGED <<core, restarts>>

ProvisionEnds(t) ==
    /\ pc[t] = "adding" /\ todo[t] = {}
    /\ Leave(t, "done")
    /\ UNCHANGED <<core, failures, restarts>>

Provision(t) ==
    \/ ListFindsNone(t) \/ ListFinds(t) \/ Create(t) \/ Add(t) \/ AddPasses(t)
    \/ AddRaises(t) \/ CoreFails(t) \/ ProvisionEnds(t)

-----------------------------------------------------------------------------
\* The core completes a handshake, and its event is on its way to its thread.
Verify(m) ==
    /\ m \in joined \ verified
    /\ verified' = verified \cup {m}
    /\ pc' = [pc EXCEPT ![m] = "listing"]
    /\ UNCHANGED <<onboarded, joined, channel, todo, target, failures, restarts>>

\* The process dies and starts again.  The core keeps accounts, contacts and
\* channels; an event that was not dealt with does not come again.
Restart ==
    /\ restarts < MaxRestarts
    /\ restarts' = restarts + 1
    /\ pc' = [t \in Threads |->
                 IF t = Pass THEN "idle"
                 ELSE IF pc[t] \in {"listing", "creating", "adding"} THEN "missed" ELSE pc[t]]
    /\ todo' = [t \in Threads |-> {}]
    /\ target' = [t \in Threads |-> {}]
    /\ UNCHANGED <<core, failures>>

Star == StarMember \/ StarFails \/ StarSkips \/ StarEnds

Next == \/ ReconcileOnce \/ Star
        \/ \E t \in Threads : Provision(t)
        \/ \E m \in Members : Verify(m)
        \/ Restart

Spec == Init /\ [][Next]_vars

\* The reconcile loop comes round again whatever a pass came to, and threads run.
\* No login has to succeed, no handshake to complete, nothing to restart or fail.
Step(t) == Provision(t) \/ (t = Pass /\ (ReconcileOnce \/ Star))
FairSpec == Spec /\ \A t \in Threads : WF_vars(Step(t))

-----------------------------------------------------------------------------
\* What the variables hold; only key-contacts are in a channel, and only members
\* who were verified were reported.
TypeOK ==
    /\ onboarded \subseteq Accounts
    /\ joined \subseteq Members /\ verified \subseteq joined
    /\ DOMAIN channel \subseteq Threads
    /\ \A c \in DOMAIN channel : channel[c] \subseteq verified
    /\ pc \in [Threads -> {"none", "idle", "star", "listing", "creating", "adding",
                           "done", "refused", "failed", "missed"}]
    /\ \A m \in Members : pc[m] # "none" <=> m \in verified
    /\ \A t \in Threads :
          /\ todo[t] \subseteq Members
          /\ target[t] \subseteq DOMAIN channel
          /\ pc[t] = "adding" <=> target[t] # {}
    /\ failures \in 0..MaxFailures
    /\ restarts \in 0..MaxRestarts

\* A member whose event was dealt with is in a channel, and no event is refused for a
\* member who is no key-contact.  A thread that deals with a channel has, of those it
\* wants there, only the ones to come left out, whoever else adds or creates meanwhile:
\* a pass that comes to the end of it leaves it with all the bots (main.py 313).
EndsComplete ==
    /\ \A m \in Members : pc[m] # "refused" /\ (pc[m] = "done" => InChannel(m))
    /\ \A t \in Threads : \A c \in target[t] : Wanted(t) \subseteq channel[c] \cup todo[t]

\* The event of a member brings that member into a channel, whatever the pass and
\* other events do meanwhile, and whoever else is not verified (main.py 430).
EventProvisions ==
    \A m \in Members :
        (pc[m] = "listing") ~> (InChannel(m) \/ pc[m] \in {"failed", "missed"})

\* Every member that can, begins its handshake with an onboarded lead, in spite of
\* members that cannot, and of handshakes that fail to start (main.py 337).
StarReachesAll ==
    \A m \in Members :
        (Lead \in onboarded /\ m \in onboarded \cup ToSet(Externals)) ~> (m \in joined)

Before(m) == {b \in ToSet(Bots) : Precedes(b, m)}

\* The passes bring in whom no event did, once the bots listed before it are
\* verified (main.py 715).
PassCatchesUp ==
    \A m \in Members :
        ({m} \cup Before(m) \subseteq verified) ~> InChannel(m)

-----------------------------------------------------------------------------
(* What the code's comments and docstrings claim, and the code does not do.  *)

\* main.py 715-717: provision_channels is "the idempotent catch-up for members
\* ALREADY verified from persisted state (e.g. after a restart, when no new event
\* will fire for an already-verified contact)".
VerifiedAreCaughtUp == \A m \in Members : (m \in verified) ~> InChannel(m)
=============================================================================
