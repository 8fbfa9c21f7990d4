-------------------------- MODULE ProvisionProofs --------------------------
(***************************************************************************)
(* Theorems about Provision for any lead, members, failures and restarts.  *)
(***************************************************************************)
EXTENDS Provision, TLAPS

States == {"none", "idle", "star", "listing", "creating", "adding", "done", "refused",
           "failed", "missed"}

CoreType ==
    /\ onboarded \subseteq Accounts
    /\ joined \subseteq Members /\ verified \subseteq joined

ChannelType ==
    /\ DOMAIN channel \subseteq Threads
    /\ \A c \in DOMAIN channel : channel[c] \subseteq verified

ThreadType ==
    /\ pc \in [Threads -> States]
    /\ todo \in [Threads -> SUBSET Members]
    /\ target \in [Threads -> SUBSET DOMAIN channel]
    /\ \A m \in Members : pc[m] # "none" <=> m \in verified
    /\ \A t \in Threads : pc[t] = "adding" <=> target[t] # {}
    /\ pc[Pass] # "none"

BoundType == failures \in 0..MaxFailures /\ restarts \in 0..MaxRestarts

Types == CoreType /\ ChannelType /\ ThreadType /\ BoundType
-----------------------------------------------------------------------------
LEMMA ThreadFacts ==
    /\ Pass \in Threads /\ Pass \notin Members /\ Members \subseteq Threads
    /\ ToSet(Bots) \subseteq Members
    /\ \A t \in Threads : t # Pass => t \in Members
  BY MembersAssumption DEF Threads, Members

LEMMA InitTypes == Init => Types
  <1> SUFFICES ASSUME Init PROVE Types
    OBVIOUS
  <1>1. CoreType /\ ChannelType /\ BoundType
    BY BoundsAssumption DEF Init, CoreType, ChannelType, BoundType
  <1>2. ThreadType
    BY ThreadFacts DEF Init, ThreadType, States
  <1> QED
    BY <1>1, <1>2 DEF Types

\* A thread that leaves holds no channel.
LEMMA LeaveType ==
    ASSUME Types, NEW t \in Threads, pc[t] \in {"listing", "creating", "adding"},
           NEW r \in {"done", "refused", "failed"}, Leave(t, r), UNCHANGED core
    PROVE  ThreadType'
  <1> USE DEF core
  <1>1. /\ pc' \in [Threads -> States] /\ todo' \in [Threads -> SUBSET Members]
        /\ target' \in [Threads -> SUBSET DOMAIN channel]
    BY DEF Leave, Types, ThreadType, States
  <1>2. /\ pc'[t] \notin {"none", "adding"} /\ target'[t] = {}
        /\ \A u \in Threads : u # t => pc'[u] = pc[u] /\ target'[u] = target[u]
    BY DEF Leave, Types, ThreadType
  <1> QED
    BY <1>1, <1>2, ThreadFacts DEF Types, ThreadType

LEMMA StarTypes ==
    ASSUME Types, ReconcileOnce \/ Star
    PROVE  Types'
  <1> USE DEF core
  <1>1. Pass \in Threads /\ pc[Pass] \in {"idle", "star"} /\ target[Pass] = {}
    BY ThreadFacts
       DEF ReconcileOnce, Star, StarMember, StarFails, StarSkips, StarEnds, Types, ThreadType
  <1>2. /\ target' = target /\ channel' = channel /\ verified' = verified
        /\ todo' \in [Threads -> SUBSET Members] /\ joined \subseteq joined'
        /\ joined' \subseteq Members /\ onboarded' \subseteq Accounts
    BY <1>1 DEF ReconcileOnce, Star, StarMember, StarFails, StarSkips, StarEnds, Types,
                CoreType, ThreadType
  <1>3. /\ pc'[Pass] \in {"idle", "star", "listing"} /\ pc' \in [Threads -> States]
        /\ \A u \in Threads : u # Pass => pc'[u] = pc[u]
    BY <1>1 DEF ReconcileOnce, Star, StarMember, StarFails, StarSkips, StarEnds, Types,
                ThreadType, States
  <1>4. ThreadType'
    BY <1>1, <1>2, <1>3, ThreadFacts DEF Types, ThreadType
  <1>5. CoreType' /\ ChannelType'
    BY <1>2 DEF Types, CoreType, ChannelType
  <1>6. BoundType'
    BY BoundsAssumption
       DEF ReconcileOnce, Star, StarMember, StarFails, StarSkips, StarEnds, Types, BoundType
  <1> QED
    BY <1>4, <1>5, <1>6 DEF Types

LEMMA ProvisionTypes ==
    ASSUME Types, NEW t \in Threads, Provision(t)
    PROVE  Types'
  <1> USE DEF core
  <1>1. CASE ListFindsNone(t) \/ ListFinds(t)
    <2>1. /\ pc' \in [Threads -> States] /\ todo' \in [Threads -> SUBSET Members]
          /\ target' \in [Threads -> SUBSET DOMAIN channel]
      <3>1. t # Pass => {t} \subseteq Members
        BY ThreadFacts
      <3>2. WantedThere(t) \subseteq Members
        BY <3>1 DEF WantedThere
      <3> QED
        BY <1>1, <3>2 DEF ListFindsNone, ListFinds, Types, ThreadType, States
    <2>2. /\ pc[t] = "listing" /\ pc'[t] \in {"creating", "adding"}
          /\ pc'[t] = "adding" <=> target'[t] # {}
          /\ \A u \in Threads : u # t => pc'[u] = pc[u] /\ target'[u] = target[u]
      BY <1>1 DEF ListFindsNone, ListFinds, Types, ThreadType
    <2>3. ThreadType'
      BY <1>1, <2>1, <2>2, ThreadFacts DEF ListFindsNone, ListFinds, Types, ThreadType
    <2> QED
      BY <1>1, <2>3
         DEF ListFindsNone, ListFinds, Types, CoreType, ChannelType, BoundType
  <1>2. CASE Create(t)
    <2>1. /\ DOMAIN channel' = DOMAIN channel \cup {t} /\ channel'[t] = {}
          /\ \A c \in DOMAIN channel : c # t => channel'[c] = channel[c]
          /\ UNCHANGED <<onboarded, joined, verified, failures, restarts>>
      BY <1>2 DEF Create
    <2>2. ChannelType'
      BY <2>1 DEF Types, ChannelType
    <2>3. Wanted(t) \subseteq Members
      BY ThreadFacts DEF Wanted
    <2>4. /\ pc' \in [Threads -> States] /\ todo' \in [Threads -> SUBSET Members]
          /\ target' \in [Threads -> SUBSET DOMAIN channel']
      BY <1>2, <2>1, <2>3 DEF Create, Types, ThreadType, States
    <2>5. /\ pc[t] = "creating" /\ pc'[t] = "adding" /\ target'[t] # {}
          /\ \A u \in Threads : u # t => pc'[u] = pc[u] /\ target'[u] = target[u]
      BY <1>2 DEF Create, Types, ThreadType
    <2>6. ThreadType'
      BY <2>1, <2>4, <2>5, ThreadFacts DEF Types, ThreadType
    <2> QED
      BY <2>1, <2>2, <2>6 DEF Types, CoreType, BoundType
  <1>3. CASE Add(t)
    <2>1. PICK m \in verified :
             /\ channel' = [c \in DOMAIN channel |->
                               IF c \in target[t] THEN channel[c] \cup {m} ELSE channel[c]]
             /\ todo' = [todo EXCEPT ![t] = todo[t] \ {m}]
      BY <1>3 DEF Add
    <2>2. UNCHANGED <<onboarded, joined, verified, pc, target, failures, restarts>>
      BY <1>3 DEF Add
    <2>3. ChannelType' /\ DOMAIN channel' = DOMAIN channel
      BY <2>1, <2>2 DEF Types, ChannelType
    <2>4. ThreadType'
      BY <2>1, <2>2, <2>3 DEF Types, ThreadType
    <2> QED
      BY <2>2, <2>3, <2>4 DEF Types, CoreType, BoundType
  <1>4. CASE AddPasses(t)
    <2>1. /\ UNCHANGED <<onboarded, joined, verified, channel, pc, target, failures, restarts>>
          /\ todo' \in [Threads -> SUBSET Members]
      BY <1>4 DEF AddPasses, Types, ThreadType
    <2> QED
      BY <2>1 DEF Types, CoreType, ChannelType, ThreadType, BoundType
  <1>5. CASE AddRaises(t) \/ CoreFails(t) \/ ProvisionEnds(t)
    <2>1. /\ pc[t] \in {"listing", "creating", "adding"} /\ UNCHANGED core
          /\ Leave(t, "refused") \/ Leave(t, "failed") \/ Leave(t, "done")
      BY <1>5 DEF AddRaises, CoreFails, ProvisionEnds
    <2>2. ThreadType'
      BY <2>1, LeaveType
    <2>3. BoundType'
      BY <1>5, BoundsAssumption DEF AddRaises, CoreFails, ProvisionEnds, Types, BoundType
    <2> QED
      BY <2>1, <2>2, <2>3 DEF Types, CoreType, ChannelType
  <1> QED
    BY <1>1, <1>2, <1>3, <1>4, <1>5 DEF Provision

LEMMA VerifyTypes ==
    ASSUME Types, NEW m \in Members, Verify(m)
    PROVE  Types'
  <1>1. /\ verified' = verified \cup {m} /\ m \in joined /\ m \notin verified
        /\ UNCHANGED <<onboarded, joined, channel, todo, target, failures, restarts>>
        /\ m \in Threads
    BY ThreadFacts DEF Verify
  <1>2. pc[m] = "none" /\ target[m] = {}
    BY <1>1 DEF Types, ThreadType
  <1>3. /\ pc' \in [Threads -> States] /\ pc'[m] = "listing"
        /\ \A u \in Threads : u # m => pc'[u] = pc[u]
    BY <1>1 DEF Verify, Types, ThreadType, States
  <1>4. ThreadType'
    BY <1>1, <1>2, <1>3, ThreadFacts DEF Types, ThreadType
  <1> QED
    BY <1>1, <1>4 DEF Types, CoreType, ChannelType, BoundType

LEMMA RestartTypes ==
    ASSUME Types, Restart
    PROVE  Types'
  <1>1. UNCHANGED <<onboarded, joined, verified, channel, failures>>
    BY DEF Restart, core
  <1>2. /\ pc' \in [Threads -> States] /\ todo' \in [Threads -> SUBSET Members]
        /\ target' \in [Threads -> SUBSET DOMAIN channel]
        /\ pc'[Pass] = "idle" /\ \A t \in Threads : target'[t] = {} /\ pc'[t] # "adding"
        /\ \A m \in Members : pc'[m] = "none" <=> pc[m] = "none"
    BY ThreadFacts DEF Restart, Types, ThreadType, States
  <1>3. ThreadType'
    BY <1>1, <1>2 DEF Types, ThreadType
  <1>4. BoundType'
    BY BoundsAssumption DEF Restart, Types, BoundType
  <1> QED
    BY <1>1, <1>3, <1>4 DEF Types, CoreType, ChannelType

LEMMA TypesStep == Types /\ [Next]_vars => Types'
  <1> SUFFICES ASSUME Types, [Next]_vars PROVE Types'
    OBVIOUS
  <1>1. CASE UNCHANGED vars
    BY <1>1 DEF vars, Types, CoreType, ChannelType, ThreadType, BoundType
  <1> QED
    BY <1>1, StarTypes, ProvisionTypes, VerifyTypes, RestartTypes DEF Next

\* The type invariant, for any realm: only key-contacts of the lead are in a channel
\* (relay.py 1046-1069), and who was reported as verified has begun a handshake.
THEOREM TypeCorrect == Spec => []TypeOK
  <1>1. Types => TypeOK
    BY DEF Types, CoreType, ChannelType, ThreadType, BoundType, TypeOK, States
  <1> QED
    BY <1>1, InitTypes, TypesStep, PTL DEF Spec

-----------------------------------------------------------------------------
(* What a thread that is through leaves behind *)

\* An event has its own member in hand only; no thread is about to make a channel under
\* a name there is; and what EndsComplete says.
EndsInv ==
    /\ \A m \in Members : todo[m] \subseteq {m}
    /\ \A t \in Threads : pc[t] = "creating" => t \notin DOMAIN channel
    /\ EndsComplete

\* A step that leaves the threads where they are, and takes nobody out of a channel.
LEMMA EndsKept ==
    ASSUME EndsInv, DOMAIN channel' = DOMAIN channel,
           \A c \in DOMAIN channel : channel[c] \subseteq channel'[c],
           NEW T \in SUBSET Threads,
           \A t \in T : /\ pc'[t] = pc[t] /\ target'[t] = target[t] /\ todo'[t] = todo[t]
                        /\ target[t] \subseteq DOMAIN channel
    PROVE  /\ \A m \in Members \cap T : /\ todo'[m] \subseteq {m} /\ pc'[m] # "refused"
                                        /\ pc'[m] = "done" => InChannel(m)'
           /\ \A t \in T : pc'[t] = "creating" => t \notin DOMAIN channel'
           /\ \A t \in T : \A c \in target'[t] : Wanted(t) \subseteq channel'[c] \cup todo'[t]
  <1>1. \A m \in Members \cap T : /\ todo'[m] \subseteq {m} /\ pc'[m] # "refused"
                                  /\ pc'[m] = "done" => InChannel(m)'
    BY DEF EndsInv, EndsComplete, InChannel
  <1>2. \A t \in T : pc'[t] = "creating" => t \notin DOMAIN channel'
    BY DEF EndsInv
  <1>3. \A t \in T : \A c \in target'[t] : Wanted(t) \subseteq channel'[c] \cup todo'[t]
    BY DEF EndsInv, EndsComplete
  <1> QED
    BY <1>1, <1>2, <1>3

\* The star has no channel in hand.
LEMMA EndsStar ==
    ASSUME Types, EndsInv, ReconcileOnce \/ Star
    PROVE  EndsInv'
  <1> USE DEF core
  <1>1. /\ pc[Pass] \in {"idle", "star"} /\ target[Pass] = {}
        /\ UNCHANGED <<channel, target>>
        /\ pc'[Pass] \in {"idle", "star", "listing"}
        /\ \A u \in Threads : u # Pass => pc'[u] = pc[u] /\ todo'[u] = todo[u]
    BY ThreadFacts
       DEF ReconcileOnce, Star, StarMember, StarFails, StarSkips, StarEnds, Types, ThreadType,
           States
  <1>2. \A t \in Threads : target[t] \subseteq DOMAIN channel
    BY DEF Types, ThreadType
  <1>3. /\ \A m \in Members : /\ todo'[m] \subseteq {m} /\ pc'[m] # "refused"
                              /\ pc'[m] = "done" => InChannel(m)'
        /\ \A t \in Threads \ {Pass} : pc'[t] = "creating" => t \notin DOMAIN channel'
        /\ \A t \in Threads \ {Pass} : \A c \in target'[t] :
              Wanted(t) \subseteq channel'[c] \cup todo'[t]
    <2>1. /\ Threads \ {Pass} \in SUBSET Threads
          /\ Members \cap (Threads \ {Pass}) = Members
      BY ThreadFacts
    <2>2. \A t \in Threads \ {Pass} : /\ pc'[t] = pc[t] /\ target'[t] = target[t]
                                      /\ todo'[t] = todo[t] /\ target[t] \subseteq DOMAIN channel
      BY <1>1, <1>2
    <2> QED
      BY <1>1, <2>1, <2>2, EndsKept
  <1> QED
    BY <1>1, <1>3 DEF EndsInv, EndsComplete

\* What a thread that provisions does to itself; the others are as they were.
LEMMA EndsProvision ==
    ASSUME Types, EndsInv, NEW t \in Threads, Provision(t)
    PROVE  EndsInv'
  <1> USE DEF core
  <1>a. /\ \A m \in Members : m \in Threads /\ m # Pass /\ Wanted(m) = {m} /\ WantedThere(m) = {m}
        /\ Wanted(Pass) = ToSet(Bots) /\ ToSet(Bots) \subseteq WantedThere(Pass)
        /\ t # Pass => t \in Members
    BY ThreadFacts DEF Wanted, WantedThere
  <1>b. /\ pc \in [Threads -> States] /\ todo \in [Threads -> SUBSET Members]
        /\ target \in [Threads -> SUBSET DOMAIN channel]
        /\ \A m \in Members : pc[m] # "none" => m \in verified
        /\ \A u \in Threads : pc[u] = "adding" <=> target[u] # {}
    BY DEF Types, ThreadType
  <1>c. \A u \in Threads : u # t => /\ pc'[u] = pc[u] /\ target'[u] = target[u]
                                    /\ todo'[u] = todo[u] /\ target[u] \subseteq DOMAIN channel
    BY <1>b DEF Provision, ListFindsNone, ListFinds, Create, Add, AddPasses, AddRaises,
                CoreFails, ProvisionEnds, Leave
  <1> DEFINE Mine == /\ t \in Members => todo'[t] \subseteq {t} /\ pc'[t] # "refused"
                     /\ t \in Members /\ pc'[t] = "done" => InChannel(t)'
                     /\ pc'[t] = "creating" => t \notin DOMAIN channel'
                     /\ \A c \in target'[t] : Wanted(t) \subseteq channel'[c] \cup todo'[t]
             Grows == /\ DOMAIN channel' = DOMAIN channel
                      /\ \A c \in DOMAIN channel : channel[c] \subseteq channel'[c]
  <1>d. ASSUME Grows, Mine PROVE EndsInv'
    <2>1. /\ \A m \in Members \cap (Threads \ {t}) :
                /\ todo'[m] \subseteq {m} /\ pc'[m] # "refused"
                /\ pc'[m] = "done" => InChannel(m)'
          /\ \A u \in Threads \ {t} : pc'[u] = "creating" => u \notin DOMAIN channel'
          /\ \A u \in Threads \ {t} : \A c \in target'[u] :
                Wanted(u) \subseteq channel'[c] \cup todo'[u]
      <3> DEFINE T == Threads \ {t}
      <3>1. T \in SUBSET Threads
        OBVIOUS
      <3>2. \A u \in T : /\ pc'[u] = pc[u] /\ target'[u] = target[u] /\ todo'[u] = todo[u]
                         /\ target[u] \subseteq DOMAIN channel
        BY <1>c
      <3>3. /\ DOMAIN channel' = DOMAIN channel
            /\ \A c \in DOMAIN channel : channel[c] \subseteq channel'[c]
        BY <1>d
      <3> HIDE DEF T, Mine, Grows
      <3>4. /\ \A m \in Members \cap T : /\ todo'[m] \subseteq {m} /\ pc'[m] # "refused"
                                         /\ pc'[m] = "done" => InChannel(m)'
            /\ \A u \in T : pc'[u] = "creating" => u \notin DOMAIN channel'
            /\ \A u \in T : \A c \in target'[u] :
                  Wanted(u) \subseteq channel'[c] \cup todo'[u]
        BY <3>1, <3>2, <3>3, EndsKept
      <3> QED
        BY <3>4 DEF T
    <2> QED
      BY <1>d, <1>a, <2>1 DEF EndsInv, EndsComplete
  <1>1. CASE ListFindsNone(t)
    <2>1. Grows
      BY <1>1 DEF ListFindsNone
    <2>2. /\ channel' = channel /\ DOMAIN channel = {} /\ pc'[t] = "creating"
          /\ todo' = todo /\ target' = target
      BY <1>1, <1>b DEF ListFindsNone
    <2>3. Mine
      BY <2>2, <1>b DEF EndsInv
    <2> QED
      BY <2>1, <2>3, <1>d
  <1>2. CASE ListFinds(t)
    <2>1. PICK c \in DOMAIN channel :
             target'[t] = {c} /\ todo'[t] = WantedThere(t) \ channel[c]
      BY <1>2, <1>b DEF ListFinds
    <2>2. channel' = channel /\ pc'[t] = "adding"
      BY <1>2, <1>b DEF ListFinds
    <2>3. Wanted(t) \subseteq WantedThere(t)
      BY <1>a
    <2>4. Mine
      BY <2>1, <2>2, <2>3, <1>a
    <2> QED
      BY <2>2, <2>4, <1>d
  <1>3. CASE Create(t)
    <2>1. /\ t \notin DOMAIN channel /\ DOMAIN channel' = DOMAIN channel \cup {t}
          /\ \A c \in DOMAIN channel : channel'[c] = channel[c]
          /\ pc[t] = "creating" /\ pc'[t] = "adding" /\ todo'[t] = Wanted(t)
      BY <1>3, <1>b DEF Create, EndsInv
    <2>2. \A m \in Members : InChannel(m) => InChannel(m)'
      BY <2>1 DEF InChannel
    <2>3. \A m \in Members : /\ todo'[m] \subseteq {m} /\ pc'[m] # "refused"
                             /\ pc'[m] = "done" => InChannel(m)'
      <3>1. t \in Members => todo'[t] \subseteq {t}
        BY <1>a, <2>1
      <3> QED
        BY <1>a, <1>c, <2>1, <2>2, <3>1 DEF EndsInv, EndsComplete
    <2>4. \A u \in Threads : pc'[u] = "creating" => u \notin DOMAIN channel'
      BY <1>c, <2>1 DEF EndsInv
    <2>5. \A u \in Threads : \A c \in target'[u] : Wanted(u) \subseteq channel'[c] \cup todo'[u]
      BY <1>c, <2>1 DEF EndsInv, EndsComplete
    <2> QED
      BY <2>3, <2>4, <2>5 DEF EndsInv, EndsComplete
  <1>4. CASE Add(t)
    <2>1. PICK m \in verified :
             /\ channel' = [c \in DOMAIN channel |->
                               IF c \in target[t] THEN channel[c] \cup {m} ELSE channel[c]]
             /\ todo'[t] = todo[t] \ {m} /\ UNCHANGED <<pc, target>> /\ pc[t] = "adding"
      BY <1>4, <1>b DEF Add
    <2>2. Mine
      BY <2>1, <1>b DEF EndsInv, EndsComplete
    <2> QED
      BY <2>1, <2>2, <1>d
  <1>5. CASE AddPasses(t)
    <2>1. PICK m \in Members : /\ t = Pass /\ m \in ToSet(Externals)
                               /\ todo'[t] = todo[t] \ {m}
      BY <1>5, <1>b DEF AddPasses, PassedOver
    <2>2. UNCHANGED <<channel, pc, target>> /\ pc[t] = "adding"
      BY <1>5 DEF AddPasses
    <2>3. m \notin Wanted(t)
      BY <2>1, <1>a, MembersAssumption
    <2>4. Mine
      BY <2>1, <2>2, <2>3, <1>a, <1>b DEF EndsInv, EndsComplete
    <2> QED
      BY <2>2, <2>4, <1>d
  <1>6. CASE AddRaises(t) \/ CoreFails(t) \/ ProvisionEnds(t)
    <2>1. /\ channel' = channel /\ todo'[t] = {} /\ target'[t] = {}
          /\ pc'[t] \in {"idle", "refused", "failed", "done"}
      BY <1>6, <1>b DEF AddRaises, CoreFails, ProvisionEnds, Leave
    <2>2. ASSUME t \in Members PROVE pc'[t] # "refused"
      <3>1. CASE AddRaises(t)
        <4>1. PICK m \in Members \ verified : m \in todo[t] /\ pc[t] = "adding"
          BY <3>1 DEF AddRaises, IsNext
        <4>2. m = t
          BY <2>2, <4>1 DEF EndsInv
        <4> QED
          BY <2>2, <4>1, <4>2, <1>b
      <3>2. CASE CoreFails(t) \/ ProvisionEnds(t)
        BY <3>2, <1>a, <1>b, <2>2 DEF CoreFails, ProvisionEnds, Leave
      <3> QED
        BY <1>6, <3>1, <3>2
    <2>3. ASSUME t \in Members, pc'[t] = "done" PROVE InChannel(t)
      <3>1. pc[t] = "adding" /\ todo[t] = {}
        BY <1>6, <1>a, <1>b, <2>3 DEF AddRaises, CoreFails, ProvisionEnds, Leave
      <3>2. PICK c \in target[t] : c \in DOMAIN channel
        BY <1>b, <3>1
      <3>3. t \in channel[c]
        BY <1>a, <2>3, <3>1 DEF EndsInv, EndsComplete
      <3> QED
        BY <3>2, <3>3 DEF InChannel
    <2>4. Mine
      BY <2>1, <2>2, <2>3 DEF InChannel
    <2> QED
      BY <2>1, <2>4, <1>d
  <1> QED
    BY <1>1, <1>2, <1>3, <1>4, <1>5, <1>6 DEF Provision

\* Every step preserves EndsInv.
LEMMA EndsStep == Types /\ EndsInv /\ [Next]_vars => EndsInv'
  <1> SUFFICES ASSUME Types, EndsInv, [Next]_vars PROVE EndsInv'
    OBVIOUS
  <1>1. ASSUME NEW m \in Members, Verify(m) PROVE EndsInv'
    <2>1. /\ UNCHANGED <<channel, todo, target>> /\ m \in Threads /\ pc'[m] = "listing"
          /\ \A u \in Threads : u # m => pc'[u] = pc[u]
      BY <1>1, ThreadFacts DEF Verify, Types, ThreadType
    <2> QED
      BY <2>1, ThreadFacts DEF EndsInv, EndsComplete, InChannel
  <1>2. CASE Restart
    <2>1. /\ channel' = channel
          /\ \A t \in Threads : /\ todo'[t] = {} /\ target'[t] = {} /\ pc'[t] # "creating"
                                /\ pc'[t] \in {"done", "refused"} => pc'[t] = pc[t]
      BY <1>2 DEF Restart, core, Types, ThreadType, States
    <2> QED
      BY <2>1, ThreadFacts DEF EndsInv, EndsComplete, InChannel
  <1>3. CASE UNCHANGED vars
    BY <1>3 DEF vars, EndsInv, EndsComplete, InChannel
  <1> QED
    BY <1>1, <1>2, <1>3, EndsStar, EndsProvision DEF Next

\* For any realm, failures and restarts: an event that was dealt with has its member in
\* a channel, none is refused, and what a thread leaves out of its channel it has still
\* to deal with (main.py 313, 430).
THEOREM EndsAreComplete == Spec => []EndsComplete
  <1>1. Init => EndsInv
    BY ThreadFacts DEF Init, EndsInv, EndsComplete
  <1>2. EndsInv => EndsComplete
    BY DEF EndsInv
  <1> QED
    BY <1>1, <1>2, InitTypes, TypesStep, EndsStep, PTL DEF Spec
=============================================================================
