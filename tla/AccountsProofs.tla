--------------------------- MODULE AccountsProofs ---------------------------
(***************************************************************************)
(* What holds of the account index and the event stream for any roster and *)
(* any number of threads: their type, that an index entry is true and that *)
(* none is missing when the rebuilds have ended, and that the pump gets    *)
(* each account's events once and in order.                                *)
(***************************************************************************)
EXTENDS Accounts, FiniteSetTheorems, TLAPS

\* The type, split by what the actions touch together.
CoreType ==
    /\ created \in 0..MaxAccounts
    /\ configured \subseteq 1..created
    /\ owner \in [AccountIds -> Bots \cup {Nobody}]
    /\ \A a \in configured : owner[a] # Nobody

ThreadType ==
    /\ index \in [Names -> 0..created]
    /\ pc \in [Threads -> {"idle", "ensuring", "setup", "clearing", "listing", "filling"}]
    /\ todo \in Seq(Bots)
    /\ pc[Pass] = "setup" => todo # <<>> /\ at \in 1..created
    /\ at \in 0..created
    /\ rest \in [Threads -> SUBSET (1..created)]

StreamType ==
    /\ pumping \in BOOLEAN /\ forwarded \subseteq 1..created
    /\ running \in [AccountIds -> Nat]
    /\ emitted \in [AccountIds -> Nat] /\ moved \in [AccountIds -> Nat]
    /\ hand \in [AccountIds -> SUBSET Nat]
    /\ \A a \in AccountIds : IsFiniteSet(hand[a])
    /\ merged \in Seq(AccountIds \X Nat)
    /\ pumped \in [AccountIds -> Nat]

LimitType == misread \in BOOLEAN /\ left \in [Kinds -> Nat]

Types == CoreType /\ ThreadType /\ StreamType /\ LimitType

\* The split type is the type invariant, with what a forwarder has in hand finite.
LEMMA TypesImplyTypeOK == Types => TypeOK
  BY DEF Types, CoreType, ThreadType, StreamType, LimitType, TypeOK

\* The accounts there are have numbers within the bound, and the pass is a thread.
LEMMA Ranges ==
    ASSUME CoreType
    PROVE  /\ created \in Nat /\ 1..created \subseteq AccountIds
           /\ Pass \in Threads /\ Callers \subseteq Threads
  BY BoundsAssumption DEF CoreType, AccountIds, Threads

\* The names the roster and the index are about.
LEMMA NamesAreNames ==
    /\ Bots \subseteq Names /\ Nobody \notin Names /\ Pass \notin Callers
    /\ Roster \in Seq(Bots)
  BY NamesAssumption DEF Names

\* The initial states have the type.
LEMMA InitTypes == Init => Types
  <1> SUFFICES ASSUME Init PROVE Types
    OBVIOUS
  <1>1. PICK s \in Before :
          /\ created = Len(s)
          /\ configured = 1..Len(s)
          /\ owner = [a \in AccountIds |-> IF a <= Len(s) THEN s[a] ELSE Nobody]
          /\ index = [n \in Names |-> IF n \in ToSet(s)
                                      THEN CHOOSE a \in 1..Len(s) : s[a] = n
                                      ELSE 0]
    BY DEF Init
  <1>2. s \in Seq(Bots) /\ Len(s) \in Nat /\ Len(s) <= MaxAccounts /\ MaxAccounts \in Nat
    BY BeforeAssumption, BoundsAssumption
  <1>3. CoreType
    <2>1. \A a \in 1..Len(s) : s[a] \in Bots /\ s[a] # Nobody
      BY <1>2, NamesAreNames
    <2> QED
      BY <1>1, <1>2, <2>1 DEF CoreType, AccountIds
  <1>4. index \in [Names -> 0..created]
    <2>1. ASSUME NEW n \in ToSet(s)
          PROVE  (CHOOSE a \in 1..Len(s) : s[a] = n) \in 0..Len(s)
      <3>1. \E a \in 1..Len(s) : s[a] = n
        BY <1>2 DEF ToSet
      <3> QED
        BY <1>2, <3>1
    <2>2. \A n \in Names : (IF n \in ToSet(s) THEN CHOOSE a \in 1..Len(s) : s[a] = n
                                              ELSE 0) \in 0..Len(s)
      BY <1>2, <2>1
    <2> QED
      BY <1>1, <2>2, Zenon
  <1>5. ThreadType
    BY <1>2, <1>1, <1>4, NamesAreNames DEF Init, ThreadType, Threads
  <1>6. StreamType
    <2>1. pumping \in BOOLEAN
      BY Zenon DEF Init
    <2>2. \A a \in AccountIds : IsFiniteSet(hand[a])
      BY FS_EmptySet DEF Init
    <2>3. merged \in Seq(AccountIds \X Nat)
      BY DEF Init
    <2> QED
      BY <2>1, <2>2, <2>3 DEF Init, StreamType
  <1>7. LimitType
    <2>1. misread \in BOOLEAN
      BY Zenon DEF Init
    <2> QED
      BY <2>1, BoundsAssumption DEF Init, LimitType
  <1> QED
    BY <1>3, <1>5, <1>6, <1>7 DEF Types

\* A bound that is used up by one stays a bound.
LEMMA MayType ==
    ASSUME LimitType, NEW k \in Kinds, May(k)
    PROVE  left' \in [Kinds -> Nat]
  <1>1. left[k] \in Nat /\ left[k] - 1 \in Nat
    BY DEF LimitType, May
  <1> QED
    BY <1>1 DEF LimitType, May

\* Going anywhere but to a setup keeps what is said of program counters.
LEMMA GoType ==
    ASSUME ThreadType, NEW t \in Threads,
           \/ \E where \in {"idle", "ensuring", "clearing", "listing", "filling"} : Go(t, where)
           \/ Return(t)
           \/ UNCHANGED pc
    PROVE  /\ pc' \in [Threads -> {"idle", "ensuring", "setup", "clearing", "listing", "filling"}]
           /\ pc'[Pass] = "setup" => pc[Pass] = "setup"
  <1>1. CASE UNCHANGED pc
    BY <1>1 DEF ThreadType
  <1>2. ASSUME NEW where \in {"idle", "ensuring", "clearing", "listing", "filling"}, Go(t, where)
        PROVE  /\ pc' \in [Threads -> {"idle", "ensuring", "setup", "clearing", "listing",
                                       "filling"}]
               /\ pc'[Pass] = "setup" => pc[Pass] = "setup"
    BY <1>2 DEF ThreadType, Go, Threads
  <1>3. CASE Return(t)
    <2>1. Go(t, "ensuring") \/ Go(t, "idle")
      BY <1>3 DEF Return, Go
    <2> QED
      BY <1>2, <2>1
  <1> QED
    BY <1>1, <1>2, <1>3

\* Starting forwarders keeps their type.
LEMMA ForwardersType ==
    ASSUME StreamType, EnsureForwarders(1..created)
    PROVE  forwarded' \subseteq 1..created /\ running' \in [AccountIds -> Nat]
  <1>1. forwarded' \subseteq 1..created
    BY DEF StreamType, EnsureForwarders
  <1>2. ASSUME NEW a \in AccountIds
        PROVE  running[a] + (IF a \in 1..created \ forwarded THEN 1 ELSE 0) \in Nat
    BY DEF StreamType
  <1> QED
    BY <1>1, <1>2, Zenon DEF EnsureForwarders

\* The rebuild of any thread keeps the type.
LEMMA RebuildTypes ==
    ASSUME Types, NEW t \in Threads, Rebuild(t)
    PROVE  Types'
  <1> USE DEF core, eventVars, forwarderVars
  <1>a. CoreType /\ ThreadType /\ StreamType /\ LimitType
    BY DEF Types
  <1>b. "misread" \in Kinds
    BY DEF Kinds
  <1>1. CASE List(t)
    <2>1. CoreType' /\ LimitType'
      BY <1>a, <1>1 DEF List, CoreType, LimitType
    <2>2. ThreadType'
      <3>1. Return(t) \/ Go(t, "filling")
        BY <1>1 DEF List
      <3> QED
        BY <1>a, <1>1, <3>1, GoType DEF List, ThreadType
    <2>3. StreamType'
      <3>1. CASE UNCHANGED <<forwarded, running>>
        BY <1>a, <1>1, <3>1 DEF List, StreamType
      <3>2. CASE EnsureForwarders(1..created)
        BY <1>a, <1>1, <3>2, ForwardersType DEF List, StreamType
      <3> QED
        BY <1>1, <3>1, <3>2 DEF List
    <2> QED
      BY <2>1, <2>2, <2>3 DEF Types
  <1>2. CASE ListRaises(t)
    <2>1. CoreType' /\ StreamType'
      BY <1>a, <1>2 DEF ListRaises, CoreType, StreamType
    <2>2. ThreadType'
      BY <1>a, <1>2, GoType DEF ListRaises, ThreadType
    <2>3. LimitType'
      BY <1>a, <1>b, <1>2, MayType DEF ListRaises, Misread, LimitType
    <2> QED
      BY <2>1, <2>2, <2>3 DEF Types
  <1>3. ASSUME NEW a \in AccountIds, Fill(t, a) PROVE Types'
    <2>1. CoreType' /\ StreamType' /\ LimitType'
      BY <1>a, <1>3 DEF Fill, CoreType, StreamType, LimitType
    <2>2. a \in 1..created
      BY <1>a, <1>3 DEF Fill, Reads, ThreadType
    <2>3. owner[a] # Nobody => owner[a] \in Names
      BY <1>a, NamesAreNames DEF CoreType
    <2>4. index' \in [Names -> 0..created]
      BY <1>a, <1>3, <2>2, <2>3, Ranges DEF Fill, ThreadType
    <2>5. ThreadType'
      <3>1. Return(t) \/ UNCHANGED pc
        BY <1>3 DEF Fill, FillOn
      <3> QED
        BY <1>a, <1>3, <2>4, <3>1, GoType DEF Fill, FillOn, ThreadType
    <2> QED
      BY <2>1, <2>5 DEF Types
  <1>4. ASSUME NEW a \in AccountIds, FillSkips(t, a) PROVE Types'
    <2>1. CoreType' /\ StreamType'
      BY <1>a, <1>4 DEF FillSkips, CoreType, StreamType
    <2>2. ThreadType'
      <3>1. Return(t) \/ UNCHANGED pc
        BY <1>4 DEF FillSkips, FillOn
      <3> QED
        BY <1>a, <1>4, <3>1, GoType DEF FillSkips, FillOn, ThreadType
    <2>3. LimitType'
      BY <1>a, <1>b, <1>4, MayType DEF FillSkips, Misread, LimitType
    <2> QED
      BY <2>1, <2>2, <2>3 DEF Types
  <1> QED
    BY <1>1, <1>2, <1>3, <1>4 DEF Rebuild

\* The pass keeps it.
LEMMA ReconcileTypes ==
    ASSUME Types, Reconcile
    PROVE  Types'
  <1> USE DEF core, eventVars, forwarderVars
  <1>a. CoreType /\ ThreadType /\ StreamType /\ LimitType
    BY DEF Types
  <1>b. Pass \in Threads /\ created \in Nat /\ 1..created \subseteq AccountIds
    BY <1>a, Ranges
  <1>c. todo # <<>> => Head(todo) \in Bots /\ Head(todo) \in Names /\ Tail(todo) \in Seq(Bots)
    BY <1>a, NamesAreNames DEF ThreadType
  <1>d. {"refusal", "misread"} \subseteq Kinds
    BY DEF Kinds
  <1>1. CASE ReconcileOnce \/ PassEnds \/ EnsureKnown
    <2>1. CoreType' /\ StreamType' /\ LimitType'
      BY <1>a, <1>1 DEF ReconcileOnce, PassEnds, EnsureKnown, CoreType, StreamType, LimitType
    <2>2. ThreadType'
      BY <1>a, <1>b, <1>c, <1>1, NamesAreNames
         DEF ReconcileOnce, PassEnds, EnsureKnown, ThreadType, Go
    <2> QED
      BY <2>1, <2>2 DEF Types
  <1>2. CASE EnsureAgain \/ EnsureMisreads
    <2>1. CoreType' /\ StreamType'
      BY <1>a, <1>2 DEF EnsureAgain, EnsureMisreads, CoreType, StreamType
    <2>2. LimitType'
      BY <1>a, <1>d, <1>2, MayType DEF EnsureAgain, EnsureMisreads, Misread, LimitType
    <2>3. index[Head(todo)] \in 1..created
      BY <1>a, <1>b, <1>c, <1>2 DEF EnsureAgain, EnsureMisreads, ThreadType
    <2>4. ThreadType'
      BY <1>a, <1>b, <1>2, <2>3 DEF EnsureAgain, EnsureMisreads, ThreadType, Go
    <2> QED
      BY <2>1, <2>2, <2>4 DEF Types
  <1>3. CASE AddAccount
    <2>1. created' \in 1..MaxAccounts /\ created \in 0..created' /\ at' = created'
          /\ 1..created \subseteq 1..created' /\ 0..created \subseteq 0..created'
      BY <1>a, <1>b, <1>3, BoundsAssumption DEF AddAccount, CoreType
    <2>2. CoreType' /\ LimitType'
      BY <1>a, <1>3, <2>1 DEF AddAccount, CoreType, LimitType
    <2>3. StreamType'
      BY <1>a, <1>3, <2>1 DEF AddAccount, StreamType
    <2>4. index' \in [Names -> 0..created'] /\ rest' \in [Threads -> SUBSET (1..created')]
      BY <1>a, <1>3, <2>1 DEF AddAccount, ThreadType
    <2>5. at' \in 1..created' /\ at' \in 0..created'
      BY <2>1
    <2>6. ThreadType'
      BY <1>a, <1>b, <1>3, <2>4, <2>5 DEF AddAccount, ThreadType, Go
    <2> QED
      BY <2>2, <2>3, <2>6 DEF Types
  <1>4. CASE AddRaises
    <2>1. CoreType' /\ StreamType'
      BY <1>a, <1>4 DEF AddRaises, CoreType, StreamType
    <2>2. LimitType'
      BY <1>a, <1>d, <1>4, MayType DEF AddRaises, LimitType
    <2>3. ThreadType'
      BY <1>a, <1>b, <1>c, <1>4 DEF AddRaises, ThreadType
    <2> QED
      BY <2>1, <2>2, <2>3 DEF Types
  <1>5. CASE Setup \/ SetupRaises
    <2>1. at \in 1..created /\ at \in AccountIds /\ Head(todo) \in Bots
          /\ Tail(todo) \in Seq(Bots)
      BY <1>a, <1>b, <1>c, <1>5 DEF Setup, SetupRaises, ThreadType
    <2>2. StreamType'
      BY <1>a, <1>5 DEF Setup, SetupRaises, StreamType
    <2>3. LimitType'
      BY <1>a, <1>d, <1>5, MayType DEF Setup, SetupRaises, LimitType
    <2>4. CoreType'
      <3>1. created' = created /\ configured' \subseteq configured \cup {at}
        BY <1>5 DEF Setup, SetupRaises
      <3>2. owner' = owner \/ owner' = [owner EXCEPT ![at] = Head(todo)]
        BY <1>5 DEF Setup, SetupRaises
      <3>3. at \in configured' => at \in configured \/ owner' = [owner EXCEPT ![at] = Head(todo)]
        BY <1>5 DEF Setup, SetupRaises
      <3>4. owner' \in [AccountIds -> Bots \cup {Nobody}]
        BY <1>a, <2>1, <3>2 DEF CoreType
      <3>5. ASSUME NEW a \in configured' PROVE owner'[a] # Nobody
        BY <1>a, <1>b, <2>1, <3>1, <3>2, <3>3, NamesAreNames DEF CoreType
      <3> QED
        BY <1>a, <2>1, <3>1, <3>4, <3>5 DEF CoreType
    <2>5. ThreadType'
      BY <1>a, <1>b, <1>5, <2>1 DEF Setup, SetupRaises, ThreadType, Go
    <2> QED
      BY <2>2, <2>3, <2>4, <2>5 DEF Types
  <1>6. CASE Clear
    <2>1. CoreType' /\ StreamType' /\ LimitType'
      BY <1>a, <1>6 DEF Clear, CoreType, StreamType, LimitType
    <2>2. ThreadType'
      BY <1>a, <1>b, <1>6 DEF Clear, ThreadType, Go, NoIndex
    <2> QED
      BY <2>1, <2>2 DEF Types
  <1>7. CASE Rebuild(Pass)
    BY <1>b, <1>7, RebuildTypes
  <1> QED
    BY <1>1, <1>2, <1>3, <1>4, <1>5, <1>6, <1>7 DEF Reconcile

\* An account's forwarder that waits is one that runs.
LEMMA WaitsRuns ==
    ASSUME StreamType, NEW a \in AccountIds, Waits(a)
    PROVE  running[a] - 1 \in Nat
  <1>1. Cardinality(hand[a]) \in Nat
    BY FS_CardinalityType DEF StreamType
  <1> QED
    BY <1>1 DEF StreamType, Waits

\* So do the forwarders and the pump.
LEMMA StreamTypes ==
    ASSUME Types,
           Pump \/ \E a \in AccountIds : Emit(a) \/ Forwarder(a) \/ ForwarderDies(a)
    PROVE  Types'
  <1> USE DEF core, eventVars, forwarderVars
  <1>a. CoreType /\ ThreadType /\ StreamType /\ LimitType
    BY DEF Types
  <1>b. {"event", "death"} \subseteq Kinds
    BY DEF Kinds
  <1>c. UNCHANGED <<core, index, pc, todo, at, rest, misread>>
    BY DEF Pump, PumpStarts, PumpGets, PumpIdles, Emit, Forwarder, ForwarderTakes,
           ForwarderPuts, ForwarderDies
  <1>d. CoreType' /\ ThreadType'
    BY <1>a, <1>c DEF CoreType, ThreadType
  <1>1. ASSUME NEW a \in AccountIds, Emit(a) PROVE StreamType' /\ LimitType'
    <2>1. emitted' \in [AccountIds -> Nat]
      BY <1>a, <1>1 DEF Emit, StreamType
    <2> QED
      BY <1>a, <1>b, <1>1, <2>1, MayType DEF Emit, StreamType, LimitType
  <1>2. ASSUME NEW a \in AccountIds, ForwarderTakes(a) PROVE StreamType' /\ LimitType'
    <2>1. moved' \in [AccountIds -> Nat] /\ moved'[a] \in Nat
      BY <1>a, <1>2 DEF ForwarderTakes, StreamType
    <2>2. IsFiniteSet(hand[a] \cup {moved'[a]})
      BY <1>a, FS_AddElement DEF StreamType
    <2>3. hand' \in [AccountIds -> SUBSET Nat] /\ \A b \in AccountIds : IsFiniteSet(hand'[b])
      BY <1>a, <1>2, <2>1, <2>2 DEF ForwarderTakes, StreamType
    <2> QED
      BY <1>a, <1>c, <1>2, <2>1, <2>3 DEF ForwarderTakes, StreamType, LimitType
  <1>3. ASSUME NEW a \in AccountIds, ForwarderPuts(a) PROVE StreamType' /\ LimitType'
    <2>1. PICK e \in hand[a] : /\ merged' = Append(merged, <<a, e>>)
                               /\ hand' = [hand EXCEPT ![a] = @ \ {e}]
      BY <1>3 DEF ForwarderPuts
    <2>2. <<a, e>> \in AccountIds \X Nat
      BY <1>a, <2>1 DEF StreamType
    <2>3. merged' \in Seq(AccountIds \X Nat)
      BY <1>a, <2>1, <2>2 DEF StreamType
    <2>4. IsFiniteSet(hand[a] \ {e})
      BY <1>a, FS_RemoveElement DEF StreamType
    <2>5. hand' \in [AccountIds -> SUBSET Nat] /\ \A b \in AccountIds : IsFiniteSet(hand'[b])
      BY <1>a, <2>1, <2>4 DEF StreamType
    <2> QED
      BY <1>a, <1>c, <1>3, <2>3, <2>5 DEF ForwarderPuts, StreamType, LimitType
  <1>4. ASSUME NEW a \in AccountIds, ForwarderDies(a) PROVE StreamType' /\ LimitType'
    <2>1. running' \in [AccountIds -> Nat]
      BY <1>a, <1>4, WaitsRuns DEF ForwarderDies, StreamType
    <2>2. LimitType'
      BY <1>a, <1>b, <1>c, <1>4, MayType DEF ForwarderDies, LimitType
    <2> QED
      BY <1>a, <1>4, <2>1, <2>2 DEF ForwarderDies, StreamType
  <1>5. CASE PumpStarts \/ PumpIdles
    <2>1. pumping' \in BOOLEAN
      BY <1>a, <1>5, Zenon DEF PumpStarts, PumpIdles, StreamType
    <2>2. /\ forwarded' \subseteq 1..created /\ running' \in [AccountIds -> Nat]
          /\ created' = created /\ UNCHANGED <<eventVars, misread, left>>
      BY <1>a, <1>5, ForwardersType DEF PumpStarts, PumpIdles
    <2>3. StreamType'
      BY <1>a, <2>1, <2>2 DEF StreamType
    <2>4. LimitType'
      BY <1>a, <2>2 DEF LimitType
    <2> QED
      BY <1>d, <2>3, <2>4 DEF Types
  <1>6. CASE PumpGets
    <2>1. Head(merged) \in AccountIds \X Nat /\ Tail(merged) \in Seq(AccountIds \X Nat)
      BY <1>a, <1>6 DEF PumpGets, StreamType
    <2>2. pumped' \in [AccountIds -> Nat] /\ merged' \in Seq(AccountIds \X Nat)
      BY <1>a, <1>6, <2>1 DEF PumpGets, StreamType
    <2>3. StreamType'
      BY <1>a, <1>6, <2>2 DEF PumpGets, StreamType
    <2>4. LimitType'
      BY <1>a, <1>c, <1>6 DEF PumpGets, LimitType
    <2> QED
      BY <1>d, <2>3, <2>4 DEF Types
  <1> QED
    BY <1>d, <1>1, <1>2, <1>3, <1>4, <1>5, <1>6 DEF Types, Pump, Forwarder

\* Every step keeps the type.
LEMMA TypesStep == Types /\ [Next]_vars => Types'
  <1> SUFFICES ASSUME Types, [Next]_vars PROVE Types'
    OBVIOUS
  <1>a. CoreType /\ ThreadType /\ StreamType /\ LimitType /\ Callers \subseteq Threads
    BY Ranges DEF Types
  <1>1. CASE Reconcile
    BY <1>1, ReconcileTypes
  <1>2. ASSUME NEW c \in Callers, Rebuild(c) PROVE Types'
    BY <1>a, <1>2, RebuildTypes
  <1>3. ASSUME NEW c \in Callers, NEW n \in Names, LookupMisses(c, n) PROVE Types'
    <2>1. c \in Threads /\ "lookup" \in Kinds
      BY <1>a DEF Kinds
    <2>2. CoreType' /\ StreamType'
      BY <1>a, <1>3 DEF LookupMisses, core, eventVars, forwarderVars, CoreType, StreamType
    <2>3. index' \in [Names -> 0..created]
      BY <1>a, <1>3, Ranges DEF LookupMisses, NoIndex
    <2>4. ThreadType'
      BY <1>a, <1>3, <2>1, <2>3, GoType DEF LookupMisses, core, ThreadType
    <2>5. LimitType'
      BY <1>a, <1>3, <2>1, MayType DEF LookupMisses, LimitType
    <2> QED
      BY <2>2, <2>4, <2>5 DEF Types
  <1>4. CASE Pump \/ \E a \in AccountIds : Emit(a) \/ Forwarder(a) \/ ForwarderDies(a)
    BY <1>4, StreamTypes
  <1>5. CASE UNCHANGED vars
    <2> USE DEF vars, core, eventVars, forwarderVars
    <2>1. CoreType' /\ LimitType'
      BY <1>a, <1>5 DEF CoreType, LimitType
    <2>2. ThreadType'
      BY <1>a, <1>5 DEF ThreadType
    <2>3. StreamType'
      BY <1>a, <1>5 DEF StreamType
    <2> QED
      BY <2>1, <2>2, <2>3 DEF Types
  <1> QED
    BY <1>1, <1>2, <1>3, <1>4, <1>5 DEF Next

LEMMA TypesAlways == Spec => []Types
  BY InitTypes, TypesStep, PTL DEF Spec

\* The type invariant holds for any roster, any callers and any number of accounts
\* (relay.py:507).
THEOREM TypeCorrect == Spec => []TypeOK
  BY TypesAlways, TypesImplyTypeOK, PTL
-----------------------------------------------------------------------------
(* The index.  Only the pass changes who owns an account, and it does so   *)
(* to an account that has no owner yet or that owner.  Whoever clears the  *)
(* index reads every account in again, so that an entry that is missing is *)
(* still to come from some thread.                                         *)

OwnersInv ==
    /\ IndexTrue
    /\ \A a \in AccountIds : a > created => owner[a] = Nobody
    /\ pc[Pass] = "setup" =>
          /\ owner[at] \in {Nobody, Head(todo)}
          /\ misread \/ at \notin configured

\* Thread t will read account a in.
Pending(t, a) == \/ pc[t] \in {"clearing", "listing"}
                 \/ pc[t] = "filling" /\ a \in rest[t]

NothingMissing ==
    misread \/ \A a \in configured : index[owner[a]] # 0 \/ \E t \in Threads : Pending(t, a)

IndexInv == OwnersInv /\ NothingMissing

\* A fresh or refilled index is right from the start.
LEMMA InitIndex == Init => IndexInv
  <1> SUFFICES ASSUME Init PROVE IndexInv
    OBVIOUS
  <1>1. PICK s \in Before :
          /\ created = Len(s)
          /\ configured = 1..Len(s)
          /\ owner = [a \in AccountIds |-> IF a <= Len(s) THEN s[a] ELSE Nobody]
          /\ index = [n \in Names |-> IF n \in ToSet(s)
                                      THEN CHOOSE a \in 1..Len(s) : s[a] = n
                                      ELSE 0]
    BY DEF Init
  <1>2. s \in Seq(Bots) /\ Len(s) \in Nat /\ 1..Len(s) \subseteq AccountIds
    BY BeforeAssumption, BoundsAssumption DEF AccountIds
  <1>3. ASSUME NEW n \in Names, n \in ToSet(s)
        PROVE  index[n] \in 1..Len(s) /\ s[index[n]] = n
    <2>1. \E a \in 1..Len(s) : s[a] = n
      BY <1>2, <1>3 DEF ToSet
    <2>2. index[n] = CHOOSE a \in 1..Len(s) : s[a] = n
      BY <1>1, <1>3
    <2> QED
      BY <2>1, <2>2
  <1>4. IndexTrue
    <2> SUFFICES ASSUME NEW n \in Names, index[n] # 0 PROVE owner[index[n]] = n
      BY DEF IndexTrue
    <2>1. n \in ToSet(s)
      BY <1>1
    <2>2. index[n] \in 1..Len(s) /\ s[index[n]] = n
      BY <1>3, <2>1
    <2> QED
      BY <1>1, <1>2, <2>2
  <1>5. NothingMissing
    <2> SUFFICES ASSUME NEW a \in configured PROVE index[owner[a]] # 0
      BY DEF NothingMissing
    <2>1. a \in 1..Len(s) /\ owner[a] = s[a] /\ s[a] \in Names /\ s[a] \in ToSet(s)
      BY <1>1, <1>2, NamesAreNames DEF ToSet
    <2> QED
      BY <1>2, <1>3, <2>1
  <1>6. \A a \in AccountIds : a > created => owner[a] = Nobody
    BY <1>1, <1>2 DEF AccountIds
  <1>7. pc[Pass] # "setup"
    BY DEF Init, Threads
  <1> QED
    BY <1>4, <1>5, <1>6, <1>7 DEF IndexInv, OwnersInv

\* Clearing leaves no false entry, and the thread that cleared will read them all in.
LEMMA ClearIndex ==
    ASSUME Types, NEW t \in Threads,
           index' = NoIndex, Go(t, "listing"), UNCHANGED <<core, misread, rest>>
    PROVE  IndexTrue' /\ NothingMissing'
  <1>1. \A n \in Names : index'[n] = 0
    BY DEF NoIndex
  <1>2. pc'[t] = "listing"
    BY DEF Go, Types, ThreadType
  <1> QED
    BY <1>1, <1>2 DEF IndexTrue, NothingMissing, Pending

\* A rebuild goes on without making a hole.
LEMMA RebuildIndex ==
    ASSUME Types, IndexInv, NEW t \in Threads, Rebuild(t)
    PROVE  IndexInv'
  <1> USE DEF core
  <1>a. CoreType /\ ThreadType /\ OwnersInv /\ NothingMissing /\ IndexTrue
    BY DEF Types, IndexInv, OwnersInv
  <1>b. /\ UNCHANGED <<core, todo, at>>
        /\ \A u \in Threads \ {t} : pc'[u] = pc[u] /\ rest'[u] = rest[u]
        /\ pc'[Pass] = "setup" => pc[Pass] = "setup"
        /\ misread => misread'
    BY <1>a DEF Rebuild, List, ListRaises, Fill, FillSkips, FillOn, Return, Go,
                Misread, ThreadType, Threads
  <1>c. Pass \in Threads /\ created \in Nat /\ 1..created \subseteq AccountIds
    BY <1>a, Ranges
  <1>d. ASSUME IndexTrue' PROVE OwnersInv'
    BY <1>a, <1>b, <1>d DEF OwnersInv
  <1>1. CASE ListRaises(t) \/ \E a \in AccountIds : FillSkips(t, a)
    <2>1. misread' /\ index' = index
      BY <1>1 DEF ListRaises, FillSkips, Misread
    <2>2. IndexTrue'
      BY <1>a, <1>b, <2>1 DEF IndexTrue
    <2> QED
      BY <1>d, <2>1, <2>2 DEF IndexInv, NothingMissing
  <1>2. CASE List(t)
    <2>1. /\ UNCHANGED <<index, misread>> /\ rest'[t] = 1..created
          /\ created # 0 => pc'[t] = "filling"
      BY <1>a, <1>2 DEF List, Go, ThreadType
    <2>2. \A a \in configured : Pending(t, a)'
      BY <1>a, <1>c, <2>1 DEF CoreType, Pending
    <2>3. NothingMissing'
      BY <1>b, <2>1, <2>2 DEF NothingMissing
    <2>4. IndexTrue'
      BY <1>a, <1>b, <2>1 DEF IndexTrue
    <2> QED
      BY <1>d, <2>3, <2>4 DEF IndexInv
  <1>3. ASSUME NEW x \in AccountIds, Fill(t, x) PROVE IndexInv'
    <2>1. /\ misread' = misread /\ pc[t] = "filling" /\ rest'[t] = rest[t] \ {x}
          /\ rest[t] # {x} => pc'[t] = "filling"
      BY <1>a, <1>3 DEF Fill, FillOn, Reads, ThreadType
    <2>2. x \in 1..created /\ x # 0
      BY <1>a, <1>c, <1>3 DEF Fill, Reads, ThreadType
    <2>3. owner[x] # Nobody => owner[x] \in Names
      BY <1>a, NamesAreNames DEF CoreType
    <2>4. \A n \in Names : index'[n] = IF n = owner[x] THEN x ELSE index[n]
      BY <1>a, <1>3, <2>3, NamesAreNames DEF Fill, ThreadType
    <2>5. IndexTrue'
      BY <1>a, <1>b, <2>4 DEF IndexTrue
    <2>6. ASSUME NEW a \in configured,
                 index[owner[a]] # 0 \/ \E u \in Threads : Pending(u, a)
          PROVE  index'[owner[a]] # 0 \/ \E u \in Threads : Pending(u, a)'
      <3>1. owner[a] \in Names /\ a \in AccountIds
        BY <1>a, <1>c, NamesAreNames DEF CoreType
      <3>2. CASE index[owner[a]] # 0 \/ a = x
        BY <2>2, <2>4, <3>1, <3>2
      <3>3. CASE a # x /\ \E u \in Threads : Pending(u, a)
        BY <1>b, <2>1, <3>3 DEF Pending
      <3> QED
        BY <2>6, <3>2, <3>3
    <2>7. NothingMissing'
      BY <1>a, <1>b, <2>1, <2>6 DEF NothingMissing
    <2> QED
      BY <1>d, <2>5, <2>7 DEF IndexInv
  <1> QED
    BY <1>1, <1>2, <1>3 DEF Rebuild

\* The pass keeps the index right when it onboards.
LEMMA ReconcileIndex ==
    ASSUME Types, Types', IndexInv, Reconcile
    PROVE  IndexInv'
  <1> USE DEF core
  <1>a. /\ CoreType /\ ThreadType /\ IndexTrue /\ OwnersInv /\ NothingMissing
        /\ CoreType' /\ ThreadType'
    BY DEF Types, IndexInv, OwnersInv
  <1>b. /\ Pass \in Threads /\ created \in Nat /\ 1..created \subseteq AccountIds
        /\ Bots \subseteq Names /\ Nobody \notin Names
    BY <1>a, Ranges, NamesAreNames
  \* Where the pass does not rebuild, what others have pending stays pending.
  <1>c. ASSUME pc[Pass] \in {"idle", "ensuring", "setup"}, UNCHANGED rest,
               \A t \in Threads \ {Pass} : pc'[t] = pc[t]
        PROVE  \A a : \A t \in Threads : Pending(t, a) => Pending(t, a)'
    BY <1>a, <1>c DEF Pending, ThreadType
  <1>1. CASE ReconcileOnce \/ PassEnds \/ EnsureKnown \/ AddRaises
    <2>1. /\ UNCHANGED <<core, index, at, rest, misread>>
          /\ pc[Pass] \in {"idle", "ensuring"} /\ pc'[Pass] # "setup"
          /\ \A t \in Threads \ {Pass} : pc'[t] = pc[t]
      BY <1>a, <1>b, <1>1 DEF ReconcileOnce, PassEnds, EnsureKnown, AddRaises, Go, ThreadType
    <2>2. OwnersInv'
      BY <1>a, <2>1 DEF OwnersInv, IndexTrue
    <2>3. NothingMissing'
      BY <1>a, <1>c, <2>1 DEF NothingMissing
    <2> QED
      BY <2>2, <2>3 DEF IndexInv
  <1>2. CASE EnsureAgain \/ EnsureMisreads
    <2>1. /\ UNCHANGED <<core, index, rest, todo>> /\ pc[Pass] = "ensuring"
          /\ at' = index[Head(todo)] /\ Head(todo) \in Names /\ index[Head(todo)] # 0
          /\ \A t \in Threads \ {Pass} : pc'[t] = pc[t]
      BY <1>a, <1>b, <1>2 DEF EnsureAgain, EnsureMisreads, Go, ThreadType
    <2>2. misread => misread'
      BY <1>2 DEF EnsureAgain, EnsureMisreads, Misread
    <2>3. misread' \/ at' \notin configured'
      BY <1>2 DEF EnsureAgain, EnsureMisreads, Misread
    <2>4. owner'[at'] = Head(todo)
      BY <1>a, <2>1 DEF IndexTrue
    <2>5. OwnersInv'
      BY <1>a, <2>1, <2>3, <2>4 DEF OwnersInv, IndexTrue
    <2>6. NothingMissing'
      BY <1>a, <1>c, <2>1, <2>2 DEF NothingMissing
    <2> QED
      BY <2>5, <2>6 DEF IndexInv
  <1>3. CASE AddAccount
    <2>1. /\ UNCHANGED <<configured, owner, index, rest, misread>> /\ pc[Pass] = "ensuring"
          /\ created' = created + 1 /\ at' = created + 1 /\ created + 1 \in AccountIds
          /\ \A t \in Threads \ {Pass} : pc'[t] = pc[t]
      BY <1>a, <1>b, <1>3, BoundsAssumption
         DEF AddAccount, Go, ThreadType, CoreType, AccountIds
    <2>2. owner'[at'] = Nobody /\ at' \notin configured'
      BY <1>a, <1>b, <2>1 DEF OwnersInv, CoreType
    <2>3. OwnersInv'
      BY <1>a, <1>b, <2>1, <2>2 DEF OwnersInv, IndexTrue, AccountIds
    <2>4. NothingMissing'
      BY <1>a, <1>c, <2>1 DEF NothingMissing
    <2> QED
      BY <2>3, <2>4 DEF IndexInv
  <1>4. CASE Setup \/ SetupRaises
    <2>1. /\ UNCHANGED <<created, index, rest, misread>> /\ pc[Pass] = "setup"
          /\ at \in 1..created /\ at \in AccountIds /\ Head(todo) \in Bots
          /\ \A t \in Threads \ {Pass} : pc'[t] = pc[t]
          /\ pc'[Pass] # "setup"
      BY <1>a, <1>b, <1>4 DEF Setup, SetupRaises, Go, ThreadType
    <2>2. \A a \in AccountIds : owner'[a] = owner[a] \/ (a = at /\ owner'[a] = Head(todo))
      BY <1>a, <1>4, <2>1 DEF Setup, SetupRaises, CoreType
    <2>3. IndexTrue'
      <3> SUFFICES ASSUME NEW n \in Names, index[n] # 0 PROVE owner'[index[n]] = n
        BY <2>1 DEF IndexTrue
      <3>1. index[n] \in AccountIds /\ owner[index[n]] = n
        BY <1>a, <1>b DEF IndexTrue, ThreadType
      <3>2. index[n] = at => n = Head(todo)
        BY <1>a, <1>b, <2>1, <3>1 DEF OwnersInv
      <3> QED
        BY <2>2, <3>1, <3>2
    <2>4. OwnersInv'
      BY <1>a, <1>b, <2>1, <2>2, <2>3 DEF OwnersInv, AccountIds
    <2>5. NothingMissing'
      <3>1. CASE Setup
        <4>1. pc'[Pass] = "clearing"
          BY <1>a, <1>b, <3>1 DEF Setup, Go, ThreadType
        <4> QED
          BY <1>b, <4>1 DEF NothingMissing, Pending
      <3>2. CASE SetupRaises
        <4>1. configured' = configured /\ (misread \/ at \notin configured)
          BY <1>a, <2>1, <3>2 DEF SetupRaises, OwnersInv
        <4>2. ~misread => \A a \in configured : owner'[a] = owner[a]
          BY <1>a, <1>b, <2>2, <4>1 DEF CoreType
        <4>3. \A a : \A t \in Threads : Pending(t, a) => Pending(t, a)'
          BY <1>c, <2>1
        <4> QED
          BY <1>a, <2>1, <4>1, <4>2, <4>3 DEF NothingMissing
      <3> QED
        BY <1>4, <3>1, <3>2
    <2> QED
      BY <2>4, <2>5 DEF IndexInv
  <1>5. CASE Clear
    <2>1. IndexTrue' /\ NothingMissing'
      BY <1>b, <1>5, ClearIndex DEF Clear
    <2>2. pc'[Pass] # "setup" /\ UNCHANGED core
      BY <1>a, <1>b, <1>5 DEF Clear, Go, ThreadType
    <2> QED
      BY <1>a, <2>1, <2>2 DEF IndexInv, OwnersInv
  <1>6. CASE Rebuild(Pass)
    BY <1>b, <1>6, RebuildIndex
  <1> QED
    BY <1>1, <1>2, <1>3, <1>4, <1>5, <1>6 DEF Reconcile

\* Every step keeps the index right.
LEMMA IndexStep == Types /\ Types' /\ IndexInv /\ [Next]_vars => IndexInv'
  <1> SUFFICES ASSUME Types, Types', IndexInv, [Next]_vars PROVE IndexInv'
    OBVIOUS
  <1>a. CoreType /\ ThreadType /\ Callers \subseteq Threads /\ Pass \notin Callers
    BY Ranges, NamesAreNames DEF Types
  <1>1. CASE Reconcile
    BY <1>1, ReconcileIndex
  <1>2. ASSUME NEW c \in Callers, Rebuild(c) PROVE IndexInv'
    BY <1>a, <1>2, RebuildIndex
  <1>3. ASSUME NEW c \in Callers, NEW n \in Names, LookupMisses(c, n) PROVE IndexInv'
    <2>1. IndexTrue' /\ NothingMissing'
      BY <1>a, <1>3, ClearIndex DEF LookupMisses
    <2>2. pc'[Pass] = pc[Pass] /\ UNCHANGED <<core, todo, at, misread>>
      BY <1>a, <1>3 DEF LookupMisses, Go, ThreadType
    <2> QED
      BY <2>1, <2>2 DEF IndexInv, OwnersInv, core
  <1>4. CASE \/ Pump \/ UNCHANGED vars
             \/ \E a \in AccountIds : Emit(a) \/ Forwarder(a) \/ ForwarderDies(a)
    <2>1. UNCHANGED <<core, index, pc, todo, at, rest, misread>>
      BY <1>4 DEF Pump, PumpStarts, PumpGets, PumpIdles, Emit, Forwarder, ForwarderTakes,
                  ForwarderPuts, ForwarderDies, vars
    <2> QED
      BY <2>1 DEF IndexInv, OwnersInv, IndexTrue, NothingMissing, Pending, core
  <1> QED
    BY <1>1, <1>2, <1>3, <1>4 DEF Next

LEMMA IndexAlways == Spec => []IndexInv
  BY InitIndex, IndexStep, TypesAlways, PTL DEF Spec

\* For any roster and any number of threads that clear and refill the index over one
\* another, an entry is an account of that bot (relay.py:516).
THEOREM EntriesAreTrue == Spec => []IndexTrue
  <1>1. IndexInv => IndexTrue
    BY DEF IndexInv, OwnersInv
  <1> QED
    BY <1>1, IndexAlways, PTL

\* Once all rebuilds have ended, and if the core failed no read, every onboarded bot is
\* in the index, whatever the order in which threads cleared and filled it
\* (relay.py:502).
THEOREM NobodyIsMissing == Spec => []IndexComplete
  <1>1. IndexInv => IndexComplete
    BY DEF IndexInv, NothingMissing, Pending, IndexComplete, Rebuilding
  <1> QED
    BY <1>1, IndexAlways, PTL
-----------------------------------------------------------------------------
(* The event stream.  An account has at most one forwarder, which has at   *)
(* most the last event taken in hand; so what is merged of an account is   *)
(* in order and without gaps, from the last event pumped to the last taken. *)

OneForwarder(a) ==
    /\ running[a] = IF a \in forwarded THEN 1 ELSE 0
    /\ hand[a] \in {{}, {moved[a]}}
    /\ pumped[a] <= moved[a]

InHand(a) ==
    \A e \in hand[a] :
       /\ pumped[a] < e
       /\ \A i \in 1..Len(merged) : merged[i][1] = a => merged[i][2] < e

NoGap(a) ==
    \A e \in (pumped[a] + 1)..moved[a] :
       e \in hand[a] \/ \E i \in 1..Len(merged) : merged[i] = <<a, e>>

Between ==
    \A i \in 1..Len(merged) :
       /\ pumped[merged[i][1]] < merged[i][2]
       /\ merged[i][2] <= moved[merged[i][1]]

Increasing ==
    \A i, j \in 1..Len(merged) :
       i < j /\ merged[i][1] = merged[j][1] => merged[i][2] < merged[j][2]

StreamInv ==
    /\ \A a \in AccountIds : OneForwarder(a) /\ InHand(a) /\ NoGap(a)
    /\ Between /\ Increasing

\* Nothing has been taken at first.
LEMMA InitStream == Init => StreamInv
  BY DEF Init, StreamInv, OneForwarder, InHand, NoGap, Between, Increasing

\* Starting the forwarders that are missing does not start a second one.
LEMMA StartForwarders ==
    ASSUME Types, StreamInv, EnsureForwarders(1..created), UNCHANGED eventVars
    PROVE  StreamInv'
  <1> USE DEF eventVars
  <1>1. 1..created \subseteq AccountIds /\ StreamType
    BY Ranges DEF Types
  <1>2. ASSUME NEW a \in AccountIds PROVE OneForwarder(a)'
    <2>1. running[a] = (IF a \in forwarded THEN 1 ELSE 0)
          /\ hand[a] \in {{}, {moved[a]}} /\ pumped[a] <= moved[a]
      BY DEF StreamInv, OneForwarder
    <2>2. /\ running'[a] = running[a] + (IF a \in 1..created \ forwarded THEN 1 ELSE 0)
          /\ a \in forwarded' <=> a \in forwarded \/ a \in 1..created
      BY DEF EnsureForwarders
    <2>3. running'[a] = (IF a \in forwarded' THEN 1 ELSE 0)
      BY <2>1, <2>2
    <2> QED
      BY <2>1, <2>3 DEF OneForwarder
  <1>3. \A a \in AccountIds : InHand(a)' /\ NoGap(a)'
    BY DEF StreamInv, InHand, NoGap
  <1>4. Between' /\ Increasing'
    BY DEF StreamInv, Between, Increasing
  <1> QED
    BY <1>2, <1>3, <1>4 DEF StreamInv

\* A forwarder that waits has nothing in hand.
LEMMA WaitsEmpty ==
    ASSUME StreamType, StreamInv, NEW a \in AccountIds, Waits(a)
    PROVE  hand[a] = {} /\ a \in forwarded /\ running[a] = 1
  <1>1. hand[a] = {moved[a]} => Cardinality(hand[a]) = 1
    BY FS_Singleton
  <1>2. Cardinality(hand[a]) \in Nat
    BY FS_CardinalityType DEF StreamType
  <1> QED
    BY <1>1, <1>2 DEF StreamInv, OneForwarder, Waits

\* Taking an event makes it the one in hand.
LEMMA TakeStream ==
    ASSUME Types, StreamInv, NEW a \in AccountIds, ForwarderTakes(a)
    PROVE  StreamInv'
  <1>a. StreamType
    BY DEF Types
  <1>b. hand[a] = {} /\ a \in forwarded /\ running[a] = 1
    BY <1>a, WaitsEmpty DEF ForwarderTakes
  <1>c. moved[a] \in Nat /\ pumped[a] \in Nat
    BY <1>a DEF StreamType
  <1>1. /\ UNCHANGED <<running, forwarded, merged, pumped>>
        /\ moved'[a] = moved[a] + 1 /\ hand'[a] = {moved[a] + 1}
        /\ \A b \in AccountIds \ {a} : moved'[b] = moved[b] /\ hand'[b] = hand[b]
    BY <1>a, <1>b DEF ForwarderTakes, StreamType, forwarderVars
  <1>2. ASSUME NEW b \in AccountIds PROVE OneForwarder(b)'
    BY <1>b, <1>c, <1>1 DEF StreamInv, OneForwarder
  <1>3. ASSUME NEW i \in 1..Len(merged)
        PROVE  /\ merged[i][1] \in AccountIds /\ merged[i][2] \in Nat
               /\ pumped[merged[i][1]] < merged[i][2]
               /\ merged[i][2] <= moved[merged[i][1]]
    BY <1>a DEF StreamType, StreamInv, Between
  <1>4. ASSUME NEW b \in AccountIds PROVE InHand(b)'
    <2>1. CASE b = a
      BY <1>c, <1>1, <1>3, <2>1 DEF InHand, StreamInv, OneForwarder
    <2>2. CASE b # a
      BY <1>1, <2>2 DEF InHand, StreamInv
    <2> QED
      BY <2>1, <2>2
  <1>5. ASSUME NEW b \in AccountIds PROVE NoGap(b)'
    <2>1. CASE b = a
      <3> SUFFICES ASSUME NEW e \in (pumped[a] + 1)..(moved[a] + 1), e # moved[a] + 1
                   PROVE  \E i \in 1..Len(merged) : merged[i] = <<a, e>>
        BY <1>1, <2>1 DEF NoGap
      <3>1. e \in (pumped[a] + 1)..moved[a]
        BY <1>c
      <3> QED
        BY <1>b, <3>1 DEF StreamInv, NoGap
    <2>2. CASE b # a
      BY <1>1, <2>2 DEF NoGap, StreamInv
    <2> QED
      BY <2>1, <2>2
  <1>6. Between'
    <2> SUFFICES ASSUME NEW i \in 1..Len(merged)
                 PROVE  /\ pumped[merged[i][1]] < merged[i][2]
                        /\ merged[i][2] <= moved'[merged[i][1]]
      BY <1>1 DEF Between
    <2> QED
      BY <1>c, <1>1, <1>3
  <1>7. Increasing'
    BY <1>1 DEF StreamInv, Increasing
  <1> QED
    BY <1>2, <1>4, <1>5, <1>6, <1>7 DEF StreamInv

\* Putting it adds it behind every other event of the account.
LEMMA PutStream ==
    ASSUME Types, StreamInv, NEW a \in AccountIds, ForwarderPuts(a)
    PROVE  StreamInv'
  <1>a. StreamType
    BY DEF Types
  <1>1. PICK e \in hand[a] : /\ merged' = Append(merged, <<a, e>>)
                             /\ hand' = [hand EXCEPT ![a] = @ \ {e}]
    BY DEF ForwarderPuts
  <1>2. UNCHANGED <<running, forwarded, moved, pumped>>
    BY DEF ForwarderPuts, forwarderVars
  <1>3. e = moved[a] /\ hand'[a] = {} /\ e \in Nat /\ pumped[a] < e
        /\ \A b \in AccountIds \ {a} : hand'[b] = hand[b]
    BY <1>a, <1>1 DEF StreamType, StreamInv, OneForwarder, InHand
  <1>4. /\ Len(merged') = Len(merged) + 1 /\ Len(merged) \in Nat
        /\ merged'[Len(merged) + 1] = <<a, e>>
        /\ \A i \in 1..Len(merged) : merged'[i] = merged[i]
    BY <1>a, <1>1 DEF StreamType
  <1>5. ASSUME NEW i \in 1..Len(merged)
        PROVE  merged[i][1] \in AccountIds /\ merged[i][2] \in Nat
    <2>1. merged[i] \in AccountIds \X Nat
      BY <1>a DEF StreamType
    <2> QED
      BY <2>1
  <1>6. \A b \in AccountIds : OneForwarder(b)'
    BY <1>2, <1>3 DEF StreamInv, OneForwarder
  <1>7. ASSUME NEW b \in AccountIds PROVE InHand(b)'
    <2>1. CASE b = a
      BY <1>3, <2>1 DEF InHand
    <2>2. CASE b # a
      <3> SUFFICES ASSUME NEW d \in hand[b], NEW i \in 1..(Len(merged) + 1),
                          merged'[i][1] = b
                   PROVE  merged'[i][2] < d /\ pumped[b] < d
        BY <1>2, <1>3, <1>4, <2>2 DEF InHand, StreamInv
      <3>1. i # Len(merged) + 1
        BY <1>4, <2>2
      <3>2. i \in 1..Len(merged)
        BY <1>4, <3>1
      <3> QED
        BY <1>4, <3>2 DEF StreamInv, InHand
    <2> QED
      BY <2>1, <2>2
  <1>8. ASSUME NEW b \in AccountIds PROVE NoGap(b)'
    <2> SUFFICES ASSUME NEW d \in (pumped[b] + 1)..moved[b]
                 PROVE  d \in hand'[b] \/ \E i \in 1..Len(merged') : merged'[i] = <<b, d>>
      BY <1>2 DEF NoGap
    <2>1. CASE d \in hand[b]
      <3>1. CASE b = a
        BY <1>3, <1>4, <2>1, <3>1 DEF StreamInv, OneForwarder
      <3>2. CASE b # a
        BY <1>3, <2>1, <3>2
      <3> QED
        BY <3>1, <3>2
    <2>2. CASE \E i \in 1..Len(merged) : merged[i] = <<b, d>>
      BY <1>4, <2>2
    <2> QED
      BY <2>1, <2>2 DEF StreamInv, NoGap
  <1>9. Between'
    <2> SUFFICES ASSUME NEW i \in 1..(Len(merged) + 1)
                 PROVE  /\ pumped[merged'[i][1]] < merged'[i][2]
                        /\ merged'[i][2] <= moved[merged'[i][1]]
      BY <1>2, <1>4 DEF Between
    <2>1. CASE i = Len(merged) + 1
      BY <1>3, <1>4, <2>1
    <2>2. CASE i \in 1..Len(merged)
      BY <1>4, <2>2 DEF StreamInv, Between
    <2> QED
      BY <1>4, <2>1, <2>2
  <1>10. Increasing'
    <2> SUFFICES ASSUME NEW i \in 1..(Len(merged) + 1), NEW j \in 1..(Len(merged) + 1),
                        i < j, merged'[i][1] = merged'[j][1]
                 PROVE  merged'[i][2] < merged'[j][2]
      BY <1>4 DEF Increasing
    <2>1. i \in 1..Len(merged) /\ merged'[i] = merged[i]
      BY <1>4
    <2>2. CASE j = Len(merged) + 1
      BY <1>4, <2>1, <2>2 DEF StreamInv, InHand
    <2>3. CASE j \in 1..Len(merged)
      BY <1>4, <2>1, <2>3 DEF StreamInv, Increasing
    <2> QED
      BY <1>4, <2>2, <2>3
  <1> QED
    BY <1>6, <1>7, <1>8, <1>9, <1>10 DEF StreamInv

\* The event the pump gets is the next of its account, and the rest stays in order.
LEMMA GetStream ==
    ASSUME Types, StreamInv, PumpGets
    PROVE  /\ StreamInv'
           /\ \A a \in AccountIds : pumped'[a] # pumped[a] => pumped'[a] = pumped[a] + 1
  <1>a. StreamType
    BY DEF Types
  <1> DEFINE x == merged[1][1]
             last == merged[1][2]
  <1>1. /\ Len(merged) \in Nat /\ Len(merged) >= 1 /\ Head(merged) = merged[1]
        /\ Len(merged') = Len(merged) - 1
        /\ \A i \in 1..(Len(merged) - 1) : merged'[i] = merged[i + 1]
    BY <1>a DEF PumpGets, StreamType
  <1>2. ASSUME NEW i \in 1..Len(merged)
        PROVE  /\ merged[i][1] \in AccountIds /\ merged[i][2] \in Nat
               /\ merged[i] = <<merged[i][1], merged[i][2]>>
    BY <1>a DEF StreamType
  <1>3. /\ x \in AccountIds /\ last \in Nat
        /\ UNCHANGED <<running, forwarded, moved, hand>>
        /\ pumped'[x] = last /\ \A b \in AccountIds \ {x} : pumped'[b] = pumped[b]
    BY <1>a, <1>1, <1>2 DEF PumpGets, StreamType, forwarderVars
  <1>4. pumped[x] \in Nat /\ moved[x] \in Nat /\ pumped[x] < last /\ last <= moved[x]
    BY <1>a, <1>1, <1>3 DEF StreamType, StreamInv, Between
  <1>5. ASSUME NEW i \in 1..Len(merged), i > 1, merged[i][1] = x
        PROVE  last < merged[i][2]
    BY <1>1, <1>5 DEF StreamInv, Increasing
  <1>6. ASSUME NEW d \in hand[x] PROVE last < d
    BY <1>1, <1>3 DEF StreamInv, InHand
  <1>7. last = pumped[x] + 1
    <2>1. pumped[x] + 1 \in (pumped[x] + 1)..moved[x]
      BY <1>3, <1>4
    <2>2. pumped[x] + 1 \notin hand[x]
      BY <1>3, <1>4, <1>6
    <2>3. PICK i \in 1..Len(merged) : merged[i] = <<x, pumped[x] + 1>>
      BY <1>3, <2>1, <2>2 DEF StreamInv, NoGap
    <2>4. ~(i > 1)
      BY <1>3, <1>4, <1>5, <2>3
    <2>5. i = 1
      BY <1>1, <2>4
    <2> QED
      BY <2>3, <2>5
  <1>8. ASSUME NEW b \in AccountIds PROVE OneForwarder(b)'
    BY <1>3, <1>4 DEF StreamInv, OneForwarder
  <1>9. ASSUME NEW b \in AccountIds PROVE InHand(b)'
    <2> SUFFICES ASSUME NEW d \in hand[b]
                 PROVE  /\ pumped'[b] < d
                        /\ \A i \in 1..(Len(merged) - 1) : merged'[i][1] = b => merged'[i][2] < d
      BY <1>1, <1>3 DEF InHand
    <2>1. pumped'[b] < d
      BY <1>3, <1>6 DEF StreamInv, InHand
    <2>2. \A i \in 1..(Len(merged) - 1) : i + 1 \in 1..Len(merged)
      BY <1>1
    <2> QED
      BY <1>1, <2>1, <2>2 DEF StreamInv, InHand
  <1>10. ASSUME NEW b \in AccountIds PROVE NoGap(b)'
    <2> SUFFICES ASSUME NEW e \in (pumped'[b] + 1)..moved[b], e \notin hand[b]
                 PROVE  \E i \in 1..(Len(merged) - 1) : merged'[i] = <<b, e>>
      BY <1>1, <1>3 DEF NoGap
    <2>1. pumped[b] \in Nat /\ moved[b] \in Nat
      BY <1>a DEF StreamType
    <2>2. e \in (pumped[b] + 1)..moved[b] /\ (b = x => e > last)
      BY <1>3, <1>4, <2>1
    <2>3. PICK i \in 1..Len(merged) : merged[i] = <<b, e>>
      BY <2>2 DEF StreamInv, NoGap
    <2>4. i # 1
      BY <1>3, <2>2, <2>3
    <2>5. i - 1 \in 1..(Len(merged) - 1) /\ (i - 1) + 1 = i
      BY <1>1, <2>4
    <2>6. merged'[i - 1] = <<b, e>>
      BY <1>1, <2>3, <2>5
    <2> QED
      BY <2>5, <2>6
  <1>11. Between'
    <2> SUFFICES ASSUME NEW i \in 1..(Len(merged) - 1)
                 PROVE  /\ pumped'[merged[i + 1][1]] < merged[i + 1][2]
                        /\ merged[i + 1][2] <= moved[merged[i + 1][1]]
      BY <1>1, <1>3 DEF Between
    <2>1. i + 1 \in 1..Len(merged) /\ i + 1 > 1
      BY <1>1
    <2>2. /\ pumped[merged[i + 1][1]] < merged[i + 1][2]
          /\ merged[i + 1][2] <= moved[merged[i + 1][1]]
      BY <2>1 DEF StreamInv, Between
    <2> QED
      BY <1>2, <1>3, <1>5, <2>1, <2>2
  <1>12. Increasing'
    <2> SUFFICES ASSUME NEW i \in 1..(Len(merged) - 1), NEW j \in 1..(Len(merged) - 1),
                        i < j, merged'[i][1] = merged'[j][1]
                 PROVE  merged'[i][2] < merged'[j][2]
      BY <1>1 DEF Increasing
    <2>1. i + 1 \in 1..Len(merged) /\ j + 1 \in 1..Len(merged) /\ i + 1 < j + 1
      BY <1>1
    <2>2. merged'[i] = merged[i + 1] /\ merged'[j] = merged[j + 1]
      BY <1>1
    <2> QED
      BY <2>1, <2>2 DEF StreamInv, Increasing
  <1>13. StreamInv'
    BY <1>8, <1>9, <1>10, <1>11, <1>12 DEF StreamInv
  <1> QED
    BY <1>3, <1>7, <1>13

\* Steps that leave the stream alone.
LEMMA StreamAlone ==
    ASSUME StreamInv, UNCHANGED <<forwarded, running, moved, hand, merged, pumped>>
    PROVE  StreamInv'
  BY DEF StreamInv, OneForwarder, InHand, NoGap, Between, Increasing

\* Every step keeps the stream in order, and the pump's step takes the next event.
LEMMA StreamStep ==
    ASSUME Types, StreamInv, [Next]_vars
    PROVE  /\ StreamInv'
           /\ \A a \in AccountIds : pumped'[a] # pumped[a] => pumped'[a] = pumped[a] + 1
  <1> USE DEF eventVars, forwarderVars
  <1>a. StreamType
    BY DEF Types
  <1>1. CASE PumpGets
    BY <1>1, GetStream
  <1>2. CASE ~PumpGets
    <2>1. UNCHANGED pumped
      BY <1>2 DEF Next, Reconcile, Rebuild, List, ListRaises, Fill, FillSkips, LookupMisses,
                  ReconcileOnce, PassEnds, EnsureKnown, EnsureAgain, EnsureMisreads,
                  AddAccount, AddRaises, Setup, SetupRaises, Clear, Pump, PumpStarts,
                  PumpIdles, Emit, Forwarder, ForwarderTakes, ForwarderPuts, ForwarderDies,
                  vars
    <2>2. ASSUME NEW t \in Threads, Rebuild(t) PROVE StreamInv'
      BY <2>2, StartForwarders, StreamAlone DEF Rebuild, List, ListRaises, Fill, FillSkips
    <2>3. ASSUME Reconcile PROVE StreamInv'
      <3>1. CASE Rebuild(Pass)
        BY <2>2, <3>1 DEF Threads
      <3> QED
        BY <2>3, <3>1, StreamAlone
           DEF Reconcile, ReconcileOnce, PassEnds, EnsureKnown, EnsureAgain,
               EnsureMisreads, AddAccount, AddRaises, Setup, SetupRaises, Clear
    <2>4. ASSUME NEW c \in Callers, NEW n \in Names, LookupMisses(c, n) PROVE StreamInv'
      BY <2>4, StreamAlone DEF LookupMisses
    <2>5. ASSUME PumpStarts \/ PumpIdles PROVE StreamInv'
      BY <2>5, StartForwarders DEF PumpStarts, PumpIdles
    <2>6. ASSUME NEW a \in AccountIds, ForwarderDies(a) PROVE StreamInv'
      <3>1. hand[a] = {} /\ a \in forwarded /\ running[a] = 1
        BY <1>a, <2>6, WaitsEmpty DEF ForwarderDies
      <3>2. /\ UNCHANGED <<moved, hand, merged, pumped>> /\ forwarded' = forwarded \ {a}
            /\ running'[a] = 0 /\ \A b \in AccountIds \ {a} : running'[b] = running[b]
        BY <1>a, <2>6, <3>1 DEF ForwarderDies, StreamType
      <3>3. \A b \in AccountIds : OneForwarder(b)'
        BY <3>1, <3>2 DEF StreamInv, OneForwarder
      <3>4. \A b \in AccountIds : InHand(b)' /\ NoGap(b)'
        BY <3>2 DEF StreamInv, InHand, NoGap
      <3>5. Between' /\ Increasing'
        BY <3>2 DEF StreamInv, Between, Increasing
      <3> QED
        BY <3>3, <3>4, <3>5 DEF StreamInv
    <2>7. ASSUME NEW a \in AccountIds, Emit(a) PROVE StreamInv'
      BY <2>7, StreamAlone DEF Emit
    <2>8. ASSUME UNCHANGED vars PROVE StreamInv'
      BY <2>8, StreamAlone DEF vars
    <2>9. StreamInv'
      BY <1>2, <2>2, <2>3, <2>4, <2>5, <2>6, <2>7, <2>8, TakeStream, PutStream
         DEF Next, Pump, Forwarder, Threads
    <2> QED
      BY <2>1, <2>9
  <1> QED
    BY <1>1, <1>2

\* For any number of accounts and events, and however often forwarders die and are
\* started by the pump and by rebuilds, the pump gets each account's events once and in
\* the core's order (relay.py:834).
THEOREM StreamInOrder == Spec => EventsInOrder
  <1>1. Spec => []StreamInv
    <2>1. Types /\ StreamInv /\ [Next]_vars => StreamInv'
      BY StreamStep
    <2> QED
      BY <2>1, InitStream, TypesAlways, PTL DEF Spec
  <1>2. Types /\ StreamInv /\ [Next]_vars
          => [\A a \in AccountIds : pumped'[a] # pumped[a] => pumped'[a] = pumped[a] + 1]_vars
    BY StreamStep
  <1> QED
    BY <1>1, <1>2, TypesAlways, PTL DEF Spec, EventsInOrder
=============================================================================
