------------------------- MODULE CredentialsProofs -------------------------
(***************************************************************************)
(* What holds of the credentials for any roster and any number of          *)
(* failures: their type, that the state-loss guard reports a loss only     *)
(* when there was one, and that the two processes that mint passwords into *)
(* one item never lock a configured bot out.                               *)
(***************************************************************************)
EXTENDS Credentials, TLAPS

WorldType ==
    /\ backend \in {"local", "opconnect"} /\ left \in [Kinds -> Nat]
    /\ minted \in Nat
    /\ item \in [Bots -> Password] /\ rotated \in [Bots -> Password]
    /\ server \in [Bots -> Password] /\ core \in [Bots -> Password]
    /\ memory \in [Bots -> Password] /\ file \in [Bots -> Password]

GuardType ==
    /\ bound \subseteq Bots /\ known \subseteq Bots /\ registry \subseteq Bots
    /\ unsaved \subseteq Bots /\ alarm \subseteq Bots /\ provisioned \subseteq Bots
    /\ wiped \in BOOLEAN

ProcessType ==
    /\ pc \in [Processes -> {"idle", "get", "put", "login", "set", "update"}]
    /\ todo \in [Processes -> Seq(Bots)]
    /\ snap \in [Processes -> [Bots -> Password]]
    /\ pw \in [Processes -> Password]
    /\ \A p \in Processes :
          pc[p] \in {"put", "login", "set", "update"} => todo[p] # <<>>
    /\ pc[Pass] \notin {"set", "update"} /\ pc[Sync] # "login"

Types == WorldType /\ GuardType /\ ProcessType

LEMMA TypesImplyTypeOK == Types => TypeOK
  BY DEF Types, WorldType, GuardType, ProcessType, TypeOK

\* There are two processes.
LEMMA TwoProcesses == Pass \in Processes /\ Sync \in Processes /\ Pass # Sync
  BY RosterAssumption DEF Processes

\* Nothing is minted at first.
LEMMA InitTypes == Init => Types
  <1> SUFFICES ASSUME Init PROVE Types
    OBVIOUS
  <1>1. backend \in {"local", "opconnect"} /\ left \in [Kinds -> Nat] /\ minted = 0
    BY ScenariosAssumption DEF Init, Scenario
  <1>2. WorldType
    BY <1>1 DEF Init, WorldType, NoPasswords, Password
  <1>3. GuardType
    BY DEF Init, GuardType
  <1>4. ProcessType
    BY <1>1, TwoProcesses DEF Init, ProcessType, NoPasswords, Password
  <1> QED
    BY <1>2, <1>3, <1>4 DEF Types

\* A bound that is used up by one stays a bound.
LEMMA MayType ==
    ASSUME left \in [Kinds -> Nat], NEW k \in Kinds, May(k)
    PROVE  left' \in [Kinds -> Nat]
  <1>1. left[k] \in Nat /\ left[k] - 1 \in Nat
    BY DEF May
  <1> QED
    BY <1>1 DEF May

\* A process that turns to its next bot, leaves or raises keeps its type.
LEMMA TurnType ==
    ASSUME ProcessType, NEW p \in Processes,
           Leave(p) \/ (todo[p] # <<>> /\ (NextBot(p) \/ Raise(p))),
           minted \in Nat, minted' = minted
    PROVE  ProcessType'
  <1> DEFINE Turned ==
        /\ \E where \in {"get", "idle"} : pc' = [pc EXCEPT ![p] = where]
        /\ \E rest \in Seq(Bots) : todo' = [todo EXCEPT ![p] = rest]
  <1>1. Turned
    <2>1. ASSUME Leave(p) PROVE Turned
      <3>1. <<>> \in Seq(Bots)
        OBVIOUS
      <3>2. \E where \in {"get", "idle"} : pc' = [pc EXCEPT ![p] = where]
        BY <2>1 DEF Leave, Go
      <3>3. \E rest \in Seq(Bots) : todo' = [todo EXCEPT ![p] = rest]
        BY <2>1, <3>1, Zenon DEF Leave
      <3> QED
        BY <3>2, <3>3
    <2>2. ASSUME todo[p] # <<>>, NextBot(p) PROVE Turned
      <3>1. Tail(todo[p]) \in Seq(Bots)
        BY <2>2 DEF ProcessType
      <3> QED
        BY <2>2, <3>1 DEF NextBot, Go
    <2>3. Leave(p) \/ (todo[p] # <<>> /\ NextBot(p))
      BY DEF Raise
    <2> HIDE DEF Turned
    <2> QED
      BY <2>1, <2>2, <2>3
  <1>2. Drop(p)
    BY DEF NextBot, Leave, Raise
  <1>3. pc' \in [Processes -> {"idle", "get", "put", "login", "set", "update"}]
        /\ todo' \in [Processes -> Seq(Bots)]
    BY <1>1 DEF ProcessType
  <1>4. snap' \in [Processes -> [Bots -> Password]] /\ pw' \in [Processes -> Password]
    BY <1>2 DEF Drop, NoPasswords, Password, ProcessType
  <1>5. \A q \in Processes :
          pc'[q] \in {"put", "login", "set", "update"} => todo'[q] # <<>>
    BY <1>1 DEF ProcessType
  <1>6. pc'[Pass] \notin {"set", "update"} /\ pc'[Sync] # "login"
    BY <1>1, TwoProcesses DEF ProcessType
  <1>7. Password' = Password
    BY DEF Password
  <1> QED
    BY <1>3, <1>4, <1>5, <1>6, <1>7 DEF ProcessType

\* What is minted is a password, and so is what was one.
LEMMA MintType ==
    ASSUME minted \in Nat, minted' = minted \/ minted' = minted + 1
    PROVE  minted' \in Nat /\ Password \subseteq Password' /\ minted' \in Password'
  BY DEF Password

\* get_or_create of either process keeps the type.
LEMMA GetTypes ==
    ASSUME Types, NEW p \in Processes, GetOrCreate(p) \/ Start(p)
    PROVE  Types'
  <1> USE DEF world, local, guard
  <1>a. WorldType /\ GuardType /\ ProcessType /\ "request" \in Kinds /\ minted \in Nat
    BY DEF Types, Kinds, WorldType
  <1>b. todo[p] # <<>> => Bot(p) \in Bots
    BY <1>a DEF ProcessType, Bot
  <1>c. Pass \in Processes /\ Sync \in Processes /\ Pass # Sync
    BY TwoProcesses
  <1>1. CASE Start(p)
    <2>1. WorldType'
      BY <1>a, <1>1 DEF Start, WorldType, Password
    <2>2. GuardType'
      BY <1>a, <1>1 DEF Start, GuardType
    <2>3. ProcessType'
      BY <1>a, <1>c, <1>1, RosterAssumption DEF Start, Go, ProcessType, Password
    <2> QED
      BY <2>1, <2>2, <2>3 DEF Types
  <1>2. CASE ReadItem(p)
    <2>1. GuardType'
      BY <1>a, <1>2 DEF ReadItem, GuardType
    <2>2. /\ minted' = minted \/ minted' = minted + 1
          /\ snap' = snap \/ snap' = [snap EXCEPT ![p] = item]
          /\ \E w \in Password' : pw' = [pw EXCEPT ![p] = w]
          /\ \/ Go(p, "put")
             \/ p = Pass /\ Go(p, "login")
             \/ p # Pass /\ Go(p, "set")
      <3>1. item[Bot(p)] \in Password
        BY <1>a, <1>b, <1>2 DEF ReadItem, WorldType
      <3> QED
        BY <1>a, <1>2, <3>1, MintType DEF ReadItem, Got
    <2>3. Password \subseteq Password' /\ minted' \in Nat
      BY <1>a, <2>2, MintType
    <2>4. WorldType'
      BY <1>a, <1>2, <2>3 DEF ReadItem, WorldType
    <2>5. snap' \in [Processes -> [Bots -> Password']] /\ pw' \in [Processes -> Password']
      <3>1. \A f \in [Bots -> Password] : f \in [Bots -> Password']
        BY <2>3
      <3>2. item \in [Bots -> Password']
        BY <1>a, <3>1 DEF WorldType
      <3>3. snap \in [Processes -> [Bots -> Password']]
        BY <1>a, <3>1 DEF ProcessType
      <3> QED
        BY <1>a, <2>2, <2>3, <3>2, <3>3 DEF ProcessType
    <2>6. pc' \in [Processes -> {"idle", "get", "put", "login", "set", "update"}]
          /\ pc'[Pass] \notin {"set", "update"} /\ pc'[Sync] # "login"
      <3>1. CASE p = Pass
        BY <1>a, <1>c, <2>2, <3>1 DEF Go, ProcessType
      <3>2. CASE p = Sync
        BY <1>a, <1>c, <2>2, <3>2 DEF Go, ProcessType
      <3> QED
        BY <3>1, <3>2 DEF Processes
    <2>7. todo' = todo /\ \A q \in Processes :
              pc'[q] \in {"put", "login", "set", "update"} => todo'[q] # <<>>
      BY <1>a, <1>2, <2>2 DEF ReadItem, Go, ProcessType
    <2>8. ProcessType'
      BY <1>a, <2>5, <2>6, <2>7 DEF ProcessType
    <2> QED
      BY <2>1, <2>4, <2>8 DEF Types
  <1>3. CASE ReadRaises(p)
    <2>1. WorldType'
      BY <1>a, <1>3, MayType DEF ReadRaises, WorldType, Password
    <2>2. GuardType'
      BY <1>a, <1>3 DEF ReadRaises, GuardType
    <2>3. ProcessType'
      BY <1>a, <1>3, TurnType DEF ReadRaises
    <2> QED
      BY <2>1, <2>2, <2>3 DEF Types
  <1>4. ASSUME pc[p] = "put"
        PROVE  Written(p) \in [Bots -> Password] /\ todo[p] # <<>>
    BY <1>a, <1>b, <1>4 DEF ProcessType, Written
  <1>5. CASE PutItem(p)
    <2>1. WorldType'
      BY <1>a, <1>4, <1>5 DEF PutItem, WorldType, Password
    <2>2. GuardType'
      BY <1>a, <1>5 DEF PutItem, GuardType
    <2>3. (p = Pass /\ Go(p, "login")) \/ (p # Pass /\ Go(p, "set"))
      BY <1>5 DEF PutItem, Got
    <2>4. ProcessType'
      <3>1. UNCHANGED <<todo, snap, pw, minted>> /\ todo[p] # <<>>
        BY <1>4, <1>5 DEF PutItem
      <3>2. CASE p = Pass
        BY <1>a, <1>c, <2>3, <3>1, <3>2 DEF Go, ProcessType, Password
      <3>3. CASE p = Sync
        BY <1>a, <1>c, <2>3, <3>1, <3>3 DEF Go, ProcessType, Password
      <3> QED
        BY <3>2, <3>3 DEF Processes
    <2> QED
      BY <2>1, <2>2, <2>4 DEF Types
  <1>6. CASE PutRaises(p)
    <2>1. WorldType'
      BY <1>a, <1>4, <1>6, MayType DEF PutRaises, WorldType, Password
    <2>2. GuardType'
      BY <1>a, <1>6 DEF PutRaises, GuardType
    <2>3. ProcessType'
      BY <1>a, <1>4, <1>6, TurnType DEF PutRaises
    <2> QED
      BY <2>1, <2>2, <2>3 DEF Types
  <1> QED
    BY <1>1, <1>2, <1>3, <1>5, <1>6 DEF GetOrCreate

\* The local store keeps it.
LEMMA LocalTypes ==
    ASSUME Types, GetLocal \/ MintLocal \/ MintRaises
    PROVE  Types'
  <1> USE DEF world, local, guard
  <1>a. WorldType /\ GuardType /\ ProcessType /\ "write" \in Kinds /\ minted \in Nat
    BY DEF Types, Kinds, WorldType
  <1>b. /\ Pass \in Processes /\ Sync \in Processes /\ Pass # Sync
        /\ todo[Pass] # <<>> /\ Bot(Pass) \in Bots
    BY <1>a, TwoProcesses DEF ProcessType, Bot, GetLocal, MintLocal, MintRaises
  <1>c. GuardType'
    BY <1>a DEF GetLocal, MintLocal, MintRaises, GuardType
  <1>d. minted' = minted \/ minted' = minted + 1
    BY DEF GetLocal, MintLocal, MintRaises
  <1>e. minted' \in Nat /\ Password \subseteq Password' /\ minted' \in Password'
    BY <1>a, <1>d, MintType
  <1>1. CASE GetLocal \/ MintLocal
    <2>1. Go(Pass, "login") /\ UNCHANGED <<todo, snap, left, backend, world, core>>
      BY <1>1 DEF GetLocal, MintLocal, Got
    <2>2. \E w \in Password' : pw' = [pw EXCEPT ![Pass] = w]
      <3>1. memory[Bot(Pass)] \in Password
        BY <1>a, <1>b DEF WorldType
      <3> QED
        BY <1>1, <1>e, <3>1 DEF GetLocal, MintLocal
    <2>3. memory' \in [Bots -> Password'] /\ file' \in [Bots -> Password']
      BY <1>a, <1>b, <1>e, <1>1 DEF GetLocal, MintLocal, WorldType
    <2>4. WorldType'
      BY <1>a, <1>e, <2>1, <2>3 DEF WorldType
    <2>5. ProcessType'
      BY <1>a, <1>b, <1>e, <2>1, <2>2 DEF Go, ProcessType
    <2> QED
      BY <1>c, <2>4, <2>5 DEF Types
  <1>2. CASE MintRaises
    <2>1. left' \in [Kinds -> Nat] /\ memory' \in [Bots -> Password']
      BY <1>a, <1>b, <1>e, <1>2, MayType DEF MintRaises, WorldType
    <2>2. WorldType'
      BY <1>a, <1>e, <1>2, <2>1 DEF MintRaises, WorldType
    <2>3. Leave(Pass)
      BY <1>2 DEF MintRaises, Raise
    <2>4. /\ pc' = [pc EXCEPT ![Pass] = "idle"] /\ todo' = [todo EXCEPT ![Pass] = <<>>]
          /\ snap' = [snap EXCEPT ![Pass] = NoPasswords] /\ pw' = [pw EXCEPT ![Pass] = 0]
      BY <2>3 DEF Leave, Go, Drop
    <2>5. snap' \in [Processes -> [Bots -> Password']] /\ pw' \in [Processes -> Password']
      <3>1. \A f \in [Bots -> Password] : f \in [Bots -> Password']
        BY <1>e
      <3>2. snap \in [Processes -> [Bots -> Password']]
        BY <1>a, <3>1 DEF ProcessType
      <3>3. 0 \in Password' /\ NoPasswords \in [Bots -> Password']
        BY <1>e DEF NoPasswords, Password
      <3> QED
        BY <1>a, <1>e, <2>4, <3>2, <3>3 DEF ProcessType
    <2>6. ProcessType'
      BY <1>a, <1>b, <2>4, <2>5 DEF ProcessType
    <2> QED
      BY <1>c, <2>2, <2>6 DEF Types
  <1> QED
    BY <1>1, <1>2

\* So does the rest of the pass, the rest of the sync, and what goes wrong.
LEMMA OtherTypes ==
    ASSUME Types,
           \/ AlreadyOnboarded \/ LogIn \/ LogInFails \/ Mark \/ MarkRaises
           \/ SetPassword \/ SetAnswerLost \/ UpdateUser \/ SyncRaises
           \/ SyncEnds \/ SyncDies
           \/ \E lost \in BOOLEAN : Restart(lost)
    PROVE  Types'
  <1> USE DEF world, local, guard
  <1>a. /\ WorldType /\ GuardType /\ ProcessType /\ minted \in Nat
        /\ {"request", "write", "restart", "wipe"} \subseteq Kinds
    BY DEF Types, Kinds, WorldType
  <1>b. Pass \in Processes /\ Sync \in Processes /\ Pass # Sync
    BY TwoProcesses
  <1>c. \A p \in Processes : todo[p] # <<>> => Bot(p) \in Bots
    BY <1>a DEF ProcessType, Bot
  <1>1. CASE AlreadyOnboarded \/ LogIn \/ LogInFails
    <2>1. pc[Pass] = "login" /\ todo[Pass] # <<>> /\ Bot(Pass) \in Bots /\ NextBot(Pass)
          /\ minted' = minted
      BY <1>a, <1>b, <1>c, <1>1 DEF AlreadyOnboarded, LogIn, LogInFails, ProcessType
    <2>2. ProcessType'
      BY <1>a, <1>b, <2>1, TurnType
    <2>3. GuardType'
      BY <1>a, <1>1, <2>1 DEF AlreadyOnboarded, LogIn, LogInFails, GuardType
    <2>4. left' \in [Kinds -> Nat]
      BY <1>a, <1>1, MayType DEF AlreadyOnboarded, LogIn, LogInFails, WorldType
    <2>5. pw[Pass] \in Password
      BY <1>a, <1>b DEF ProcessType
    <2>6. WorldType'
      BY <1>a, <1>1, <2>1, <2>4, <2>5 DEF AlreadyOnboarded, LogIn, LogInFails, WorldType, Password
    <2> QED
      BY <2>2, <2>3, <2>6 DEF Types
  <1>2. CASE Mark \/ MarkRaises
    <2>1. Leave(Pass) /\ minted' = minted
      BY <1>2 DEF Mark, MarkRaises
    <2>2. ProcessType'
      BY <1>a, <1>b, <2>1, TurnType
    <2>3. GuardType'
      BY <1>a, <1>2 DEF Mark, MarkRaises, GuardType
    <2>4. left' \in [Kinds -> Nat]
      BY <1>a, <1>2, MayType DEF Mark, MarkRaises, WorldType
    <2>5. WorldType'
      BY <1>a, <1>2, <2>1, <2>4 DEF Mark, MarkRaises, WorldType, Password
    <2> QED
      BY <2>2, <2>3, <2>5 DEF Types
  <1>3. CASE SetPassword
    <2>1. pw[Sync] \in Password /\ Bot(Sync) \in Bots
      BY <1>a, <1>b, <1>c, <1>3 DEF SetPassword, ProcessType
    <2>2. WorldType'
      BY <1>a, <1>3, <2>1 DEF SetPassword, WorldType, Password
    <2>3. GuardType'
      BY <1>a, <1>3 DEF SetPassword, GuardType
    <2>4. ProcessType'
      BY <1>a, <1>b, <1>3 DEF SetPassword, Go, ProcessType, Password
    <2> QED
      BY <2>2, <2>3, <2>4 DEF Types
  <1>4. CASE SetAnswerLost \/ UpdateUser \/ SyncRaises \/ SyncEnds \/ SyncDies
    <2> USE DEF SetAnswerLost, UpdateUser, SyncRaises, SyncEnds, SyncDies
    <2>1. Leave(Sync) \/ (todo[Sync] # <<>> /\ NextBot(Sync))
      BY <1>a, <1>b, <1>4 DEF ProcessType
    <2>2. minted' = minted
      BY <1>4
    <2>3. ProcessType'
      BY <1>a, <1>b, <2>1, <2>2, TurnType
    <2>4. /\ SetAnswerLost \/ UpdateUser \/ SyncRaises => Bot(Sync) \in Bots
          /\ pw[Sync] \in Password
      BY <1>a, <1>b, <1>c DEF ProcessType
    <2>5. GuardType'
      BY <1>a, <1>4, <2>4 DEF GuardType
    <2>6. left' \in [Kinds -> Nat]
      BY <1>a, <1>4, MayType DEF WorldType
    <2>7. WorldType'
      BY <1>a, <1>4, <2>2, <2>4, <2>6 DEF WorldType, Password
    <2> QED
      BY <2>3, <2>5, <2>7 DEF Types
  <1>5. ASSUME NEW lost \in BOOLEAN, Restart(lost) PROVE Types'
    <2>1. Leave(Pass) /\ minted' = minted /\ (core' = core \/ core' = NoPasswords)
      BY <1>5 DEF Restart
    <2>2. ProcessType'
      BY <1>a, <1>b, <2>1, TurnType
    <2>3. wiped' \in BOOLEAN
      BY <1>a, <1>5, Zenon DEF Restart, GuardType
    <2>4. /\ alarm' \subseteq Bots /\ known' = registry /\ unsaved' = {}
          /\ UNCHANGED <<bound, registry, provisioned>>
      BY <1>a, <1>5 DEF Restart, GuardType
    <2>5. GuardType'
      BY <1>a, <2>3, <2>4 DEF GuardType
    <2>6. left' \in [Kinds -> Nat]
      BY <1>a, <1>5, MayType DEF Restart, WorldType
    <2>7. core' \in [Bots -> Password]
      BY <1>a, <2>1 DEF WorldType, NoPasswords, Password
    <2>8. UNCHANGED <<backend, item, rotated, server, file>> /\ memory' = file
      BY <1>5 DEF Restart
    <2>9. WorldType'
      BY <1>a, <2>1, <2>6, <2>7, <2>8 DEF WorldType, Password
    <2> QED
      BY <2>2, <2>5, <2>9 DEF Types
  <1> QED
    BY <1>1, <1>2, <1>3, <1>4, <1>5

\* Every step keeps the type.
LEMMA TypesStep == Types /\ [Next]_vars => Types'
  <1> SUFFICES ASSUME Types, [Next]_vars PROVE Types'
    OBVIOUS
  <1> USE DEF world, local, guard
  <1>a. WorldType /\ GuardType /\ ProcessType
    BY DEF Types
  <1>1. ASSUME NEW b \in Bots, Rotate(b) PROVE Types'
    <2>1. /\ minted \in Nat /\ minted' = minted + 1 /\ "rotation" \in Kinds
          /\ item' = [item EXCEPT ![b] = minted'] /\ rotated' = [rotated EXCEPT ![b] = minted']
      BY <1>a, <1>1 DEF Rotate, Kinds, WorldType
    <2>2. minted' \in Nat /\ Password \subseteq Password' /\ minted' \in Password'
      BY <2>1, MintType
    <2>3. left' \in [Kinds -> Nat]
      BY <1>a, <1>1, <2>1, MayType DEF Rotate, WorldType
    <2>4. WorldType'
      BY <1>a, <1>1, <2>1, <2>2, <2>3 DEF Rotate, WorldType
    <2>5. GuardType'
      BY <1>a, <1>1 DEF Rotate, GuardType
    <2>6. ProcessType'
      BY <1>a, <1>1, <2>2 DEF Rotate, ProcessType
    <2> QED
      BY <2>4, <2>5, <2>6 DEF Types
  <1>2. CASE UNCHANGED vars
    <2> USE DEF vars
    <2>1. WorldType'
      BY <1>a, <1>2 DEF WorldType, Password
    <2>2. GuardType'
      BY <1>a, <1>2 DEF GuardType
    <2>3. ProcessType'
      BY <1>a, <1>2 DEF ProcessType, Password
    <2> QED
      BY <2>1, <2>2, <2>3 DEF Types
  <1> QED
    BY <1>1, <1>2, GetTypes, LocalTypes, OtherTypes, TwoProcesses
       DEF Next, Reconcile, SyncRoster

LEMMA TypesAlways == Spec => []Types
  BY InitTypes, TypesStep, PTL DEF Spec

\* The type invariant holds for any roster and any number of failures (main.py:268).
THEOREM TypeCorrect == Spec => []TypeOK
  BY TypesAlways, TypesImplyTypeOK, PTL
-----------------------------------------------------------------------------
(* The item.  A password that a process is about to put is nowhere else.   *)
(* Once the mail server and the item, or the server and the pass, have the *)
(* same password for a bot, the sync has no other one for it to put, so    *)
(* that it stays.  This is so for every bot whose password nobody rotates. *)

Busy == {"put", "login", "set", "update"}

HandInv == \A p \in Processes : pc[p] \in Busy => pw[p] # 0

LocalInv == backend = "local" => pc[Sync] = "idle" /\ pc[Pass] # "put"

FreshInv ==
    pc[Pass] = "put" =>
        /\ pw[Sync] # pw[Pass]
        /\ \A b \in Bots : pw[Pass] \notin {server[b], item[b], snap[Sync][b]}

\* The mail server has the password, or the sync is about to set it.
Claimed(b, v) ==
    \/ server[b] = v
    \/ pc[Sync] \in {"set", "update"} /\ Bot(Sync) = b /\ pw[Sync] = v

\* The pass has the password, from where it may get into the core or the item.
PassHas(b, v) ==
    \/ core[b] = v
    \/ pc[Pass] = "login" /\ Bot(Pass) = b /\ pw[Pass] = v
    \/ pc[Pass] = "put" /\ Bot(Pass) # b /\ snap[Pass][b] = v

\* The item has it, and the sync does nothing to it.
Settled(b, v) ==
    /\ item[b] = v
    /\ pc[Sync] = "put" => Bot(Sync) # b /\ snap[Sync][b] = v
    /\ pc[Sync] \in {"set", "update"} /\ Bot(Sync) = b => pw[Sync] = v

Agreement(b) ==
    \A v : v # 0 /\ (item[b] = v \/ PassHas(b, v)) /\ Claimed(b, v) => Settled(b, v)

CoreInv(b) ==
    core[b] # 0 => /\ server[b] = core[b]
                   /\ pc[Pass] = "put" => Bot(Pass) # b /\ snap[Pass][b] = core[b]

ItemInv ==
    \A b \in Bots :
        rotated[b] = 0 => CoreInv(b) /\ (backend = "opconnect" => Agreement(b))

LoginInv == HandInv /\ LocalInv /\ FreshInv /\ ItemInv

\* What a process has of its own.
Own(p) == <<pc[p], todo[p], snap[p], pw[p]>>

LEMMA InitLogin == Init => LoginInv
  BY TwoProcesses
     DEF Init, LoginInv, HandInv, LocalInv, FreshInv, ItemInv, CoreInv, Agreement, PassHas,
         Claimed, Settled, NoPasswords, Busy

\* A process that turns away has nothing in hand.
LEMMA TurnAway ==
    ASSUME ProcessType, NEW p \in Processes, NextBot(p) \/ Leave(p) \/ Raise(p)
    PROVE  /\ pc'[p] \in {"get", "idle"} /\ pw'[p] = 0 /\ snap'[p] = NoPasswords
           /\ \A q \in Processes \ {p} : Own(q)' = Own(q)
  <1>1. \/ NextBot(p) \/ Leave(p)
    BY DEF Raise
  <1> QED
    BY <1>1 DEF NextBot, Leave, Go, Drop, Own, ProcessType

\* Only process p moves, and the item, the mail server and the backend stay.
Others(p) == \A q \in Processes \ {p} : Own(q)' = Own(q)

\* It turns away from its bot; the accounts of the core may be lost with it.
Quiet(p) ==
    /\ Others(p) /\ UNCHANGED <<item, server, rotated, backend>>
    /\ core' = core \/ core' = NoPasswords
    /\ pc'[p] \in {"get", "idle"}
    /\ pw'[p] \in {0, pw[p]} /\ snap'[p] \in {snap[p], NoPasswords}

LEMMA QuietSteps ==
    ASSUME Types, NEW p \in Processes,
           \/ Start(p) \/ ReadRaises(p)
           \/ /\ p = Pass
              /\ \/ MintRaises \/ AlreadyOnboarded \/ LogInFails \/ Mark \/ MarkRaises
                 \/ \E lost \in BOOLEAN : Restart(lost)
           \/ p = Sync /\ (UpdateUser \/ SyncRaises \/ SyncEnds \/ SyncDies)
    PROVE  Quiet(p)
  <1> USE DEF world, local
  <1>1. ProcessType
    BY DEF Types
  <1>2. CASE Start(p)
    BY <1>1, <1>2 DEF Start, Go, Own, Others, Quiet, ProcessType, Processes
  <1>3. CASE ~Start(p)
    <2>1. NextBot(p) \/ Leave(p) \/ Raise(p)
      BY <1>3 DEF ReadRaises, MintRaises, AlreadyOnboarded, LogInFails, Mark, MarkRaises,
                  Restart, UpdateUser, SyncRaises, SyncEnds, SyncDies
    <2>2. UNCHANGED <<item, server, rotated, backend>> /\ (core' = core \/ core' = NoPasswords)
      BY <1>3 DEF ReadRaises, MintRaises, AlreadyOnboarded, LogInFails, Mark, MarkRaises,
                  Restart, UpdateUser, SyncRaises, SyncEnds, SyncDies
    <2> QED
      BY <1>1, <2>1, <2>2, TurnAway DEF Quiet, Others
  <1> QED
    BY <1>2, <1>3

LEMMA QuietLogin ==
    ASSUME Types, Types', LoginInv, NEW p \in Processes, Quiet(p),
           p = Pass \/ backend = "opconnect"
    PROVE  LoginInv'
  <1>a. ProcessType /\ ProcessType' /\ WorldType /\ Pass # Sync /\ Processes = {Pass, Sync}
    BY TwoProcesses DEF Types, Processes
  <1>b. \A q \in Processes : q # p => /\ pc'[q] = pc[q] /\ todo'[q] = todo[q]
                                      /\ snap'[q] = snap[q] /\ pw'[q] = pw[q]
    BY DEF Quiet, Others, Own
  <1>c. pc'[p] \notin Busy /\ \A b \in Bots : core'[b] \in {0, core[b]}
    BY DEF Quiet, Busy, NoPasswords
  <1>1. HandInv'
    BY <1>b, <1>c DEF LoginInv, HandInv
  <1>2. LocalInv'
    BY <1>a, <1>b DEF LoginInv, LocalInv, Quiet
  <1>3. FreshInv'
    <2> SUFFICES ASSUME pc'[Pass] = "put"
                 PROVE  /\ pw'[Sync] # pw'[Pass]
                        /\ \A b \in Bots : pw'[Pass] \notin {server'[b], item'[b], snap'[Sync][b]}
      BY DEF FreshInv
    <2>1. p = Sync /\ pc[Pass] = "put" /\ pw'[Pass] = pw[Pass] /\ pw[Pass] # 0
      BY <1>a, <1>b DEF Quiet, LoginInv, HandInv, Busy
    <2> QED
      BY <2>1 DEF Quiet, LoginInv, FreshInv, NoPasswords
  <1>4. ItemInv'
    <2> SUFFICES ASSUME NEW b \in Bots, rotated'[b] = 0
                 PROVE  CoreInv(b)' /\ (backend' = "opconnect" => Agreement(b)')
      BY DEF ItemInv
    <2>1. CoreInv(b) /\ (backend = "opconnect" => Agreement(b))
      BY DEF Quiet, LoginInv, ItemInv
    <2>2. CoreInv(b)'
      BY <1>a, <1>b, <1>c, <2>1 DEF CoreInv, Quiet, Bot
    <2>3. ASSUME backend' = "opconnect", NEW v, v # 0, item'[b] = v \/ PassHas(b, v)', Claimed(b, v)'
          PROVE  Settled(b, v)'
      <3>1. item[b] = v \/ PassHas(b, v)
        BY <1>a, <1>b, <1>c, <2>3 DEF PassHas, Quiet, Bot
      <3>2. Claimed(b, v)
        BY <1>a, <1>b, <2>3 DEF Claimed, Quiet, Bot
      <3>3. Settled(b, v)
        BY <2>1, <2>3, <3>1, <3>2 DEF Agreement, Quiet
      <3> QED
        BY <1>a, <1>b, <3>3 DEF Settled, Quiet, Bot
    <2> QED
      BY <2>2, <2>3 DEF Agreement
  <1> QED
    BY <1>1, <1>2, <1>3, <1>4 DEF LoginInv

\* Reading the item: the bot's password, or a new one that nobody else has.
LEMMA ReadLogin ==
    ASSUME Types, Types', LoginInv, NEW p \in Processes, ReadItem(p)
    PROVE  LoginInv'
  <1>a. /\ ProcessType /\ ProcessType' /\ WorldType /\ Pass # Sync /\ Processes = {Pass, Sync}
        /\ backend = "opconnect" /\ backend' = backend /\ minted \in Nat
    BY TwoProcesses DEF Types, Processes, WorldType, ReadItem
  <1>b. /\ UNCHANGED <<item, server, rotated, core, todo>>
        /\ \A q \in Processes : q # p => /\ pc'[q] = pc[q] /\ snap'[q] = snap[q]
                                         /\ pw'[q] = pw[q]
    <2>1. Go(p, "put") \/ Got(p)
      BY DEF ReadItem
    <2> QED
      BY <1>a, <2>1 DEF ReadItem, Got, Go, world, ProcessType
  <1>c. Bot(p) \in Bots /\ \A q \in Processes : Bot(q)' = Bot(q)
    BY <1>a, <1>b DEF ReadItem, Bot, ProcessType
  <1>d. \/ /\ item[Bot(p)] # 0 /\ pw'[p] = item[Bot(p)]
           /\ pc'[p] = (IF p = Pass THEN "login" ELSE "set")
           /\ snap'[p] = snap[p]
        \/ /\ item[Bot(p)] = 0 /\ pw'[p] = minted + 1 /\ pc'[p] = "put" /\ snap'[p] = item
    BY <1>a DEF ReadItem, Got, Go, ProcessType
  <1>e. minted + 1 # 0 /\ \A w \in Password : w # minted + 1
    BY <1>a DEF Password
  <1>f. \A b \in Bots : /\ {item[b], server[b], snap[Sync][b], snap[Pass][b]} \subseteq Password
                        /\ pw[Pass] \in Password /\ pw[Sync] \in Password
    BY <1>a DEF WorldType, ProcessType
  <1>1. HandInv'
    BY <1>b, <1>d, <1>e DEF LoginInv, HandInv, Busy
  <1>2. LocalInv'
    BY <1>a DEF LocalInv
  <1>3. FreshInv'
    <2> SUFFICES ASSUME pc'[Pass] = "put"
                 PROVE  /\ pw'[Sync] # pw'[Pass]
                        /\ \A b \in Bots : pw'[Pass] \notin {server[b], item[b], snap'[Sync][b]}
      BY <1>b DEF FreshInv
    <2>1. CASE p = Pass
      BY <1>a, <1>b, <1>d, <1>e, <1>f, <1>c, <2>1
    <2>2. CASE p = Sync
      BY <1>a, <1>b, <1>c, <1>d, <1>e, <1>f, <2>2 DEF LoginInv, FreshInv
    <2> QED
      BY <1>a, <2>1, <2>2
  <1>4. ItemInv'
    <2> SUFFICES ASSUME NEW b \in Bots, rotated'[b] = 0
                 PROVE  CoreInv(b)' /\ Agreement(b)'
      BY DEF ItemInv
    <2>1. CoreInv(b) /\ Agreement(b)
      BY <1>a, <1>b DEF LoginInv, ItemInv
    <2>2. core[b] # 0 => Claimed(b, core[b]) /\ PassHas(b, core[b]) /\ item[b] = core[b]
      BY <2>1 DEF CoreInv, Claimed, PassHas, Agreement, Settled
    <2>3. CoreInv(b)'
      <3>1. CASE p = Pass
        BY <1>a, <1>b, <1>c, <1>d, <2>1, <2>2, <3>1 DEF CoreInv
      <3>2. CASE p = Sync
        BY <1>a, <1>b, <1>c, <2>1, <3>2 DEF CoreInv
      <3> QED
        BY <1>a, <3>1, <3>2
    <2>4. ASSUME NEW v, v # 0, item'[b] = v \/ PassHas(b, v)', Claimed(b, v)'
          PROVE  Settled(b, v)'
      <3>1. CASE p = Pass
        <4>1. item[b] = v \/ PassHas(b, v)
          BY <1>a, <1>b, <1>c, <1>d, <2>4, <3>1 DEF PassHas
        <4>2. Claimed(b, v)
          BY <1>a, <1>b, <1>c, <2>4, <3>1 DEF Claimed
        <4>3. Settled(b, v)
          BY <2>1, <2>4, <4>1, <4>2 DEF Agreement
        <4> QED
          BY <1>a, <1>b, <1>c, <3>1, <4>3 DEF Settled
      <3>2. CASE p = Sync
        <4>1. item[b] = v \/ PassHas(b, v)
          BY <1>a, <1>b, <1>c, <2>4, <3>2 DEF PassHas
        <4>2. CASE Claimed(b, v)
          <5>1. item[b] = v
            BY <2>1, <2>4, <4>1, <4>2 DEF Agreement, Settled
          <5> QED
            BY <1>a, <1>b, <1>c, <1>d, <2>4, <3>2, <5>1 DEF Settled
        <4>3. CASE ~Claimed(b, v)
          <5>1. pc'[Sync] = "set" /\ Bot(Sync) = b /\ item[b] = v /\ pw'[Sync] = v
            BY <1>a, <1>b, <1>c, <1>d, <2>4, <3>2, <4>3 DEF Claimed
          <5> QED
            BY <1>b, <5>1 DEF Settled
        <4> QED
          BY <4>2, <4>3
      <3> QED
        BY <1>a, <3>1, <3>2
    <2> QED
      BY <2>3, <2>4 DEF Agreement
  <1> QED
    BY <1>1, <1>2, <1>3, <1>4 DEF LoginInv

\* Putting it: what another has put since is overwritten, but not what is settled.
LEMMA PutLogin ==
    ASSUME Types, Types', LoginInv, NEW p \in Processes, PutItem(p) \/ PutRaises(p)
    PROVE  LoginInv'
  <1>a. /\ ProcessType /\ ProcessType' /\ WorldType /\ Pass # Sync /\ Processes = {Pass, Sync}
        /\ pc[p] = "put" /\ backend' = backend /\ backend = "opconnect"
    BY TwoProcesses DEF Types, Processes, WorldType, PutItem, PutRaises, LoginInv, LocalInv
  <1>b. UNCHANGED <<server, rotated, core>>
    BY DEF PutItem, PutRaises
  <1>c. /\ \A q \in Processes : q # p => /\ pc'[q] = pc[q] /\ snap'[q] = snap[q]
                                         /\ pw'[q] = pw[q] /\ Bot(q)' = Bot(q)
        /\ \/ /\ pc'[p] = (IF p = Pass THEN "login" ELSE "set")
              /\ snap'[p] = snap[p] /\ pw'[p] = pw[p] /\ Bot(p)' = Bot(p)
              /\ item' = Written(p)
           \/ /\ pc'[p] \in {"get", "idle"} /\ pw'[p] = 0 /\ snap'[p] = NoPasswords
              /\ item' = Written(p) \/ item' = item
    <2>1. CASE PutItem(p)
      BY <1>a, <2>1 DEF PutItem, Got, Go, Bot, ProcessType
    <2>2. CASE PutRaises(p)
      BY <1>a, <2>2, TurnAway DEF PutRaises, Own, Bot
    <2> QED
      BY <2>1, <2>2
  <1>d. Bot(p) \in Bots /\ pw[p] # 0
    BY <1>a DEF Bot, ProcessType, LoginInv, HandInv, Busy
  <1>e. \A b \in Bots : Written(p)[b] = IF b = Bot(p) THEN pw[p] ELSE snap[p][b]
    BY <1>a DEF Written, ProcessType
  <1>1. HandInv'
    BY <1>c, <1>d DEF LoginInv, HandInv, Busy
  <1>2. LocalInv'
    BY <1>a DEF LocalInv
  <1>3. FreshInv'
    <2> SUFFICES ASSUME pc'[Pass] = "put"
                 PROVE  /\ pw'[Sync] # pw'[Pass]
                        /\ \A b \in Bots : pw'[Pass] \notin {server[b], item'[b], snap'[Sync][b]}
      BY <1>b DEF FreshInv
    <2>1. p = Sync /\ pc[Pass] = "put" /\ pw'[Pass] = pw[Pass] /\ pw[Pass] # 0
      BY <1>a, <1>c DEF LoginInv, HandInv, Busy
    <2>2. /\ pw[Sync] # pw[Pass]
          /\ \A b \in Bots : pw[Pass] \notin {server[b], item[b], snap[Sync][b]}
      BY <2>1 DEF LoginInv, FreshInv
    <2>3. \A b \in Bots : item'[b] \in {item[b], pw[Sync], snap[Sync][b]}
      BY <1>c, <1>e, <2>1
    <2> QED
      BY <1>c, <2>1, <2>2, <2>3 DEF NoPasswords
  <1>4. ItemInv'
    <2> SUFFICES ASSUME NEW b \in Bots, rotated'[b] = 0
                 PROVE  CoreInv(b)' /\ Agreement(b)'
      BY DEF ItemInv
    <2>1. CoreInv(b) /\ Agreement(b)
      BY <1>a, <1>b DEF LoginInv, ItemInv
    <2>2. CoreInv(b)'
      BY <1>a, <1>b, <1>c, <2>1 DEF CoreInv
    <2>3. ASSUME NEW v, v # 0, item'[b] = v \/ PassHas(b, v)', Claimed(b, v)'
          PROVE  Settled(b, v)'
      <3>1. CASE p = Pass
        <4>1. Claimed(b, v)
          BY <1>a, <1>b, <1>c, <2>3, <3>1 DEF Claimed
        <4>2. FreshInv /\ v # pw[Pass]
          BY <1>a, <3>1, <4>1 DEF LoginInv, FreshInv, Claimed
        <4>3. item[b] = v \/ PassHas(b, v)
          BY <1>a, <1>b, <1>c, <1>e, <2>3, <3>1, <4>2 DEF PassHas
        <4>4. Settled(b, v)
          BY <2>1, <2>3, <4>1, <4>3 DEF Agreement
        <4>5. item'[b] = v
          <5>1. CASE item' = item
            BY <4>4, <5>1 DEF Settled
          <5>2. CASE item' = Written(Pass)
            <6>1. CASE core[b] = v
              BY <1>a, <1>e, <2>1, <2>3, <3>1, <5>2, <6>1 DEF CoreInv
            <6>2. CASE core[b] # v
              BY <1>a, <1>b, <1>c, <1>e, <2>3, <3>1, <4>2, <5>2, <6>2 DEF PassHas
            <6> QED
              BY <6>1, <6>2
          <5> QED
            BY <1>c, <3>1, <5>1, <5>2
        <4> QED
          BY <1>a, <1>c, <3>1, <4>4, <4>5 DEF Settled
      <3>2. CASE p = Sync
        <4>1. pc'[Sync] # "put" /\ (Bot(Sync)' = b /\ pc'[Sync] \in {"set", "update"}
                                      => item'[b] = pw'[Sync] /\ pw'[Sync] = pw[Sync])
          BY <1>a, <1>c, <1>e, <3>2
        <4>2. CASE item'[b] = v
          BY <4>1, <4>2 DEF Settled
        <4>3. CASE item'[b] # v
          <5>1. PassHas(b, v)
            BY <1>a, <1>b, <1>c, <2>3, <3>2, <4>3 DEF PassHas
          <5>2. server[b] = v
            BY <1>b, <2>3, <4>1, <4>3 DEF Claimed
          <5>3. Settled(b, v)
            BY <2>1, <2>3, <5>1, <5>2 DEF Agreement, Claimed
          <5> QED
            BY <1>a, <1>c, <1>e, <3>2, <4>3, <5>3 DEF Settled
        <4> QED
          BY <4>2, <4>3
      <3> QED
        BY <1>a, <3>1, <3>2
    <2> QED
      BY <2>2, <2>3 DEF Agreement
  <1> QED
    BY <1>1, <1>2, <1>3, <1>4 DEF LoginInv
\* The pass with the local store, which the sync has no part in.
LEMMA LocalLogin ==
    ASSUME Types, Types', LoginInv, GetLocal \/ MintLocal
    PROVE  LoginInv'
  <1>a. /\ ProcessType /\ Pass # Sync /\ Processes = {Pass, Sync} /\ minted \in Nat
        /\ backend = "local" /\ UNCHANGED <<backend, server, core, rotated>>
    BY TwoProcesses DEF Types, Processes, WorldType, GetLocal, MintLocal, world
  <1>b. Go(Pass, "login") /\ (\E w : w # 0 /\ pw' = [pw EXCEPT ![Pass] = w])
    <2>1. Go(Pass, "login")
      BY DEF GetLocal, MintLocal, Got
    <2>2. CASE GetLocal
      BY <2>1, <2>2 DEF GetLocal
    <2>3. CASE MintLocal
      <3>1. minted' # 0 /\ pw' = [pw EXCEPT ![Pass] = minted']
        BY <1>a, <2>3 DEF MintLocal
      <3> QED
        BY <2>1, <3>1
    <2> QED
      BY <2>2, <2>3
  <1>c. pc'[Pass] = "login" /\ pw'[Pass] # 0 /\ pc'[Sync] = pc[Sync] /\ pw'[Sync] = pw[Sync]
    BY <1>a, <1>b DEF Go, ProcessType
  <1>1. HandInv'
    BY <1>a, <1>c DEF LoginInv, HandInv
  <1>2. LocalInv' /\ FreshInv'
    BY <1>a, <1>c DEF LoginInv, LocalInv, FreshInv
  <1>3. ItemInv'
    BY <1>a, <1>c DEF LoginInv, ItemInv, CoreInv
  <1> QED
    BY <1>1, <1>2, <1>3 DEF LoginInv

\* A login that is accepted: what the server has is settled from now on.
LEMMA AcceptedLogin ==
    ASSUME Types, Types', LoginInv, LogIn
    PROVE  LoginInv'
  <1>a. /\ ProcessType /\ WorldType /\ Pass # Sync /\ Processes = {Pass, Sync}
        /\ UNCHANGED <<backend, item, rotated>> /\ pc[Pass] = "login"
    BY TwoProcesses DEF Types, Processes, LogIn
  <1>b. /\ pc'[Pass] \in {"get", "idle"} /\ pw'[Pass] = 0
        /\ pc'[Sync] = pc[Sync] /\ snap'[Sync] = snap[Sync] /\ pw'[Sync] = pw[Sync]
        /\ Bot(Sync)' = Bot(Sync)
    BY <1>a, TurnAway DEF LogIn, Own, Bot
  <1>c. /\ \A b \in Bots : server'[b] = (IF b = Bot(Pass) THEN pw[Pass] ELSE server[b])
        /\ \A b \in Bots : core'[b] = (IF b = Bot(Pass) THEN pw[Pass] ELSE core[b])
        /\ backend = "opconnect" => server[Bot(Pass)] = pw[Pass]
    BY <1>a DEF LogIn, Accepts, WorldType
  <1>1. HandInv'
    BY <1>a, <1>b DEF LoginInv, HandInv, Busy
  <1>2. LocalInv' /\ FreshInv'
    BY <1>a, <1>b DEF LoginInv, LocalInv, FreshInv
  <1>3. ItemInv'
    <2> SUFFICES ASSUME NEW b \in Bots, rotated'[b] = 0
                 PROVE  CoreInv(b)' /\ (backend' = "opconnect" => Agreement(b)')
      BY DEF ItemInv
    <2>1. CoreInv(b) /\ (backend = "opconnect" => Agreement(b))
      BY <1>a DEF LoginInv, ItemInv
    <2>2. CoreInv(b)'
      BY <1>b, <1>c, <2>1 DEF CoreInv
    <2>3. ASSUME backend' = "opconnect", NEW v, v # 0, item'[b] = v \/ PassHas(b, v)', Claimed(b, v)'
          PROVE  Settled(b, v)'
      <3>1. server'[b] = server[b] /\ backend = "opconnect"
        BY <1>a, <1>c, <2>3
      <3>2. item[b] = v \/ PassHas(b, v)
        BY <1>a, <1>b, <1>c, <2>3 DEF PassHas
      <3>3. Claimed(b, v)
        BY <1>b, <2>3, <3>1 DEF Claimed
      <3>4. Settled(b, v)
        BY <2>1, <2>3, <3>1, <3>2, <3>3 DEF Agreement
      <3> QED
        BY <1>a, <1>b, <3>4 DEF Settled
    <2> QED
      BY <2>2, <2>3 DEF Agreement
  <1> QED
    BY <1>1, <1>2, <1>3 DEF LoginInv

\* The sync sets the password it has claimed, and may not hear of it.
LEMMA SetLogin ==
    ASSUME Types, Types', LoginInv, SetPassword \/ SetAnswerLost
    PROVE  LoginInv'
  <1>a. /\ ProcessType /\ WorldType /\ Pass # Sync /\ Processes = {Pass, Sync}
        /\ UNCHANGED <<backend, item, rotated, core>> /\ pc[Sync] = "set"
    BY TwoProcesses DEF Types, Processes, SetPassword, SetAnswerLost, local
  <1>b. /\ pc'[Pass] = pc[Pass] /\ Bot(Pass)' = Bot(Pass) /\ pw'[Pass] = pw[Pass]
        /\ snap'[Pass] = snap[Pass]
        /\ \/ /\ pc'[Sync] = "update" /\ Bot(Sync)' = Bot(Sync)
              /\ pw'[Sync] = pw[Sync] /\ snap'[Sync] = snap[Sync]
           \/ pc'[Sync] = "get" /\ pw'[Sync] = 0 /\ snap'[Sync] = NoPasswords
    <2>1. CASE SetPassword
      BY <1>a, <2>1 DEF SetPassword, Go, Bot, ProcessType
    <2>2. CASE SetAnswerLost
      BY <1>a, <2>2 DEF SetAnswerLost, NextBot, Go, Drop, Bot, ProcessType
    <2> QED
      BY <2>1, <2>2
  <1>c. \A b \in Bots : server'[b] = IF b = Bot(Sync) THEN pw[Sync] ELSE server[b]
    BY <1>a DEF SetPassword, SetAnswerLost, WorldType
  <1>d. backend = "opconnect"
    BY <1>a DEF LoginInv, LocalInv, WorldType
  <1>1. HandInv'
    BY <1>a, <1>b DEF LoginInv, HandInv, Busy
  <1>2. LocalInv' /\ FreshInv'
    <2>1. pc[Pass] = "put" => pw[Pass] # 0
      BY <1>a DEF LoginInv, HandInv, Busy
    <2> QED
      BY <1>a, <1>b, <1>c, <1>d, <2>1 DEF LoginInv, LocalInv, FreshInv, NoPasswords
  <1>3. ItemInv'
    <2> SUFFICES ASSUME NEW b \in Bots, rotated'[b] = 0
                 PROVE  CoreInv(b)' /\ Agreement(b)'
      BY DEF ItemInv
    <2>1. CoreInv(b) /\ Agreement(b)
      BY <1>a, <1>d DEF LoginInv, ItemInv
    <2>2. core[b] # 0 => Settled(b, core[b])
      BY <2>1 DEF CoreInv, Claimed, PassHas, Agreement
    <2>3. CoreInv(b)'
      BY <1>a, <1>b, <1>c, <2>1, <2>2 DEF CoreInv, Settled
    <2>4. ASSUME NEW v, v # 0, item'[b] = v \/ PassHas(b, v)', Claimed(b, v)'
          PROVE  Settled(b, v)'
      <3>1. item[b] = v \/ PassHas(b, v)
        BY <1>a, <1>b, <2>4 DEF PassHas
      <3>2. Claimed(b, v)
        BY <1>a, <1>b, <1>c, <2>4 DEF Claimed
      <3>3. Settled(b, v)
        BY <2>1, <2>4, <3>1, <3>2 DEF Agreement
      <3> QED
        BY <1>a, <1>b, <3>3 DEF Settled
    <2> QED
      BY <2>3, <2>4 DEF Agreement
  <1> QED
    BY <1>1, <1>2, <1>3 DEF LoginInv

\* A rotation is of one bot's password, and of a new one.
LEMMA RotateLogin ==
    ASSUME Types, Types', LoginInv, NEW c \in Bots, Rotate(c)
    PROVE  LoginInv'
  <1>a. /\ ProcessType /\ WorldType /\ Pass \in Processes /\ minted \in Nat
        /\ UNCHANGED <<backend, server, core, pc, todo, snap, pw>>
        /\ item' = [item EXCEPT ![c] = minted + 1]
        /\ rotated' = [rotated EXCEPT ![c] = minted + 1]
    BY TwoProcesses DEF Types, WorldType, Rotate, local
  <1>b. \A q : Bot(q)' = Bot(q)
    BY <1>a DEF Bot
  <1>c. pw[Pass] # minted + 1
    BY <1>a DEF ProcessType, Password
  <1>1. HandInv' /\ LocalInv'
    BY <1>a DEF LoginInv, HandInv, LocalInv
  <1>2. FreshInv'
    BY <1>a, <1>c DEF LoginInv, FreshInv, WorldType
  <1>3. ItemInv'
    <2> SUFFICES ASSUME NEW b \in Bots, rotated'[b] = 0
                 PROVE  CoreInv(b)' /\ (backend' = "opconnect" => Agreement(b)')
      BY DEF ItemInv
    <2>1. b # c /\ rotated[b] = 0 /\ item'[b] = item[b]
      BY <1>a DEF WorldType
    <2>2. CoreInv(b) /\ (backend = "opconnect" => Agreement(b))
      BY <2>1 DEF LoginInv, ItemInv
    <2> QED
      BY <1>a, <1>b, <2>1, <2>2 DEF CoreInv, Agreement, PassHas, Claimed, Settled
  <1> QED
    BY <1>1, <1>2, <1>3 DEF LoginInv

\* Every step keeps the passwords that are settled.
LEMMA LoginStep == Types /\ Types' /\ LoginInv /\ [Next]_vars => LoginInv'
  <1> SUFFICES ASSUME Types, Types', LoginInv, [Next]_vars PROVE LoginInv'
    OBVIOUS
  <1>a. Pass \in Processes /\ Sync \in Processes
    BY TwoProcesses
  <1>b. backend = "local" => pc[Sync] = "idle"
    BY DEF LoginInv, LocalInv
  <1>1. CASE \/ Start(Pass) \/ ReadRaises(Pass) \/ MintRaises \/ AlreadyOnboarded
             \/ LogInFails \/ Mark \/ MarkRaises \/ \E lost \in BOOLEAN : Restart(lost)
    <2>1. Quiet(Pass)
      BY <1>a, <1>1, QuietSteps
    <2> QED
      BY <1>a, <2>1, QuietLogin
  <1>2. CASE \/ Start(Sync) \/ ReadRaises(Sync) \/ UpdateUser \/ SyncRaises \/ SyncEnds
             \/ SyncDies
    <2>1. Quiet(Sync)
      BY <1>a, <1>2, QuietSteps
    <2>2. backend = "opconnect"
      BY <1>b, <1>2 DEF Types, WorldType, Start, ReadRaises, UpdateUser, SyncRaises,
                        SyncEnds, SyncDies
    <2> QED
      BY <1>a, <2>1, <2>2, QuietLogin
  <1>3. CASE \E p \in Processes : ReadItem(p) \/ PutItem(p) \/ PutRaises(p)
    BY <1>3, ReadLogin, PutLogin
  <1>4. CASE \/ GetLocal \/ MintLocal \/ LogIn \/ SetPassword \/ SetAnswerLost
             \/ \E b \in Bots : Rotate(b)
    BY <1>4, LocalLogin, AcceptedLogin, SetLogin, RotateLogin
  <1>5. CASE UNCHANGED vars
    BY <1>5 DEF vars, world, LoginInv, HandInv, LocalInv, FreshInv, ItemInv, CoreInv, Agreement,
                PassHas, Claimed, Settled, Bot
  <1> QED
    BY <1>a, <1>1, <1>2, <1>3, <1>4, <1>5 DEF Next, Reconcile, SyncRoster, GetOrCreate

LEMMA LoginAlways == Spec => []LoginInv
  BY InitLogin, LoginStep, TypesAlways, PTL DEF Spec

\* For any roster, any number of failed requests, deaths and lost accounts, and however
\* often the two processes overwrite one another's fields, what an account was configured
\* with is what the mail server has, unless it was rotated (opconnect.py:105).
THEOREM NobodyIsLockedOut == Spec => []CoreCanLogIn
  <1>1. LoginInv => CoreCanLogIn
    BY DEF LoginInv, ItemInv, CoreInv, CoreCanLogIn
  <1> QED
    BY <1>1, LoginAlways, PTL
-----------------------------------------------------------------------------
(* The state-loss guard.  Until the accounts are lost, who is marked or    *)
(* about to be has an account.                                             *)

GuardInv ==
    wiped \/ (alarm = {} /\ \A b \in known \cup registry \cup provisioned : core[b] # 0)

\* Every step keeps it so.
LEMMA GuardStep == Types /\ LoginInv /\ GuardInv /\ [Next]_vars => GuardInv'
  <1> SUFFICES ASSUME Types, LoginInv, GuardInv, [Next]_vars PROVE GuardInv'
    OBVIOUS
  <1>a. ProcessType /\ WorldType /\ Pass \in Processes /\ GuardType
    BY TwoProcesses DEF Types
  <1>1. CASE AlreadyOnboarded
    BY <1>1 DEF AlreadyOnboarded, guard, GuardInv
  <1>2. CASE LogIn
    <2>1. pw[Pass] # 0 /\ Bot(Pass) \in Bots
      BY <1>a, <1>2 DEF LogIn, LoginInv, HandInv, Busy, Bot, ProcessType
    <2>2. \A b \in Bots : core'[b] = IF b = Bot(Pass) THEN pw[Pass] ELSE core[b]
      BY <1>a, <1>2 DEF LogIn, WorldType
    <2> QED
      BY <1>a, <1>2, <2>1, <2>2 DEF LogIn, guard, GuardInv, GuardType
  <1>3. CASE Mark \/ MarkRaises
    BY <1>3 DEF Mark, MarkRaises, GuardInv
  <1>4. ASSUME NEW lost \in BOOLEAN, Restart(lost) PROVE GuardInv'
    BY <1>4 DEF Restart, GuardInv
  <1>5. CASE ~(AlreadyOnboarded \/ LogIn \/ Mark \/ MarkRaises \/ \E lost \in BOOLEAN : Restart(lost))
    <2>1. UNCHANGED <<guard, core>> /\ (provisioned' = provisioned \/ provisioned' = {})
      BY <1>5 DEF Next, Reconcile, SyncRoster, GetOrCreate, Start, ReadItem, ReadRaises,
                  PutItem, PutRaises, GetLocal, MintLocal, MintRaises, LogInFails, Rotate,
                  SetPassword, SetAnswerLost, UpdateUser, SyncRaises, SyncEnds, SyncDies, vars
    <2> QED
      BY <2>1 DEF guard, GuardInv
  <1> QED
    BY <1>1, <1>2, <1>3, <1>4, <1>5

\* For any roster and any number of failures, the guard reports a loss only when the
\* accounts were lost (main.py:170).
THEOREM GuardIsRight == Spec => []NoFalseAlarm
  <1>1. Init => GuardInv
    BY DEF Init, GuardInv
  <1>2. GuardInv => NoFalseAlarm
    BY DEF GuardInv, NoFalseAlarm
  <1> QED
    BY <1>1, <1>2, GuardStep, TypesAlways, LoginAlways, PTL DEF Spec
=============================================================================
