---------------------------- MODULE OutboxProofs ----------------------------
(***************************************************************************)
(* Proofs about the outbox, for any number of requests, drainers, attempts *)
(* and restarts.                                                           *)
(***************************************************************************)
EXTENDS Outbox, TLAPS, FiniteSetTheorems

-----------------------------------------------------------------------------
(* Types *)

\* Serialising a well-typed list gives an image.
LEMMA SerialisedType == TypeOK => Serialised \in Image
<1>1. SUFFICES ASSUME TypeOK
               PROVE  Serialised \in [items -> Entry] /\ items \in SUBSET Calls
      BY DEF Image
<1> QED BY <1>1 DEF TypeOK, Serialised

\* The file that was never written is an image.
LEMMA NoImageType == NoImage \in Image
<1>1. NoImage \in [{} -> Entry] /\ {} \in SUBSET Calls
      BY DEF NoImage
<1> QED BY <1>1 DEF Image

\* An image names requests only, and holds an entry for each.
LEMMA ImageFacts ==
    ASSUME NEW f \in Image
    PROVE  DOMAIN f \subseteq Calls /\ \A c \in DOMAIN f : f[c] \in Entry
BY DEF Image

\* The initial states are well typed.
LEMMA InitType == Init => TypeOK
<1> SUFFICES ASSUME Init PROVE TypeOK OBVIOUS
<1>1. PICK s \in Scenarios :
         left = s.bounds /\ call = [c \in Calls |-> IF c \in s.made THEN "new" ELSE "unmade"]
  BY DEF Init
<1>2. left \in [Kinds -> Nat] BY <1>1, ScenariosAssumption DEF Scenario
<1>3. Fresh \in Entry BY AttemptsAssumption DEF Fresh, Entry
<1>4. call \in [Calls -> Results] BY <1>1 DEF Results
<1>5. /\ entry \in [Calls -> Entry] /\ items \subseteq Calls
      /\ file \in Image /\ temp \subseteq Image /\ image \in [Threads -> Image]
  BY <1>3, NoImageType DEF Init
<1>6. /\ drain \in [Drainers -> Outcomes \cup Stages]
      /\ todo \in [Drainers -> SUBSET Calls] /\ cur \in [Drainers -> SUBSET Calls]
      /\ stale \in [Drainers -> SUBSET Calls] /\ view \in [Drainers -> SUBSET SUBSET Calls]
  BY DEF Init, Stages
<1>7. /\ flush \in [Threads -> {"no", "dump", "write", "replace"}]
      /\ landed \in [Calls -> Nat] /\ doubts \in [Calls -> Nat]
      /\ pruned \subseteq Calls /\ crowded \in BOOLEAN /\ mishaps \subseteq {"restart", "prune"}
  BY DEF Init
<1> QED BY <1>2, <1>4, <1>5, <1>6, <1>7 DEF TypeOK

\* What may still happen is a number, also once less of it may.
LEMMA MayType ==
    ASSUME TypeOK, NEW k \in Kinds, May(k)
    PROVE  left' \in [Kinds -> Nat]
BY DEF TypeOK, May

\* Every step of a send request preserves the types.
LEMMA SendType == ASSUME TypeOK, NEW c \in Calls, Send(c) PROVE TypeOK'
<1> USE DEF TypeOK, Results, listVars, fileVars, drainVars, history, Threads
<1>1. CASE SendLands(c) BY <1>1 DEF SendLands
<1>2. CASE SendRaises(c) BY <1>2 DEF SendRaises
<1>3. CASE SendFails(c)
  <2>1. left' \in [Kinds -> Nat] BY <1>3, MayType DEF SendFails, Kinds
  <2> QED BY <1>3, <2>1 DEF SendFails
<1>4. CASE EnqueueIdentical(c) BY <1>4 DEF EnqueueIdentical
<1>5. CASE EnqueueNew(c) BY <1>5 DEF EnqueueNew
<1>6. CASE EnqueueAppend(c)
  <2>1. Fresh \in Entry BY AttemptsAssumption DEF Fresh, Entry
  <2> QED BY <1>6, <2>1 DEF EnqueueAppend
<1>7. CASE EnqueueReturn(c) BY <1>7 DEF EnqueueReturn
<1> QED BY <1>1, <1>2, <1>3, <1>4, <1>5, <1>6, <1>7 DEF Send

\* Every step of _flush preserves the types.
LEMMA FlushType == ASSUME TypeOK, NEW t \in Threads, Flush(t) PROVE TypeOK'
<1> USE DEF TypeOK, Results, listVars, fileVars, drainVars, history
<1>1. CASE FlushDump(t)
  BY <1>1, SerialisedType DEF FlushDump
<1>2. CASE FlushWrite(t)
  <2>1. temp' \subseteq Image /\ image' \in [Threads -> Image]
    BY <1>2, NoImageType DEF FlushWrite
  <2> QED BY <1>2, <2>1 DEF FlushWrite
<1>3. CASE FlushReplace(t)
  <2>1. file' \in Image /\ temp' \subseteq Image BY <1>3 DEF FlushReplace
  <2> QED BY <1>3, <2>1 DEF FlushReplace
<1>4. CASE FlushRaises(t)
  <2>1. /\ drain' \in [Drainers -> Outcomes \cup Stages]
        /\ todo' \in [Drainers -> SUBSET Calls]
    BY <1>4 DEF FlushRaises, Stages
  <2>2. call' \in [Calls -> Results \cup {"parking", "appending", "flushing", "lost"}]
    BY <1>4 DEF FlushRaises
  <2> QED BY <1>4, <2>1, <2>2 DEF FlushRaises
<1> QED BY <1>1, <1>2, <1>3, <1>4 DEF Flush

\* Every step of drain_outbox preserves the types.
LEMMA DrainType == ASSUME TypeOK, NEW d \in Drainers, Drain(d) PROVE TypeOK'
<1> USE DEF TypeOK, Results, Stages, listVars, fileVars, drainVars, history, Threads, Outcomes
<1>1. CASE DrainStart(d)
  <2>1. left' \in [Kinds -> Nat] BY <1>1, MayType DEF DrainStart, Kinds
  <2>2. crowded' \in BOOLEAN BY <1>1 DEF DrainStart, Overlap
  <2> QED BY <1>1, <2>1, <2>2 DEF DrainStart
<1>2. CASE DrainRaises(d) BY <1>2 DEF DrainRaises
<1>3. CASE DrainTry(d)
  <2>1. left' \in [Kinds -> Nat] BY <1>3, MayType DEF DrainTry, Kinds
  <2>2. landed' \in [Calls -> Nat] /\ doubts' \in [Calls -> Nat] BY <1>3 DEF DrainTry
  <2> QED BY <1>3, <2>1, <2>2 DEF DrainTry
<1>4. CASE DrainMark(d)
  <2>1. PICK c \in cur[d] :
          /\ \/ entry' = [entry EXCEPT ![c].terminal = drain[d]]
             \/ entry' = entry
          /\ doubts' \in {doubts, [doubts EXCEPT ![c] = @ + 1]}
        BY <1>4 DEF DrainMark
  <2>2. c \in Calls OBVIOUS
  <2>3. drain[d] \in Outcomes BY <1>4 DEF DrainMark
  <2>4. entry' \in [Calls -> Entry] BY <2>1, <2>2, <2>3 DEF Entry
  <2>5. flush' \in [Threads -> {"no", "dump", "write", "replace"}]
        BY <1>4 DEF DrainMark
  <2>6. doubts' \in [Calls -> Nat] BY <2>1, <2>2
  <2> QED BY <1>4, <2>4, <2>5, <2>6 DEF DrainMark
<1>5. CASE DrainKeep(d)
  <2>1. PICK c \in cur[d] :
          entry' = [entry EXCEPT ![c].attempts = IF @ < MaxAttempts THEN @ + 1 ELSE @]
        BY <1>5 DEF DrainKeep
  <2>2. c \in Calls OBVIOUS
  <2>3. entry[c].attempts \in 0..MaxAttempts /\ entry[c] \in Entry BY <2>2 DEF Entry
  <2>4. entry'[c] \in Entry
        BY <2>1, <2>2, <2>3, AttemptsAssumption DEF Entry
  <2>5. entry' \in [Calls -> Entry] BY <2>1, <2>2, <2>4
  <2> QED BY <1>5, <2>5 DEF DrainKeep
<1>6. CASE AgeOut(d)
  <2>1. PICK late \in SUBSET {c \in items : Pending(c)},
             old \in SUBSET {c \in items : ~Pending(c)} :
          /\ todo' = [todo EXCEPT ![d] =
                         late \cup {c \in items : Pending(c) /\ entry[c].attempts = MaxAttempts}]
          /\ stale' = [stale EXCEPT ![d] = old]
        BY <1>6 DEF AgeOut
  <2>2. drain' \in [Drainers -> Outcomes \cup Stages] BY <1>6 DEF AgeOut
  <2>3. todo' \in [Drainers -> SUBSET Calls] /\ stale' \in [Drainers -> SUBSET Calls]
        BY <2>1
  <2> QED BY <1>6, <2>2, <2>3 DEF AgeOut
<1>7. CASE GiveUp(d)
  <2>1. entry' \in [Calls -> Entry] BY <1>7 DEF GiveUp, Entry
  <2> QED BY <1>7, <2>1 DEF GiveUp
<1>8. CASE AgeOutPrune(d) BY <1>8 DEF AgeOutPrune
<1>9. CASE AgeOutRebind(d)
  <2>1. items' \subseteq Calls
    <3>1. view[d] \subseteq SUBSET Calls OBVIOUS
    <3>2. UNION view[d] \subseteq Calls BY <3>1
    <3> QED BY <1>9, <3>2 DEF AgeOutRebind
  <2>2. view' \in [Drainers -> SUBSET SUBSET Calls]
    <3>1. /\ view' = [e \in Drainers |->
                   IF e = d THEN {}
                   ELSE IF drain[e] = "pruning" /\ view[e] = {} THEN {items} ELSE view[e]]
          /\ {items} \in SUBSET SUBSET Calls /\ {} \in SUBSET SUBSET Calls
      BY <1>9 DEF AgeOutRebind
    <3> QED BY <3>1
  <2>3. pruned' \subseteq Calls /\ mishaps' \subseteq {"restart", "prune"}
    BY <1>9 DEF AgeOutRebind
  <2> QED BY <1>9, <2>1, <2>2, <2>3 DEF AgeOutRebind
<1>10. CASE DrainEnd(d) BY <1>10 DEF DrainEnd
<1> QED BY <1>1, <1>2, <1>3, <1>4, <1>5, <1>6, <1>7, <1>8, <1>9, <1>10 DEF Drain

\* A restart preserves the types.
LEMMA RestartType == TypeOK /\ Restart => TypeOK'
<1> SUFFICES ASSUME TypeOK, Restart PROVE TypeOK' OBVIOUS
<1> USE DEF TypeOK, Restart, fileVars
<1>1. Fresh \in Entry BY AttemptsAssumption DEF Fresh, Entry
<1>2. DOMAIN file \subseteq Calls /\ \A c \in DOMAIN file : file[c] \in Entry
      BY ImageFacts
<1>3. items' \subseteq Calls /\ entry' \in [Calls -> Entry] BY <1>1, <1>2
<1>4. call' \in [Calls -> Results \cup {"parking", "appending", "flushing", "lost"}]
      BY DEF Results
<1>5. doubts' \in [Calls -> Nat] OBVIOUS
<1>6. left' \in [Kinds -> Nat] BY MayType DEF Kinds
<1>7. UNCHANGED <<landed, pruned>> /\ crowded' = FALSE /\ mishaps' \subseteq {"restart", "prune"}
      OBVIOUS
<1>8. view' = [d \in Drainers |-> {}] OBVIOUS
<1> QED BY <1>3, <1>4, <1>5, <1>6, <1>7, <1>8, NoImageType DEF Stages

\* TypeOK holds of every reachable state of the outbox.
THEOREM TypeCorrect == Spec => []TypeOK
<1>1. TypeOK /\ [Next]_vars => TypeOK'
  <2> SUFFICES ASSUME TypeOK, [Next]_vars PROVE TypeOK' OBVIOUS
  <2>1. CASE \/ \E c \in Calls : Send(c)
             \/ \E d \in Drainers : Drain(d)
             \/ \E t \in Threads : Flush(t)
        BY <2>1, SendType, DrainType, FlushType
  <2>2. CASE Restart BY <2>2, RestartType
  <2>3. CASE UNCHANGED vars BY <2>3 DEF vars, TypeOK
  <2> QED BY <2>1, <2>2, <2>3 DEF Next
<1> QED BY InitType, <1>1, PTL DEF Spec

-----------------------------------------------------------------------------
(* "delivered" means sent *)

\* An image of the list calls delivered only what was taken, by the counts n.
ImageSent(f, n) == \A c \in DOMAIN f : f[c].terminal = "delivered" => n[c] > 0

\* DeliveredMeansSent must also hold of every copy of the list that a thread may
\* still write, or a restart may still read, and of the mark about to be made.
SentInv ==
    /\ \A c \in Calls : entry[c].terminal = "delivered" => landed[c] > 0
    /\ ImageSent(file, landed)
    /\ \A f \in temp : ImageSent(f, landed)
    /\ \A t \in Threads : ImageSent(image[t], landed)
    /\ \A d \in Drainers : drain[d] = "delivered" => \A c \in cur[d] : landed[c] > 0

\* No step takes a landing back.
LEMMA LandedGrows ==
    ASSUME TypeOK, [Next]_vars
    PROVE  \A c \in Calls : landed'[c] \in Nat /\ landed'[c] >= landed[c]
<1> USE DEF TypeOK, listVars, fileVars, drainVars, history
<1>1. ASSUME NEW t \in Calls, Send(t)
      PROVE  \A c \in Calls : landed'[c] \in Nat /\ landed'[c] >= landed[c]
  BY <1>1 DEF Send, SendLands, SendRaises, SendFails, EnqueueIdentical, EnqueueNew,
              EnqueueAppend, EnqueueReturn
<1>2. ASSUME NEW t \in Threads, Flush(t) PROVE landed' = landed
  BY <1>2 DEF Flush, FlushDump, FlushWrite, FlushReplace, FlushRaises
<1>3. ASSUME NEW t \in Drainers, Drain(t)
      PROVE  \A c \in Calls : landed'[c] \in Nat /\ landed'[c] >= landed[c]
  <2>1. CASE DrainTry(t) BY <2>1 DEF DrainTry
  <2>2. CASE ~DrainTry(t)
    <3>1. landed' = landed
      BY <1>3, <2>2 DEF Drain, DrainStart, DrainRaises, DrainMark, DrainKeep, AgeOut,
                        GiveUp, AgeOutPrune, AgeOutRebind, DrainEnd
    <3> QED BY <3>1
  <2> QED BY <2>1, <2>2
<1>4. ASSUME Restart PROVE landed' = landed BY <1>4 DEF Restart
<1>5. ASSUME UNCHANGED vars PROVE landed' = landed BY <1>5 DEF vars
<1> QED BY <1>1, <1>2, <1>3, <1>4, <1>5 DEF Next

\* SentInv holds at the start, when no list has an entry.
LEMMA InitSent == Init => SentInv
BY DEF Init, SentInv, ImageSent, NoImage, Fresh

\* Every step preserves SentInv.
LEMMA SentStep == TypeOK /\ SentInv /\ [Next]_vars => SentInv'
<1> SUFFICES ASSUME TypeOK, SentInv, [Next]_vars PROVE SentInv' OBVIOUS
<1> USE DEF listVars, fileVars, drainVars, history
<1>a. \A c \in Calls : landed'[c] \in Nat /\ landed'[c] >= landed[c] /\ landed[c] \in Nat
  BY LandedGrows DEF TypeOK
<1>b. \A f \in Image : ImageSent(f, landed) => ImageSent(f, landed')
  BY <1>a, ImageFacts DEF ImageSent
<1>c. \* What this step leaves alone stays sent.
      /\ \A c \in Calls : entry[c].terminal = "delivered" => landed'[c] > 0
      /\ ImageSent(file, landed')
      /\ \A f \in temp : ImageSent(f, landed')
      /\ \A t \in Threads : ImageSent(image[t], landed')
      /\ \A d \in Drainers : drain[d] = "delivered" => \A c \in cur[d] : landed'[c] > 0
  <2>1. /\ file \in Image /\ temp \subseteq Image /\ \A t \in Threads : image[t] \in Image
        /\ \A d \in Drainers : cur[d] \subseteq Calls
    BY DEF TypeOK
  <2> QED BY <1>a, <1>b, <2>1 DEF SentInv
<1>d. ImageSent(NoImage, landed') BY DEF ImageSent, NoImage
<1>1. ASSUME NEW t \in Calls, Send(t) PROVE SentInv'
  <2>1. CASE EnqueueAppend(t)
    BY <1>c, <2>1 DEF EnqueueAppend, SentInv, Fresh, TypeOK
  <2>2. CASE ~EnqueueAppend(t)
    <3>1. UNCHANGED <<entry, file, temp, image, drain, cur>>
      BY <1>1, <2>2 DEF Send, SendLands, SendRaises, SendFails, EnqueueIdentical,
                        EnqueueNew, EnqueueReturn
    <3> QED BY <1>c, <3>1 DEF SentInv
  <2> QED BY <2>1, <2>2
<1>2. ASSUME NEW t \in Threads, Flush(t) PROVE SentInv'
  <2>1. CASE FlushDump(t)
    <3>1. ImageSent(Serialised, landed') BY <1>c DEF ImageSent, Serialised, TypeOK
    <3>2. \A u \in Threads : ImageSent(image'[u], landed')
      BY <1>c, <2>1, <3>1 DEF FlushDump, TypeOK
    <3> QED BY <1>c, <2>1, <3>2 DEF FlushDump, SentInv
  <2>2. CASE FlushWrite(t)
    <3>1. \A u \in Threads : ImageSent(image'[u], landed')
      BY <1>c, <1>d, <2>2 DEF FlushWrite, TypeOK
    <3> QED BY <1>c, <2>2, <3>1 DEF FlushWrite, SentInv
  <2>3. CASE FlushReplace(t) BY <1>c, <2>3 DEF FlushReplace, SentInv
  <2>4. CASE FlushRaises(t)
    <3>1. \A d \in Drainers : drain'[d] = "delivered" => drain[d] = "delivered"
      BY <2>4 DEF FlushRaises
    <3> QED BY <1>c, <2>4, <3>1 DEF FlushRaises, SentInv
  <2> QED BY <1>2, <2>1, <2>2, <2>3, <2>4 DEF Flush
<1>3. ASSUME NEW t \in Drainers, Drain(t) PROVE SentInv'
  <2>1. CASE DrainTry(t)
    <3>1. PICK c \in todo[t] :
            /\ cur' = [cur EXCEPT ![t] = {c}]
            /\ \/ /\ drain' = [drain EXCEPT ![t] = "delivered"]
                  /\ landed' = [landed EXCEPT ![c] = @ + 1]
               \/ drain' = [drain EXCEPT ![t] = "dropped"]
               \/ drain' = [drain EXCEPT ![t] = "failed"]
      BY <2>1 DEF DrainTry
    <3>2. c \in Calls BY DEF TypeOK
    <3>3. /\ \A d \in Drainers \ {t} : drain'[d] = drain[d] /\ cur'[d] = cur[d]
          /\ cur'[t] = {c}
          /\ drain'[t] = "delivered" => landed' = [landed EXCEPT ![c] = @ + 1]
      BY <3>1 DEF TypeOK
    <3>4. drain'[t] = "delivered" => landed'[c] > 0
      BY <2>1, <3>1, <3>2, <3>3, <1>a DEF TypeOK
    <3>5. \A d \in Drainers : drain'[d] = "delivered" => \A k \in cur'[d] : landed'[k] > 0
      BY <1>c, <3>3, <3>4
    <3> QED BY <1>c, <2>1, <3>5 DEF DrainTry, SentInv
  <2>2. CASE DrainMark(t)
    <3>1. PICK c \in cur[t] :
            \/ entry' = [entry EXCEPT ![c].terminal = drain[t]]
            \/ entry' = entry
      BY <2>2 DEF DrainMark
    <3>2. \A k \in Calls : entry'[k].terminal = "delivered" => landed'[k] > 0
      BY <1>c, <3>1 DEF TypeOK, Entry
    <3>3. \A d \in Drainers : drain'[d] = "delivered" => \A k \in cur'[d] : landed'[k] > 0
      BY <1>c, <2>2 DEF DrainMark, TypeOK
    <3> QED BY <1>c, <2>2, <3>2, <3>3 DEF DrainMark, SentInv
  <2>3. CASE DrainKeep(t)
    <3>1. \A k \in Calls : entry'[k].terminal = entry[k].terminal
      BY <2>3 DEF DrainKeep, TypeOK, Entry
    <3>2. \A d \in Drainers : drain'[d] = "delivered" => \A k \in cur'[d] : landed'[k] > 0
      BY <1>c, <2>3 DEF DrainKeep, TypeOK
    <3> QED BY <1>c, <2>3, <3>1, <3>2 DEF DrainKeep, SentInv
  <2>4. CASE GiveUp(t)
    <3>1. \A k \in Calls : entry'[k].terminal = "delivered" => landed'[k] > 0
      BY <1>c, <2>4 DEF GiveUp, TypeOK, Entry
    <3> QED BY <1>c, <2>4, <3>1 DEF GiveUp, SentInv
  <2>5. CASE \/ DrainStart(t) \/ DrainRaises(t) \/ AgeOut(t) \/ AgeOutPrune(t)
             \/ AgeOutRebind(t) \/ DrainEnd(t)
    <3>1. \A d \in Drainers : drain'[d] = "delivered" => drain[d] = "delivered"
      BY <2>5 DEF DrainStart, DrainRaises, AgeOut, AgeOutPrune, AgeOutRebind, DrainEnd, TypeOK
    <3>2. UNCHANGED <<entry, file, temp, image, cur>>
      BY <2>5 DEF DrainStart, DrainRaises, AgeOut, AgeOutPrune, AgeOutRebind, DrainEnd
    <3> QED BY <1>c, <3>1, <3>2 DEF SentInv
  <2> QED BY <1>3, <2>1, <2>2, <2>3, <2>4, <2>5 DEF Drain
<1>4. ASSUME Restart PROVE SentInv'
  <2>1. \A c \in Calls : entry'[c].terminal = "delivered" => landed'[c] > 0
    BY <1>4, <1>c DEF Restart, Fresh, ImageSent
  <2>2. \A t \in Threads : ImageSent(image'[t], landed') BY <1>4, <1>d DEF Restart
  <2>3. \A d \in Drainers : drain'[d] = "idle" BY <1>4 DEF Restart
  <2> QED BY <1>4, <1>c, <2>1, <2>2, <2>3 DEF Restart, SentInv
<1>5. ASSUME UNCHANGED vars PROVE SentInv'
  BY <1>5, <1>c DEF vars, SentInv
<1> QED BY <1>1, <1>2, <1>3, <1>4, <1>5 DEF Next

\* DeliveredMeansSent holds with any number of threads draining at once, lost
\* answers, stale writes of the file, and restarts.
THEOREM DeliveredIsTrue == Spec => []DeliveredMeansSent
<1>1. TypeOK /\ SentInv => DeliveredMeansSent
  BY DEF TypeOK, SentInv, DeliveredMeansSent
<1> QED BY TypeCorrect, InitSent, SentStep, <1>1, PTL DEF Spec

-----------------------------------------------------------------------------
(* What the list and the drains know of *)

Appended == {"flushing", "queued", "raised", "lost"}

\* The lists, their copies and the drainers know only requests whose entry was appended,
\* or might have been.
PlacedInv ==
    LET Placed(K) == \A c \in K : call[c] \in Appended
    IN /\ Placed(items) /\ Placed(DOMAIN file)
       /\ \A f \in temp : Placed(DOMAIN f)
       /\ \A t \in Threads : Placed(DOMAIN image[t])
       /\ \A d \in Drainers : /\ Placed(todo[d]) /\ Placed(cur[d])
                              /\ \A S \in view[d] : Placed(S)

\* A drainer has at most one entry in hand, which is not one it has left, and none when
\* it has nothing to act upon; it flushes only between two entries, or when it is
\* through with them; a list that was replaced matters to a prune only.
ShapeInv ==
    \A d \in Drainers :
        /\ todo[d] \cap cur[d] = {}
        /\ \A c, k \in cur[d] : c = k
        /\ drain[d] \in {"idle", "pruning", "ending"} => todo[d] = {}
        /\ drain[d] \in {"idle", "next", "aging", "pruning", "ending"} => cur[d] = {}
        /\ drain[d] # "pruning" => view[d] = {}
        /\ flush[d] # "no" => drain[d] \in {"next", "ending"}

\* Every step preserves PlacedInv.
LEMMA PlacedStep == TypeOK /\ PlacedInv /\ [Next]_vars => PlacedInv'
<1> SUFFICES ASSUME TypeOK, PlacedInv, [Next]_vars PROVE PlacedInv' OBVIOUS
<1> USE DEF TypeOK, listVars, fileVars, drainVars, history
<1>1. ASSUME NEW t \in Calls, Send(t) PROVE PlacedInv'
  <2>1. /\ items' \subseteq items \cup {t} /\ (t \in items' => t \in items \/ call'[t] = "flushing")
        /\ UNCHANGED <<file, temp, image, todo, cur, view>>
        /\ \A c \in Calls : call[c] \in Appended => call'[c] \in Appended
    BY <1>1 DEF Send, SendLands, SendRaises, SendFails, EnqueueIdentical, EnqueueNew,
                EnqueueAppend, EnqueueReturn, Appended
  <2>2. /\ \A f \in temp : DOMAIN f \subseteq Calls /\ DOMAIN file \subseteq Calls
        /\ \A u \in Threads : DOMAIN image[u] \subseteq Calls
    BY ImageFacts
  <2>3. \A c \in items' : call'[c] \in Appended
    BY <2>1 DEF PlacedInv, Appended
  <2>4. DOMAIN file \subseteq Calls BY ImageFacts
  <2>5. \A d \in Drainers : /\ \A c \in todo'[d] \cup cur'[d] : call'[c] \in Appended
                            /\ \A S \in view'[d] : \A c \in S : call'[c] \in Appended
    <3>1. \A d \in Drainers : \A S \in view[d] : S \subseteq Calls OBVIOUS
    <3> QED BY <2>1, <3>1 DEF PlacedInv
  <2> QED BY <2>1, <2>2, <2>3, <2>4, <2>5 DEF PlacedInv
<1>2. ASSUME NEW t \in Threads, Flush(t) PROVE PlacedInv'
  <2>1. \A c \in Calls : call[c] \in Appended => call'[c] \in Appended
    BY <1>2 DEF Flush, FlushDump, FlushWrite, FlushReplace, FlushRaises, Appended
  <2>2. /\ \A f \in temp : DOMAIN f \subseteq Calls
        /\ \A u \in Threads : DOMAIN image[u] \subseteq Calls
        /\ DOMAIN file \subseteq Calls
    BY ImageFacts
  <2>3. items' = items BY <1>2 DEF Flush, FlushDump, FlushWrite, FlushReplace, FlushRaises
  <2>4. DOMAIN Serialised = items /\ DOMAIN NoImage = {} BY DEF Serialised, NoImage
  <2>5. \A u \in Threads : image'[u] \in {image[u], Serialised, NoImage}
    BY <1>2 DEF Flush, FlushDump, FlushWrite, FlushReplace, FlushRaises
  <2>6. \A f \in temp' : f \in temp \/ f = image[t]
    BY <1>2 DEF Flush, FlushDump, FlushWrite, FlushReplace, FlushRaises
  <2>7. file' = file \/ file' \in temp
    BY <1>2 DEF Flush, FlushDump, FlushWrite, FlushReplace, FlushRaises
  <2>8. \A u \in Threads : \A c \in DOMAIN image'[u] : call'[c] \in Appended
    BY <2>1, <2>2, <2>4, <2>5 DEF PlacedInv
  <2>9. /\ \A c \in items' : call'[c] \in Appended
        /\ \A c \in DOMAIN file' : call'[c] \in Appended
        /\ \A f \in temp' : \A c \in DOMAIN f : call'[c] \in Appended
    BY <2>1, <2>2, <2>3, <2>6, <2>7 DEF PlacedInv
  <2>10. view' = view /\ \A d \in Drainers : todo'[d] \subseteq todo[d] /\ cur'[d] = cur[d]
    BY <1>2 DEF Flush, FlushDump, FlushWrite, FlushReplace, FlushRaises
  <2>11. \A d \in Drainers : /\ \A c \in todo'[d] \cup cur'[d] : call'[c] \in Appended
                             /\ \A S \in view'[d] : \A c \in S : call'[c] \in Appended
    <3>1. \A d \in Drainers : \A S \in view[d] : S \subseteq Calls OBVIOUS
    <3> QED BY <2>1, <2>10, <3>1 DEF PlacedInv
  <2> QED BY <2>8, <2>9, <2>11 DEF PlacedInv
<1>3. ASSUME NEW t \in Drainers, Drain(t) PROVE PlacedInv'
  <2>1. UNCHANGED <<call, file, temp, image>>
    BY <1>3 DEF Drain, DrainStart, DrainRaises, DrainTry, DrainMark, DrainKeep, AgeOut, GiveUp, AgeOutPrune,
                AgeOutRebind, DrainEnd
  <2>2. \A c \in items' : call[c] \in Appended
    <3>1. CASE AgeOutRebind(t) BY <3>1 DEF AgeOutRebind, PlacedInv
    <3>2. CASE ~AgeOutRebind(t)
      <4>1. items' = items
        BY <1>3, <3>2 DEF Drain, DrainStart, DrainRaises, DrainTry, DrainMark, DrainKeep,
                          AgeOut, GiveUp, AgeOutPrune, DrainEnd
      <4> QED BY <4>1 DEF PlacedInv
    <3> QED BY <3>1, <3>2
  <2>3. \A e \in Drainers : todo'[e] \cup cur'[e] \subseteq items \cup todo[e] \cup cur[e]
    BY <1>3 DEF Drain, DrainStart, DrainRaises, DrainTry, DrainMark, DrainKeep, AgeOut, GiveUp, AgeOutPrune,
                AgeOutRebind, DrainEnd
  <2>4. \A e \in Drainers : \A S \in view'[e] : S \in view[e] \/ S = items
    BY <1>3 DEF Drain, DrainStart, DrainRaises, DrainTry, DrainMark, DrainKeep, AgeOut, GiveUp, AgeOutPrune,
                AgeOutRebind, DrainEnd
  <2>5. \A e \in Drainers : /\ \A c \in todo'[e] \cup cur'[e] : call[c] \in Appended
                            /\ \A S \in view'[e] : \A c \in S : call[c] \in Appended
    BY <2>3, <2>4 DEF PlacedInv
  <2> QED BY <2>1, <2>2, <2>5 DEF PlacedInv
<1>4. ASSUME Restart PROVE PlacedInv'
  <2>1. \A c \in Calls : call[c] \in Appended => call'[c] \in Appended
    BY <1>4 DEF Restart, Appended
  <2>2. /\ \A f \in temp : DOMAIN f \subseteq Calls
        /\ DOMAIN file \subseteq Calls
    BY ImageFacts
  <2>3. items' = DOMAIN file /\ UNCHANGED <<file, temp>> BY <1>4 DEF Restart
  <2>4. \A u \in Threads : DOMAIN image'[u] = {} BY <1>4 DEF Restart, NoImage
  <2>5. \A d \in Drainers : todo'[d] = {} /\ cur'[d] = {} /\ view'[d] = {}
    BY <1>4 DEF Restart
  <2> QED BY <2>1, <2>2, <2>3, <2>4, <2>5 DEF PlacedInv
<1>5. ASSUME UNCHANGED vars PROVE PlacedInv' BY <1>5 DEF vars, PlacedInv
<1> QED BY <1>1, <1>2, <1>3, <1>4, <1>5 DEF Next

\* Every step preserves ShapeInv.
LEMMA ShapeStep == TypeOK /\ ShapeInv /\ [Next]_vars => ShapeInv'
<1> SUFFICES ASSUME TypeOK, ShapeInv, [Next]_vars PROVE ShapeInv' OBVIOUS
<1> USE DEF TypeOK, listVars, fileVars, drainVars, history
<1>1. ASSUME NEW t \in Calls, Send(t) PROVE ShapeInv'
  <2>1. UNCHANGED <<drain, todo, cur, view>> /\ \A d \in Drainers : flush'[d] = flush[d]
    BY <1>1, ThreadsAssumption
       DEF Send, SendLands, SendRaises, SendFails, EnqueueIdentical, EnqueueNew,
           EnqueueAppend, EnqueueReturn, Threads
  <2> QED BY <2>1 DEF ShapeInv
<1>2. ASSUME NEW t \in Threads, Flush(t) PROVE ShapeInv'
  <2>1. /\ UNCHANGED <<cur, view>>
        /\ \A d \in Drainers : d # t =>
              flush'[d] = flush[d] /\ todo'[d] = todo[d] /\ drain'[d] = drain[d]
    BY <1>2 DEF Flush, FlushDump, FlushWrite, FlushReplace, FlushRaises, Threads
  <2>2. flush[t] # "no"
    BY <1>2 DEF Flush, FlushDump, FlushWrite, FlushReplace, FlushRaises
  <2>3. t \in Drainers => /\ cur[t] = {} /\ view[t] = {} /\ drain[t] \in {"next", "ending"}
                          /\ \/ todo'[t] = todo[t] /\ drain'[t] = drain[t]
                             \/ todo'[t] = {} /\ drain'[t] = "idle" /\ flush'[t] = "no"
    BY <1>2, <2>2
       DEF Flush, FlushDump, FlushWrite, FlushReplace, FlushRaises, Threads, ShapeInv
  <2> QED BY <2>1, <2>3 DEF ShapeInv
<1>3. ASSUME NEW d \in Drainers, Drain(d) PROVE ShapeInv'
  <2>1. d \in Threads BY DEF Threads
  <2>2. \A e \in Drainers : e # d =>
           /\ drain'[e] = drain[e] /\ todo'[e] = todo[e] /\ cur'[e] = cur[e]
           /\ flush'[e] = flush[e] /\ (view'[e] = view[e] \/ drain[e] = "pruning")
    BY <1>3, <2>1 DEF Drain, DrainStart, DrainRaises, DrainTry, DrainMark, DrainKeep, AgeOut,
                      GiveUp, AgeOutPrune, AgeOutRebind, DrainEnd, Threads
  <2>3. /\ todo'[d] \cap cur'[d] = {} /\ \A c, k \in cur'[d] : c = k
        /\ drain'[d] \in {"idle", "pruning", "ending"} => todo'[d] = {}
        /\ drain'[d] \in {"idle", "next", "aging", "pruning", "ending"} => cur'[d] = {}
        /\ drain'[d] # "pruning" => view'[d] = {}
        /\ flush'[d] # "no" => drain'[d] \in {"next", "ending"}
    <3>1. CASE DrainStart(d) BY <3>1 DEF DrainStart, ShapeInv
    <3>2. CASE DrainTry(d) BY <3>2 DEF DrainTry, ShapeInv
    <3>3. CASE DrainMark(d) BY <3>3 DEF DrainMark, ShapeInv, Outcomes
    <3>4. CASE DrainKeep(d) BY <3>4 DEF DrainKeep, ShapeInv
    <3>5. CASE AgeOut(d)
      <4>1. cur'[d] = {} /\ view'[d] = {} /\ flush'[d] = "no" /\ drain'[d] \in {"aging", "ending"}
        BY <3>5 DEF AgeOut, ShapeInv
      <4>2. drain'[d] = "ending" => todo'[d] = {} BY <3>5 DEF AgeOut
      <4> QED BY <4>1, <4>2
    <3>6. CASE GiveUp(d) BY <3>6 DEF GiveUp, ShapeInv
    <3>7. CASE AgeOutPrune(d) BY <2>1, <3>7 DEF AgeOutPrune, ShapeInv
    <3>8. CASE AgeOutRebind(d)
      <4>1. todo'[d] = {} /\ cur'[d] = {} /\ view'[d] = {} /\ drain'[d] = "ending"
        BY <3>8 DEF AgeOutRebind, ShapeInv
      <4> QED BY <4>1
    <3>9. CASE DrainEnd(d) \/ DrainRaises(d)
      BY <2>1, <3>9 DEF DrainEnd, DrainRaises, ShapeInv
    <3> QED BY <1>3, <3>1, <3>2, <3>3, <3>4, <3>5, <3>6, <3>7, <3>8, <3>9 DEF Drain
  <2> QED BY <2>2, <2>3 DEF ShapeInv
<1>4. ASSUME Restart PROVE ShapeInv' BY <1>4 DEF Restart, ShapeInv, Threads
<1>5. ASSUME UNCHANGED vars PROVE ShapeInv' BY <1>5 DEF vars, ShapeInv
<1> QED BY <1>1, <1>2, <1>3, <1>4, <1>5 DEF Next

\* The invariants that need no count, together.
LEMMA PlacedAlways == Spec => [](TypeOK /\ PlacedInv /\ ShapeInv)
<1>1. Init => PlacedInv /\ ShapeInv BY DEF Init, PlacedInv, ShapeInv, NoImage, Threads
<1> QED BY TypeCorrect, PlacedStep, ShapeStep, <1>1, PTL DEF Spec

-----------------------------------------------------------------------------
(* A queued request can be polled *)

\* A request whose entry is on its way to the file is, or was, in the list, and so is
\* one answered "queued" whose content nobody else sent.
TrackedInv ==
    mishaps = {} =>
        \A c \in Calls :
            call[c] = "flushing" \/ (call[c] = "queued" /\ Alike(c) = {})
                => c \in items \cup pruned

\* A request that sent the same stays one that did.
LEMMA AlikeGrows ==
    ASSUME NEW c \in Calls,
           \A k \in Calls : call[k] \notin {"unmade", "new"} => call'[k] \notin {"unmade", "new"}
    PROVE  Alike(c) \subseteq Alike(c)'
BY DEF Alike

\* The entries that are in the list, or were, only become more, but for a restart and a
\* prune that undoes another.
LEMMA TrackedStep == TypeOK /\ PlacedInv /\ TrackedInv /\ [Next]_vars => TrackedInv'
<1> SUFFICES ASSUME TypeOK, PlacedInv, TrackedInv, [Next]_vars PROVE TrackedInv' OBVIOUS
<1> USE DEF TypeOK, listVars, fileVars, drainVars, history
<1> DEFINE Tracked(c) == c \in items \cup pruned
<1>0. ASSUME UNCHANGED mishaps,
             \A c \in Calls : Tracked(c) => Tracked(c)',
             \A c \in Calls : call[c] \notin {"unmade", "new"} => call'[c] \notin {"unmade", "new"},
             \A c \in Calls : call'[c] \in {"flushing", "queued"} =>
                 \/ call'[c] = call[c]
                 \/ call[c] = "flushing"
                 \/ Tracked(c)'
                 \/ call'[c] = "queued" /\ Alike(c)' # {}
      PROVE  TrackedInv'
  <2> SUFFICES ASSUME mishaps = {}, NEW c \in Calls,
                      call'[c] = "flushing" \/ (call'[c] = "queued" /\ Alike(c)' = {})
               PROVE  Tracked(c)'
    BY <1>0 DEF TrackedInv
  <2>1. Alike(c) \subseteq Alike(c)' BY <1>0, AlikeGrows
  <2>2. CASE call'[c] = call[c] BY <1>0, <2>1, <2>2 DEF TrackedInv
  <2>3. CASE call[c] = "flushing" BY <1>0, <2>3 DEF TrackedInv
  <2> QED BY <1>0, <2>2, <2>3
<1> HIDE DEF Tracked
<1>1. ASSUME NEW t \in Calls, Send(t) PROVE TrackedInv'
  <2>1. /\ mishaps' = mishaps
        /\ \A c \in Calls : call[c] \notin {"unmade", "new"} => call'[c] \notin {"unmade", "new"}
        /\ \A c \in Calls : c # t => call'[c] = call[c]
        /\ pruned' = pruned /\ items \subseteq items'
    BY <1>1 DEF Send, SendLands, SendRaises, SendFails, EnqueueIdentical, EnqueueNew,
                EnqueueAppend, EnqueueReturn
  <2>2. \A c \in Calls : Tracked(c) => Tracked(c)' BY <2>1 DEF Tracked
  <2>3. CASE EnqueueIdentical(t)
    <3>1. PICK k \in items : ContentOf[k] = ContentOf[t] BY <2>3 DEF EnqueueIdentical
    <3>2. k # t /\ call'[k] = call[k] /\ call[k] \in Appended
      BY <2>1, <2>3 DEF EnqueueIdentical, PlacedInv, Appended
    <3>3. k \in Alike(t)' BY <3>1, <3>2 DEF Alike, Appended
    <3>4. call'[t] = "queued" BY <2>3 DEF EnqueueIdentical
    <3> QED BY <1>0, <2>1, <2>2, <3>3, <3>4
  <2>4. CASE EnqueueAppend(t)
    <3>1. Tracked(t)' BY <2>4 DEF EnqueueAppend, Tracked
    <3> QED BY <1>0, <2>1, <2>2, <3>1
  <2>5. CASE EnqueueReturn(t)
    <3>1. call[t] = "flushing" BY <2>5 DEF EnqueueReturn
    <3> QED BY <1>0, <2>1, <2>2, <3>1
  <2>6. CASE SendLands(t) \/ SendRaises(t) \/ SendFails(t) \/ EnqueueNew(t)
    <3>1. call'[t] \notin {"flushing", "queued"}
      BY <2>6 DEF SendLands, SendRaises, SendFails, EnqueueNew
    <3> QED BY <1>0, <2>1, <2>2, <3>1
  <2> QED BY <1>1, <2>3, <2>4, <2>5, <2>6 DEF Send
<1>2. ASSUME NEW t \in Threads, Flush(t) PROVE TrackedInv'
  <2>1. /\ UNCHANGED <<items, pruned, mishaps>>
        /\ \A c \in Calls : call'[c] \in {call[c], "raised"}
    BY <1>2 DEF Flush, FlushDump, FlushWrite, FlushReplace, FlushRaises
  <2>2. \A c \in Calls : Tracked(c) => Tracked(c)' BY <2>1 DEF Tracked
  <2> QED BY <1>0, <2>1, <2>2
<1>3. ASSUME NEW t \in Drainers, Drain(t) PROVE TrackedInv'
  <2>1. CASE AgeOutRebind(t)
    <3>1. CASE view[t] = {}
      <4>1. UNCHANGED <<mishaps, call>> BY <2>1, <3>1 DEF AgeOutRebind
      <4>2. items' = items \ stale[t] /\ pruned' = pruned \cup stale[t]
        BY <2>1, <3>1 DEF AgeOutRebind
      <4>3. \A c \in Calls : Tracked(c) => Tracked(c)' BY <4>2 DEF Tracked
      <4> QED BY <1>0, <4>1, <4>3
    <3>2. CASE view[t] # {}
      <4>1. mishaps' # {} BY <2>1, <3>2 DEF AgeOutRebind
      <4> QED BY <4>1 DEF TrackedInv
    <3> QED BY <3>1, <3>2
  <2>2. CASE ~AgeOutRebind(t)
    <3>1. UNCHANGED <<call, items, pruned, mishaps>>
      BY <1>3, <2>2 DEF Drain, DrainStart, DrainRaises, DrainTry, DrainMark, DrainKeep,
                        AgeOut, GiveUp, AgeOutPrune, DrainEnd
    <3>2. \A c \in Calls : Tracked(c) => Tracked(c)' BY <3>1 DEF Tracked
    <3> QED BY <1>0, <3>1, <3>2
  <2> QED BY <2>1, <2>2
<1>4. ASSUME Restart PROVE TrackedInv'
  <2>1. mishaps' # {} BY <1>4 DEF Restart
  <2> QED BY <2>1 DEF TrackedInv
<1>5. ASSUME UNCHANGED vars PROVE TrackedInv'
  BY <1>5 DEF vars, TrackedInv, Alike
<1> QED BY <1>1, <1>2, <1>3, <1>4, <1>5 DEF Next

\* While the process lives, no interleaving of sends and drains takes from a queued
\* request the entry it can be polled under, short of two prunes that overlap.
THEOREM QueuedIsPollable == Spec => []QueuedStaysPollable
<1>1. Init => TrackedInv BY DEF Init, TrackedInv
<1>2. TrackedInv => QueuedStaysPollable BY DEF TrackedInv, QueuedStaysPollable
<1> QED BY PlacedAlways, TrackedStep, <1>1, <1>2, PTL DEF Spec

-----------------------------------------------------------------------------
(* How often a message is sent *)

\* The entries of the lists that are in use, or may be put back.
Known == items \cup UNION {UNION view[d] : d \in Drainers}

\* Drains that are still to send c, or to give it up, and drains that have sent it and
\* are to mark it.
Owing(c) == {d \in Drainers : c \in todo[d]}
Marking(c) == {d \in Drainers : drain[d] = "delivered" /\ c \in cur[d]}

\* While an entry is pending, each landing beyond the doubts is one that some drain is
\* about to mark.  A drain that is still to send it has not done so yet.
Counts(c) ==
    /\ call[c] \in {"new", "parking", "appending"} => landed[c] <= doubts[c]
    /\ c \in Known /\ Pending(c) => landed[c] <= doubts[c] + Cardinality(Marking(c))
    /\ landed[c] + Cardinality(Owing(c)) <= doubts[c] + Cardinality(Drainers)

CountInv == \A c \in Calls : Counts(c)

\* Two disjoint sets of drains together have no more members than there are drains.
LEMMA DrainSets ==
    ASSUME NEW A \in SUBSET Drainers, NEW B \in SUBSET Drainers, A \cap B = {}
    PROVE  /\ IsFiniteSet(A) /\ IsFiniteSet(B)
           /\ Cardinality(A) \in Nat /\ Cardinality(B) \in Nat
           /\ Cardinality(Drainers) \in Nat
           /\ Cardinality(A) + Cardinality(B) <= Cardinality(Drainers)
<1>1. IsFiniteSet(A) /\ IsFiniteSet(B) BY DrainersAssumption, FS_Subset
<1>2. Cardinality(A \cup B) = Cardinality(A) + Cardinality(B) - Cardinality(A \cap B)
  BY <1>1, FS_Union
<1>3. /\ Cardinality(A \cup B) <= Cardinality(Drainers)
      /\ Cardinality(Drainers) \in Nat
  BY DrainersAssumption, FS_Subset, FS_CardinalityType
<1>4. Cardinality(A) \in Nat /\ Cardinality(B) \in Nat
  BY <1>1, FS_CardinalityType
<1>5. Cardinality(A \cap B) = 0 BY FS_EmptySet
<1> QED BY <1>1, <1>2, <1>3, <1>4, <1>5

\* A drain less is one less.
LEMMA OneLess ==
    ASSUME NEW S, IsFiniteSet(S), NEW x \in S
    PROVE  Cardinality(S \ {x}) = Cardinality(S) - 1
BY FS_RemoveElement

\* A drain is not both to send a message and to mark it.
LEMMA DrainerCount ==
    ASSUME ShapeInv, NEW c
    PROVE  /\ IsFiniteSet(Owing(c)) /\ IsFiniteSet(Marking(c))
           /\ Cardinality(Owing(c)) \in Nat /\ Cardinality(Marking(c)) \in Nat
           /\ Cardinality(Drainers) \in Nat
           /\ Cardinality(Owing(c)) + Cardinality(Marking(c)) <= Cardinality(Drainers)
<1>1. Owing(c) \in SUBSET Drainers /\ Marking(c) \in SUBSET Drainers BY DEF Owing, Marking
<1>2. Owing(c) \cap Marking(c) = {} BY DEF Owing, Marking, ShapeInv
<1> QED BY <1>1, <1>2, DrainSets

\* A step in which a message does not land keeps its count, if it leaves no drain more
\* to send it, and an entry that is pending afterwards was so before, with its marks.
LEMMA QuietCounts ==
    ASSUME NEW c \in Calls, TypeOK, ShapeInv, Counts(c),
           landed'[c] = landed[c], doubts'[c] = doubts[c],
           call'[c] \in {"new", "parking", "appending"}
              => call[c] \in {"new", "parking", "appending"},
           c \in Known' /\ Pending(c)'
              => c \in Known /\ Pending(c) /\ Marking(c) \subseteq Marking(c)',
           Owing(c)' \subseteq Owing(c)
    PROVE  Counts(c)'
<1>1. /\ Cardinality(Owing(c)) \in Nat /\ Cardinality(Drainers) \in Nat
      /\ IsFiniteSet(Owing(c)) /\ Cardinality(Marking(c)) \in Nat
  BY DrainerCount
<1>2. Owing(c)' \in SUBSET Drainers /\ Marking(c)' \in SUBSET Drainers
  BY DEF Owing, Marking
<1>3. /\ Cardinality(Owing(c)') \in Nat /\ Cardinality(Marking(c)') \in Nat
      /\ IsFiniteSet(Marking(c)')
  BY <1>2, FS_Subset, FS_CardinalityType, DrainersAssumption
<1>4. Cardinality(Owing(c)') <= Cardinality(Owing(c)) BY <1>1, FS_Subset
<1>5. c \in Known' /\ Pending(c)' => Cardinality(Marking(c)) <= Cardinality(Marking(c)')
  BY <1>3, FS_Subset
<1>6. landed[c] \in Nat /\ doubts[c] \in Nat BY DEF TypeOK
<1> QED BY <1>1, <1>3, <1>4, <1>5, <1>6 DEF Counts

\* Every step of a send request preserves the counts.
LEMMA CountSend ==
    ASSUME TypeOK, PlacedInv, ShapeInv, CountInv, NEW t \in Calls, Send(t)
    PROVE  CountInv'
<1> USE DEF TypeOK, listVars, fileVars, drainVars, history
<1>1. \A c : Owing(c)' = Owing(c) /\ Marking(c)' = Marking(c)
  BY DEF Send, SendLands, SendRaises, SendFails, EnqueueIdentical, EnqueueNew,
         EnqueueAppend, EnqueueReturn, Owing, Marking
<1>2. ASSUME NEW c \in Calls, c # t \/ ~(SendLands(t) \/ SendFails(t) \/ EnqueueAppend(t))
      PROVE  Counts(c)'
  <2>1. /\ landed'[c] = landed[c] /\ doubts'[c] = doubts[c]
        /\ call'[c] \in {"new", "parking", "appending"}
              => call[c] \in {"new", "parking", "appending"}
        /\ c \in Known' /\ Pending(c)' => c \in Known /\ Pending(c)
    BY <1>2 DEF Send, SendLands, SendRaises, SendFails, EnqueueIdentical, EnqueueNew,
                EnqueueAppend, EnqueueReturn, Pending, Known
  <2>2. Counts(c) BY DEF CountInv
  <2> QED BY <1>1, <2>1, <2>2, QuietCounts
<1>3. ASSUME SendLands(t) \/ SendFails(t) \/ EnqueueAppend(t) PROVE Counts(t)'
  <2>1. call[t] \in {"new", "appending"} BY <1>3 DEF SendLands, SendFails, EnqueueAppend
  <2>2. t \notin Known /\ landed[t] <= doubts[t]
    BY <2>1 DEF PlacedInv, Appended, CountInv, Counts, Known
  <2>3. Cardinality(Owing(t)) = 0
    <3>1. Owing(t) = {} BY <2>1 DEF PlacedInv, Appended, Owing
    <3> QED BY <3>1, FS_EmptySet
  <2>4. Cardinality(Drainers) \in Nat \ {0} /\ Cardinality(Marking(t)) \in Nat
    BY DrainersAssumption, DrainerCount, FS_EmptySet
  <2>5. /\ landed'[t] <= doubts'[t] + 1
        /\ call'[t] \in {"new", "parking", "appending"} => landed'[t] <= doubts'[t]
        /\ t \in Known' => landed'[t] = landed[t] /\ doubts'[t] = doubts[t]
        /\ landed'[t] \in Nat /\ doubts'[t] \in Nat
    BY <1>3, <2>2 DEF SendLands, SendFails, EnqueueAppend, Known
  <2> QED BY <1>1, <2>2, <2>3, <2>4, <2>5 DEF Counts
<1> QED BY <1>2, <1>3 DEF CountInv

\* Every step of _flush preserves the counts: a drain that fails in it has nothing to
\* mark, and gives up what it still had to send.
LEMMA CountFlush ==
    ASSUME TypeOK, ShapeInv, CountInv, NEW t \in Threads, Flush(t)
    PROVE  CountInv'
<1> USE DEF TypeOK, listVars, fileVars, drainVars, history
<1>1. flush[t] # "no" /\ UNCHANGED <<items, entry, cur, view, landed, doubts>>
  BY DEF Flush, FlushDump, FlushWrite, FlushReplace, FlushRaises
<1>2. \A d \in Drainers :
         /\ todo'[d] \subseteq todo[d]
         /\ drain[d] = "delivered" => drain'[d] = "delivered"
  BY <1>1 DEF Flush, FlushDump, FlushWrite, FlushReplace, FlushRaises, ShapeInv
<1>3. ASSUME NEW c \in Calls PROVE Counts(c)'
  <2>1. Owing(c)' \subseteq Owing(c) /\ Marking(c) \subseteq Marking(c)'
    BY <1>1, <1>2 DEF Owing, Marking
  <2>2. call'[c] \in {"new", "parking", "appending"} => call'[c] = call[c]
    BY DEF Flush, FlushDump, FlushWrite, FlushReplace, FlushRaises
  <2>3. Counts(c) BY DEF CountInv
  <2> QED BY <1>1, <2>1, <2>2, <2>3, QuietCounts DEF Pending, Known
<1> QED BY <1>3 DEF CountInv

\* A pass takes on what is pending, to send it or to give it up: the drains that are to
\* mark one of these have sent it, those that are still to send it have not.
LEMMA CountStart ==
    ASSUME TypeOK, ShapeInv, ShapeInv', CountInv, NEW d \in Drainers,
           DrainStart(d) \/ AgeOut(d)
    PROVE  CountInv'
<1> USE DEF TypeOK, listVars, fileVars, drainVars, history
<1>1. /\ UNCHANGED <<call, items, entry, landed, doubts, cur, view>>
      /\ \A e \in Drainers : e # d => drain'[e] = drain[e] /\ todo'[e] = todo[e]
      /\ todo'[d] \subseteq {c \in items : Pending(c)}
      /\ drain[d] \in {"idle", "next"} /\ drain'[d] \in {"next", "aging", "ending"}
  <2>1. CASE DrainStart(d) BY <2>1 DEF DrainStart
  <2>2. CASE AgeOut(d) BY <2>2 DEF AgeOut
  <2> QED BY <2>1, <2>2
<1>2. ASSUME NEW c \in Calls PROVE Counts(c)'
  <2>1. Marking(c)' = Marking(c) /\ Counts(c) BY <1>1 DEF Marking, CountInv
  <2>2. CASE c \in Known /\ Pending(c)
    <3>1. Owing(c)' \in SUBSET Drainers /\ Marking(c)' \in SUBSET Drainers
      BY DEF Owing, Marking
    <3>2. Owing(c)' \cap Marking(c)' = {} BY DEF Owing, Marking, ShapeInv
    <3>3. /\ Cardinality(Owing(c)') \in Nat /\ Cardinality(Marking(c)') \in Nat
          /\ Cardinality(Drainers) \in Nat
          /\ Cardinality(Owing(c)') + Cardinality(Marking(c)') <= Cardinality(Drainers)
      BY <3>1, <3>2, DrainSets
    <3>4. landed[c] <= doubts[c] + Cardinality(Marking(c)')
      BY <2>1, <2>2 DEF Counts
    <3>5. landed[c] \in Nat /\ doubts[c] \in Nat OBVIOUS
    <3> QED BY <1>1, <2>1, <3>3, <3>4, <3>5 DEF Counts
  <2>3. CASE ~(c \in Known /\ Pending(c))
    <3>1. Owing(c)' \subseteq Owing(c) BY <1>1, <2>3 DEF Owing, Known
    <3> QED BY <1>1, <2>1, <2>3, <3>1, QuietCounts DEF Pending, Known
  <2> QED BY <2>2, <2>3
<1> QED BY <1>2 DEF CountInv

\* An attempt: the drain no longer owes the message, and if it landed, is to mark it or
\* does not know.
LEMMA CountTry ==
    ASSUME TypeOK, PlacedInv, ShapeInv, CountInv, NEW d \in Drainers, DrainTry(d)
    PROVE  CountInv'
<1> USE DEF TypeOK, listVars, fileVars, drainVars, history
<1>1. PICK c \in todo[d] :
         /\ todo' = [todo EXCEPT ![d] = @ \ {c}]
         /\ cur' = [cur EXCEPT ![d] = {c}]
         /\ \/ /\ drain' = [drain EXCEPT ![d] = "delivered"]
               /\ landed' = [landed EXCEPT ![c] = @ + 1] /\ doubts' = doubts
            \/ landed' = landed /\ doubts' = doubts /\ drain'[d] # "delivered"
            \/ /\ landed' = [landed EXCEPT ![c] = @ + 1]
               /\ doubts' = [doubts EXCEPT ![c] = @ + 1] /\ drain'[d] # "delivered"
  BY DEF DrainTry
<1>2. /\ drain[d] = "next" /\ UNCHANGED <<call, items, entry, view>>
      /\ \A e \in Drainers : e # d => drain'[e] = drain[e]
  BY DEF DrainTry
<1>3. c \in Calls /\ cur[d] = {} /\ call[c] \in Appended
  BY <1>1, <1>2 DEF ShapeInv, PlacedInv
<1>4. ASSUME NEW k \in Calls, k # c PROVE Counts(k)'
  <2>1. Owing(k)' = Owing(k) BY <1>1, <1>4 DEF Owing
  <2>2. Marking(k)' = Marking(k) BY <1>1, <1>2, <1>3, <1>4 DEF Marking
  <2>3. landed'[k] = landed[k] /\ doubts'[k] = doubts[k] /\ Counts(k)
    BY <1>1, <1>3, <1>4 DEF CountInv
  <2> QED BY <1>2, <2>1, <2>2, <2>3, QuietCounts DEF Pending, Known
<1>5. Counts(c)'
  <2>1. Owing(c)' = Owing(c) \ {d} /\ d \in Owing(c) BY <1>1 DEF Owing
  <2>2. /\ Marking(c) = Marking(c) \ {d}
        /\ drain'[d] = "delivered" => Marking(c)' = Marking(c) \cup {d}
        /\ drain'[d] # "delivered" => Marking(c)' = Marking(c)
    BY <1>1, <1>2, <1>3 DEF Marking
  <2>3. /\ IsFiniteSet(Owing(c)) /\ IsFiniteSet(Marking(c))
        /\ Cardinality(Owing(c)) \in Nat /\ Cardinality(Marking(c)) \in Nat
        /\ Cardinality(Drainers) \in Nat
    BY DrainerCount
  <2>4. Cardinality(Owing(c)') = Cardinality(Owing(c)) - 1
    <3>1. Cardinality(Owing(c) \ {d}) = Cardinality(Owing(c)) - 1
      BY <2>1, <2>3, OneLess
    <3> QED BY <2>1, <3>1
  <2>5. /\ drain'[d] = "delivered"
              => Cardinality(Marking(c)') = Cardinality(Marking(c)) + 1
        /\ drain'[d] # "delivered" => Cardinality(Marking(c)') = Cardinality(Marking(c))
    BY <2>2, <2>3, FS_AddElement
  <2>6. /\ landed[c] \in Nat /\ doubts[c] \in Nat
        /\ \/ /\ drain'[d] = "delivered"
              /\ landed'[c] = landed[c] + 1 /\ doubts'[c] = doubts[c]
           \/ landed'[c] = landed[c] /\ doubts'[c] = doubts[c] /\ drain'[d] # "delivered"
           \/ /\ landed'[c] = landed[c] + 1
              /\ doubts'[c] = doubts[c] + 1 /\ drain'[d] # "delivered"
    BY <1>1, <1>3
  <2>7. /\ c \in Known /\ Pending(c) => landed[c] <= doubts[c] + Cardinality(Marking(c))
        /\ landed[c] + Cardinality(Owing(c)) <= doubts[c] + Cardinality(Drainers)
    BY <1>3 DEF CountInv, Counts
  <2>8. call'[c] \notin {"new", "parking", "appending"} BY <1>2, <1>3 DEF Appended
  <2>9. c \in Known' /\ Pending(c)' => c \in Known /\ Pending(c) BY <1>2 DEF Pending, Known
  <2>10. /\ c \in Known' /\ Pending(c)' => landed'[c] <= doubts'[c] + Cardinality(Marking(c)')
         /\ landed'[c] + Cardinality(Owing(c)') <= doubts'[c] + Cardinality(Drainers)
    BY <2>3, <2>4, <2>5, <2>6, <2>7, <2>9
  <2> QED BY <2>8, <2>10 DEF Counts
<1> QED BY <1>4, <1>5 DEF CountInv

\* A mark leaves its entry settled, or counts what it could not mark as a doubt.
LEMMA CountMark ==
    ASSUME TypeOK, ShapeInv, CountInv, NEW d \in Drainers, DrainMark(d)
    PROVE  CountInv'
<1> USE DEF TypeOK, listVars, fileVars, drainVars, history
<1>1. PICK c \in cur[d] :
         \/ /\ c \in items /\ entry' = [entry EXCEPT ![c].terminal = drain[d]]
            /\ doubts' = doubts
         \/ /\ c \notin items /\ entry' = entry
            /\ doubts' = IF drain[d] = "delivered" /\ Pending(c)
                         THEN [doubts EXCEPT ![c] = @ + 1] ELSE doubts
  BY DEF DrainMark
<1>2. /\ drain[d] \in Outcomes /\ UNCHANGED <<call, items, view, landed, todo>>
      /\ drain'[d] = "next" /\ cur'[d] = {}
      /\ \A e \in Drainers : e # d => drain'[e] = drain[e] /\ cur'[e] = cur[e]
  BY DEF DrainMark
<1>3. cur[d] = {c} /\ c \in Calls BY <1>1 DEF ShapeInv
<1>4. ASSUME NEW k \in Calls PROVE Owing(k)' = Owing(k) /\ Counts(k) /\ (k \in Known' <=> k \in Known)
  BY <1>2 DEF Owing, CountInv, Known
<1>5. ASSUME NEW k \in Calls, k # c PROVE Counts(k)'
  <2>1. entry'[k] = entry[k] /\ doubts'[k] = doubts[k] BY <1>1, <1>3, <1>5
  <2>2. Marking(k) \subseteq Marking(k)' BY <1>2, <1>3, <1>5 DEF Marking
  <2> QED BY <1>2, <1>4, <2>1, <2>2, QuietCounts DEF Pending
<1>6. Counts(c)'
  <2>1. CASE c \in items \/ ~Pending(c) \/ drain[d] # "delivered"
    <3>1. doubts'[c] = doubts[c] BY <1>1, <2>1
    <3>2. Pending(c)' => c \notin items /\ Pending(c) /\ drain[d] # "delivered"
      BY <1>1, <1>2, <1>3, <2>1 DEF Pending, Outcomes, Entry
    <3>3. Pending(c)' => Marking(c) \subseteq Marking(c)' BY <1>2, <3>2 DEF Marking
    <3> QED BY <1>2, <1>3, <1>4, <3>1, <3>2, <3>3, QuietCounts
  <2>2. CASE c \notin items /\ Pending(c) /\ drain[d] = "delivered"
    <3>1. doubts'[c] = doubts[c] + 1 BY <1>1, <1>3, <2>2
    <3>2. Marking(c)' = Marking(c) \ {d} /\ d \in Marking(c)
      BY <1>2, <1>3, <2>2 DEF Marking
    <3>3. /\ IsFiniteSet(Marking(c)) /\ Cardinality(Marking(c)) \in Nat
          /\ Cardinality(Owing(c)) \in Nat /\ Cardinality(Drainers) \in Nat
      BY DrainerCount
    <3>4. Cardinality(Marking(c)') = Cardinality(Marking(c)) - 1
      <4>1. Cardinality(Marking(c) \ {d}) = Cardinality(Marking(c)) - 1
        BY <3>2, <3>3, OneLess
      <4> QED BY <3>2, <4>1
    <3>5. /\ call'[c] = call[c] /\ landed'[c] = landed[c] /\ landed[c] \in Nat /\ doubts[c] \in Nat
          /\ c \in Known' => c \in Known
      BY <1>2, <1>3, <1>4
    <3>6. /\ call[c] \in {"new", "parking", "appending"} => landed[c] <= doubts[c]
          /\ c \in Known => landed[c] <= doubts[c] + Cardinality(Marking(c))
          /\ landed[c] + Cardinality(Owing(c)) <= doubts[c] + Cardinality(Drainers)
      BY <1>3, <1>4, <2>2 DEF Counts
    <3>7. Owing(c)' = Owing(c) BY <1>3, <1>4
    <3>8. /\ call'[c] \in {"new", "parking", "appending"} => landed'[c] <= doubts'[c]
          /\ c \in Known' => landed'[c] <= doubts'[c] + Cardinality(Marking(c)')
          /\ landed'[c] + Cardinality(Owing(c)') <= doubts'[c] + Cardinality(Drainers)
      BY <3>1, <3>3, <3>4, <3>5, <3>6, <3>7
    <3> QED BY <3>8 DEF Counts
  <2> QED BY <2>1, <2>2
<1> QED BY <1>5, <1>6 DEF CountInv

\* What a prune puts in place are entries that some list had.
LEMMA KnownStep ==
    ASSUME TypeOK, NEW d \in Drainers, Drain(d)
    PROVE  Known' \subseteq Known
<1> USE DEF TypeOK, listVars, fileVars, drainVars, history
<1>1. CASE AgeOutRebind(d)
  <2>1. items' \subseteq items \cup UNION view[d] BY <1>1 DEF AgeOutRebind
  <2>2. \A e \in Drainers : \A S \in view'[e] : S \in view[e] \/ S = items
    BY <1>1 DEF AgeOutRebind
  <2> QED BY <2>1, <2>2 DEF Known
<1>2. CASE ~AgeOutRebind(d)
  <2>1. UNCHANGED <<items, view>>
    BY <1>2 DEF Drain, DrainStart, DrainRaises, DrainTry, DrainMark, DrainKeep, AgeOut,
                GiveUp, AgeOutPrune, DrainEnd
  <2> QED BY <2>1 DEF Known
<1> QED BY <1>1, <1>2

\* Every step of a drain preserves the counts.
LEMMA CountDrain ==
    ASSUME TypeOK, PlacedInv, ShapeInv, ShapeInv', CountInv, NEW d \in Drainers, Drain(d)
    PROVE  CountInv'
<1> USE DEF TypeOK, listVars, fileVars, drainVars, history
<1>1. CASE DrainStart(d) \/ AgeOut(d) BY <1>1, CountStart
<1>2. CASE DrainTry(d) BY <1>2, CountTry
<1>3. CASE DrainMark(d) BY <1>3, CountMark
<1>4. CASE \/ DrainRaises(d) \/ DrainKeep(d) \/ GiveUp(d) \/ AgeOutPrune(d)
           \/ AgeOutRebind(d) \/ DrainEnd(d)
  <2>1. /\ UNCHANGED <<call, landed, doubts>> /\ \A e \in Drainers : todo'[e] \subseteq todo[e]
        /\ \A k \in Calls : Pending(k)' => Pending(k)
    <3>1. CASE DrainKeep(d) BY <3>1 DEF DrainKeep, Pending, Entry
    <3>2. CASE GiveUp(d) BY <3>2 DEF GiveUp, Pending, Entry
    <3>3. CASE DrainRaises(d) \/ AgeOutPrune(d) \/ AgeOutRebind(d) \/ DrainEnd(d)
      BY <3>3 DEF DrainRaises, AgeOutPrune, AgeOutRebind, DrainEnd, Pending
    <3> QED BY <1>4, <3>1, <3>2, <3>3
  <2>2. /\ drain[d] # "delivered"
        /\ \A e \in Drainers : e # d => drain'[e] = drain[e] /\ cur'[e] = cur[e]
    BY <1>4 DEF DrainRaises, DrainKeep, GiveUp, AgeOutPrune, AgeOutRebind, DrainEnd
  <2>3. ASSUME NEW k \in Calls PROVE Counts(k)'
    <3>1. Owing(k)' \subseteq Owing(k) /\ Marking(k) \subseteq Marking(k)' /\ Counts(k)
      BY <2>1, <2>2 DEF Owing, Marking, CountInv
    <3>2. k \in Known' => k \in Known BY KnownStep
    <3> QED BY <2>1, <3>1, <3>2, QuietCounts
  <2> QED BY <2>3 DEF CountInv
<1> QED BY <1>1, <1>2, <1>3, <1>4 DEF Drain

\* A restart leaves no drain under way, and where the file calls an entry pending that
\* has landed, nobody knows of the landings any more.
LEMMA CountRestart == ASSUME TypeOK, ShapeInv, CountInv, Restart PROVE CountInv'
<1> USE DEF TypeOK
<1>1. ASSUME NEW c \in Calls PROVE Counts(c)'
  <2>1. Cardinality(Owing(c)') = 0 /\ Cardinality(Marking(c)') = 0
    <3>1. Owing(c)' = {} /\ Marking(c)' = {} BY DEF Restart, Owing, Marking
    <3> QED BY <3>1, FS_EmptySet
  <2>2. /\ landed'[c] = landed[c] /\ Known' = DOMAIN file
        /\ call'[c] = IF call[c] \in {"unmade", "new", "sent", "raised", "queued"}
                      THEN call[c] ELSE "lost"
        /\ doubts'[c] = IF /\ c \in DOMAIN file /\ file[c].terminal = "none"
                           /\ landed[c] > doubts[c]
                        THEN landed[c] ELSE doubts[c]
        /\ c \in DOMAIN file => entry'[c] = file[c]
    <3>1. Known' = items'
      <4>1. \A d \in Drainers : view'[d] = {} BY DEF Restart
      <4> QED BY <4>1 DEF Known
    <3> QED BY <3>1 DEF Restart
  <2>3. /\ landed[c] + Cardinality(Owing(c)) <= doubts[c] + Cardinality(Drainers)
        /\ call[c] = "new" => landed[c] <= doubts[c]
    BY DEF CountInv, Counts
  <2>4. /\ Cardinality(Owing(c)) \in Nat /\ Cardinality(Drainers) \in Nat
        /\ landed[c] \in Nat /\ doubts[c] \in Nat
    BY DrainerCount
  <2>5. landed'[c] <= doubts'[c] + Cardinality(Drainers) BY <2>2, <2>3, <2>4
  <2>6. c \in Known' /\ Pending(c)' => landed'[c] <= doubts'[c]
    BY <2>2, <2>4 DEF Pending
  <2>7. call'[c] \in {"new", "parking", "appending"} => landed'[c] <= doubts'[c]
    BY <2>2, <2>3, <2>4
  <2>8. landed'[c] \in Nat /\ doubts'[c] \in Nat BY <2>2, <2>4
  <2> QED BY <2>1, <2>4, <2>5, <2>6, <2>7, <2>8 DEF Counts
<1> QED BY <1>1 DEF CountInv

\* Every step preserves the counts.
LEMMA CountStep ==
    TypeOK /\ PlacedInv /\ ShapeInv /\ CountInv /\ [Next]_vars => CountInv'
<1> SUFFICES ASSUME TypeOK, PlacedInv, ShapeInv, CountInv, [Next]_vars PROVE CountInv'
  OBVIOUS
<1>1. ShapeInv' BY ShapeStep
<1>2. CASE UNCHANGED vars
  BY <1>2 DEF vars, CountInv, Counts, Pending, Owing, Marking, Known
<1> QED BY <1>1, <1>2, CountSend, CountFlush, CountDrain, CountRestart DEF Next

\* The three invariants hold together.
LEMMA CountsAlways == Spec => [](TypeOK /\ PlacedInv /\ ShapeInv /\ CountInv)
<1>1. ASSUME Init PROVE PlacedInv /\ ShapeInv /\ CountInv
  <2>1. PlacedInv /\ ShapeInv BY <1>1 DEF Init, PlacedInv, ShapeInv, NoImage, Threads
  <2>2. ASSUME NEW c \in Calls PROVE Counts(c)
    <3>1. Cardinality(Owing(c)) = 0
      <4>1. Owing(c) = {} BY <1>1 DEF Init, Owing
      <4> QED BY <4>1, FS_EmptySet
    <3>2. Cardinality(Drainers) \in Nat BY DrainersAssumption, FS_CardinalityType
    <3>3. landed[c] = 0 /\ doubts[c] = 0 /\ c \notin Known BY <1>1 DEF Init, Known
    <3> QED BY <3>1, <3>2, <3>3 DEF Counts
  <2> QED BY <2>1, <2>2 DEF CountInv
<1>2. TypeOK /\ PlacedInv /\ ShapeInv /\ CountInv /\ [Next]_vars
         => PlacedInv' /\ ShapeInv' /\ CountInv'
  BY PlacedStep, ShapeStep, CountStep
<1> QED BY TypeCorrect, <1>1, <1>2, PTL DEF Spec

\* However many drains run at once, a message is sent at most once by each of them, but
\* for an answer that was lost, an entry that another prune had undone, or a file that was
\* behind at a restart (relay.py 2097-2124): for any number of requests, drains,
\* attempts and restarts.
THEOREM SentAgainOnlyInDoubt == Spec => []NoNeedlessSend
<1>1. TypeOK /\ ShapeInv /\ CountInv => NoNeedlessSend
  <2> SUFFICES ASSUME TypeOK, ShapeInv, CountInv, NEW c \in Calls
               PROVE  landed[c] <= doubts[c] + Cardinality(Drainers)
    BY DEF NoNeedlessSend
  <2>1. /\ Cardinality(Owing(c)) \in Nat /\ Cardinality(Drainers) \in Nat
        /\ landed[c] \in Nat /\ doubts[c] \in Nat
    BY DrainerCount DEF TypeOK
  <2> QED BY <2>1 DEF CountInv, Counts
<1> QED BY CountsAlways, <1>1, PTL

-----------------------------------------------------------------------------
(* Who may change an outcome *)

\* With any number of drains at once, an outcome is never taken back, no pass begun later
\* touches it, and each pass that had the entry in hand changes it at most once: for any
\* number of requests, drains and attempts, between two restarts.
THEOREM OutcomesAreSettled == Spec => OutcomeIsSettled
<1> DEFINE Settled == \A c \in items :
                         entry[c].terminal # "none" /\ left'["restart"] = left["restart"]
                           => /\ entry'[c].terminal # "none"
                              /\ Holders(c)' \subseteq Holders(c)
                              /\ entry'[c].terminal # entry[c].terminal
                                    => Holders(c)' # Holders(c)
<1>1. TypeOK /\ PlacedInv /\ ShapeInv /\ [Next]_vars => [Settled]_vars
  <2> SUFFICES ASSUME TypeOK, PlacedInv, ShapeInv, Next PROVE Settled
    OBVIOUS
  <2> USE DEF TypeOK, listVars, fileVars, drainVars, history
  <2>1. ASSUME NEW t \in Calls, Send(t) PROVE Settled
    <3>1. UNCHANGED <<todo, cur>> /\ \A c \in items : entry'[c] = entry[c]
      <4>1. CASE EnqueueAppend(t)
        BY <4>1 DEF EnqueueAppend, PlacedInv, Appended
      <4>2. CASE ~EnqueueAppend(t)
        BY <2>1, <4>2 DEF Send, SendLands, SendRaises, SendFails, EnqueueIdentical,
                          EnqueueNew, EnqueueReturn
      <4> QED BY <4>1, <4>2
    <3> QED BY <3>1 DEF Holders
  <2>2. ASSUME NEW t \in Threads, Flush(t) PROVE Settled
    <3>1. UNCHANGED <<entry, cur>> /\ \A d \in Drainers : todo'[d] \subseteq todo[d]
      BY <2>2 DEF Flush, FlushDump, FlushWrite, FlushReplace, FlushRaises
    <3> QED BY <3>1 DEF Holders
  <2>3. ASSUME NEW d \in Drainers, Drain(d) PROVE Settled
    <3>1. CASE DrainMark(d)
      <4>1. PICK c \in cur[d] : entry' = [entry EXCEPT ![c].terminal = drain[d]] \/ entry' = entry
        BY <3>1 DEF DrainMark
      <4>2. /\ drain[d] \in Outcomes /\ todo' = todo
            /\ cur'[d] = {} /\ \A e \in Drainers : e # d => cur'[e] = cur[e]
        BY <3>1 DEF DrainMark
      <4>3. \A k \in Calls : Holders(k)' \subseteq Holders(k) BY <4>2 DEF Holders
      <4>4. d \in Holders(c) /\ d \notin Holders(c)'
        BY <4>1, <4>2 DEF Holders, ShapeInv
      <4>5. /\ \A k \in Calls : k # c => entry'[k] = entry[k]
            /\ entry'[c].terminal # "none" \/ entry'[c] = entry[c]
        BY <4>1, <4>2 DEF Outcomes, Entry
      <4> QED BY <4>3, <4>4, <4>5
    <3>2. CASE GiveUp(d)
      <4>1. PICK c \in todo[d] : /\ todo' = [todo EXCEPT ![d] = @ \ {c}]
                                 /\ entry' = [entry EXCEPT ![c].terminal = "dropped"]
        BY <3>2 DEF GiveUp
      <4>2. cur' = cur /\ cur[d] = {} BY <3>2 DEF GiveUp, ShapeInv
      <4>3. \A k \in Calls : Holders(k)' \subseteq Holders(k) BY <4>1, <4>2 DEF Holders
      <4>4. d \in Holders(c) /\ d \notin Holders(c)'
        BY <4>1, <4>2 DEF Holders
      <4>5. /\ \A k \in Calls : k # c => entry'[k] = entry[k]
            /\ entry'[c].terminal # "none"
        BY <4>1 DEF Entry
      <4> QED BY <4>3, <4>4, <4>5
    <3>3. CASE DrainStart(d) \/ AgeOut(d)
      <4>1. /\ UNCHANGED <<entry, cur>> /\ \A e \in Drainers : e # d => todo'[e] = todo[e]
            /\ todo'[d] \subseteq {c \in items : Pending(c)}
        <5>1. CASE DrainStart(d) BY <5>1 DEF DrainStart
        <5>2. CASE AgeOut(d) BY <5>2 DEF AgeOut
        <5> QED BY <3>3, <5>1, <5>2
      <4> QED BY <4>1 DEF Holders, Pending
    <3>4. CASE DrainTry(d)
      <4>1. PICK c \in todo[d] : /\ todo' = [todo EXCEPT ![d] = @ \ {c}]
                                 /\ cur' = [cur EXCEPT ![d] = {c}]
        BY <3>4 DEF DrainTry
      <4>2. entry' = entry BY <3>4 DEF DrainTry
      <4> QED BY <4>1, <4>2 DEF Holders
    <3>5. CASE DrainKeep(d)
      <4>1. \A k \in Calls : entry'[k].terminal = entry[k].terminal
        BY <3>5 DEF DrainKeep, Entry
      <4>2. todo' = todo /\ \A e \in Drainers : cur'[e] \subseteq cur[e]
        BY <3>5 DEF DrainKeep
      <4> QED BY <4>1, <4>2 DEF Holders
    <3>6. CASE DrainRaises(d) \/ AgeOutPrune(d) \/ AgeOutRebind(d) \/ DrainEnd(d)
      <4>1. UNCHANGED <<entry, cur>> /\ \A e \in Drainers : todo'[e] \subseteq todo[e]
        BY <3>6 DEF DrainRaises, AgeOutPrune, AgeOutRebind, DrainEnd
      <4> QED BY <4>1 DEF Holders
    <3> QED BY <2>3, <3>1, <3>2, <3>3, <3>4, <3>5, <3>6 DEF Drain
  <2>4. CASE Restart
    <3>1. left'["restart"] = left["restart"] - 1 /\ left["restart"] \in Nat
      BY <2>4 DEF Restart, May, Kinds
    <3> QED BY <3>1
  <2> QED BY <2>1, <2>2, <2>3, <2>4 DEF Next
<1>2. OutcomeIsSettled <=> [][Settled]_vars
  BY PTL DEF OutcomeIsSettled
<1> QED BY PlacedAlways, <1>1, <1>2, PTL DEF Spec
=============================================================================
