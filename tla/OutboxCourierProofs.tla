------------------------ MODULE OutboxCourierProofs ------------------------
(***************************************************************************)
(* The outbox implements the courier, for any number of requests, drains,  *)
(* attempts and restarts, lost answers and stale writes of the file        *)
(* included.  Every step of the outbox is one of the courier's or changes  *)
(* nothing that the courier sees.                                          *)
(***************************************************************************)
EXTENDS OutboxProofs

Unanswered == {"unmade", "new", "parking", "appending"}

\* The tombstones a drain is about to prune are tombstones, and stay so.
StaleInv ==
    \A d \in Drainers : \A c \in stale[d] : call[c] \in Appended /\ ~Pending(c)

\* A request that writes the file has not been answered.
WriterInv == \A c \in Calls : flush[c] # "no" => call[c] = "flushing"

\* While no drains overlap, at most one is under way, and what it has in hand is in the
\* list and has no outcome; no prune reads a list that was replaced.
AloneInv ==
    ~crowded =>
        /\ \A d, e \in Drainers : drain[d] # "idle" /\ drain[e] # "idle" => d = e
        /\ \A d \in Drainers : view[d] = {}
        /\ \A d \in Drainers : \A c \in todo[d] \cup cur[d] : c \in items /\ Pending(c)

CourierInv == /\ TypeOK /\ SentInv /\ PlacedInv /\ ShapeInv
              /\ AloneInv /\ StaleInv /\ WriterInv

-----------------------------------------------------------------------------
\* No step of a drain takes an outcome back.
LEMMA SettledStays ==
    ASSUME TypeOK, NEW d \in Drainers, Drain(d)
    PROVE  \A c \in Calls : ~Pending(c) => ~Pending(c)'
<1> USE DEF TypeOK, listVars, drainVars, history
<1>1. CASE DrainMark(d)
  <2>1. PICK c \in cur[d] : \/ entry' = [entry EXCEPT ![c].terminal = drain[d]]
                            \/ entry' = entry
    BY <1>1 DEF DrainMark
  <2>2. c \in Calls /\ drain[d] \in Outcomes BY <1>1 DEF DrainMark
  <2>3. \A k \in Calls : \/ entry'[k] = entry[k]
                         \/ k = c /\ entry'[k].terminal = drain[d]
    BY <2>1, <2>2 DEF Entry
  <2> QED BY <2>2, <2>3 DEF Pending, Outcomes
<1>2. CASE DrainKeep(d) BY <1>2 DEF DrainKeep, Pending, Entry
<1>3. CASE GiveUp(d) BY <1>3 DEF GiveUp, Pending, Entry
<1>4. CASE ~DrainMark(d) /\ ~DrainKeep(d) /\ ~GiveUp(d)
  <2>1. entry' = entry
    BY <1>4 DEF Drain, DrainStart, DrainRaises, DrainTry, AgeOut, AgeOutPrune, AgeOutRebind,
                DrainEnd
  <2> QED BY <2>1 DEF Pending
<1> QED BY <1>1, <1>2, <1>3, <1>4

\* A tombstone is pending again only after a restart, when no drain is under way.
LEMMA StaleStep ==
    TypeOK /\ PlacedInv /\ ShapeInv /\ StaleInv /\ [Next]_vars => StaleInv'
<1> SUFFICES ASSUME TypeOK, PlacedInv, ShapeInv, StaleInv, [Next]_vars PROVE StaleInv'
  OBVIOUS
<1> USE DEF TypeOK, listVars, fileVars, drainVars, history
<1>1. ASSUME NEW t \in Calls, Send(t) PROVE StaleInv'
  <2>1. /\ stale' = stale
        /\ \A c \in Calls : call[c] \in Appended =>
              call'[c] \in Appended /\ entry'[c] = entry[c]
    BY <1>1 DEF Send, SendLands, SendRaises, SendFails, EnqueueIdentical, EnqueueNew,
                EnqueueAppend, EnqueueReturn, Appended
  <2> QED BY <2>1 DEF StaleInv, Pending
<1>2. ASSUME NEW t \in Threads, Flush(t) PROVE StaleInv'
  <2>1. /\ entry' = entry /\ \A d \in Drainers : stale'[d] \subseteq stale[d]
        /\ \A c \in Calls : call[c] \in Appended => call'[c] \in Appended
    BY <1>2 DEF Flush, FlushDump, FlushWrite, FlushReplace, FlushRaises, Appended
  <2> QED BY <2>1 DEF StaleInv, Pending
<1>3. ASSUME NEW d \in Drainers, Drain(d) PROVE StaleInv'
  <2>1. call' = call /\ \A c \in Calls : ~Pending(c) => ~Pending(c)'
    BY <1>3, SettledStays DEF Drain, DrainStart, DrainRaises, DrainTry, DrainMark, DrainKeep,
                AgeOut, GiveUp, AgeOutPrune, AgeOutRebind, DrainEnd
  <2>2. \A e \in Drainers :
           stale'[e] \subseteq stale[e] \cup {c \in items : ~Pending(c)}
    BY <1>3 DEF Drain, DrainStart, DrainRaises, DrainTry, DrainMark, DrainKeep, AgeOut, GiveUp,
                AgeOutPrune, AgeOutRebind, DrainEnd
  <2>3. \A c \in items : call[c] \in Appended BY DEF PlacedInv
  <2> QED BY <2>1, <2>2, <2>3 DEF StaleInv
<1>4. ASSUME Restart PROVE StaleInv' BY <1>4 DEF Restart, StaleInv
<1>5. ASSUME UNCHANGED vars PROVE StaleInv' BY <1>5 DEF vars, StaleInv, Pending
<1> QED BY <1>1, <1>2, <1>3, <1>4, <1>5 DEF Next

\* A request is answered when it is through with _flush, or because _flush raised.
LEMMA WriterStep == TypeOK /\ WriterInv /\ [Next]_vars => WriterInv'
<1> SUFFICES ASSUME TypeOK, WriterInv, [Next]_vars PROVE WriterInv' OBVIOUS
<1> USE DEF TypeOK, listVars, fileVars, drainVars, history, Threads, WriterInv
<1>1. ASSUME NEW t \in Calls, Send(t) PROVE WriterInv'
  BY <1>1 DEF Send, SendLands, SendRaises, SendFails, EnqueueIdentical, EnqueueNew,
              EnqueueAppend, EnqueueReturn
<1>2. ASSUME NEW t \in Threads, Flush(t) PROVE WriterInv'
  BY <1>2 DEF Flush, FlushDump, FlushWrite, FlushReplace, FlushRaises
<1>3. ASSUME NEW d \in Drainers, Drain(d) PROVE WriterInv'
  <2>1. call' = call /\ \A c \in Calls : flush'[c] = flush[c]
    BY <1>3, ThreadsAssumption DEF Drain, DrainStart, DrainRaises, DrainTry, DrainMark,
                DrainKeep, AgeOut, GiveUp, AgeOutPrune, AgeOutRebind, DrainEnd
  <2> QED BY <2>1
<1>4. ASSUME Restart PROVE WriterInv' BY <1>4 DEF Restart
<1>5. ASSUME UNCHANGED vars PROVE WriterInv' BY <1>5 DEF vars
<1> QED BY <1>1, <1>2, <1>3, <1>4, <1>5 DEF Next

\* A pass that begins on its own has the list for itself: nobody else settles or prunes
\* what it is working on until another begins.
LEMMA AloneStep ==
    TypeOK /\ PlacedInv /\ ShapeInv /\ StaleInv /\ AloneInv /\ [Next]_vars => AloneInv'
<1> SUFFICES ASSUME TypeOK, PlacedInv, ShapeInv, StaleInv, AloneInv, [Next]_vars, ~crowded'
             PROVE  /\ \A d, e \in Drainers : drain'[d] # "idle" /\ drain'[e] # "idle" => d = e
                    /\ \A d \in Drainers : view'[d] = {}
                    /\ \A d \in Drainers : \A c \in todo'[d] \cup cur'[d] :
                          c \in items' /\ Pending(c)'
  BY DEF AloneInv
<1> DEFINE Held(d) == \A c \in todo[d] \cup cur[d] : c \in items /\ Pending(c)
           Mine == /\ \A d, e \in Drainers : drain[d] # "idle" /\ drain[e] # "idle" => d = e
                   /\ \A d \in Drainers : view[d] = {}
                   /\ \A d \in Drainers : Held(d)
<1> SUFFICES Mine' OBVIOUS
<1> USE DEF TypeOK, listVars, fileVars, drainVars, history
<1>1. ASSUME NEW t \in Calls, Send(t) PROVE Mine'
  <2>1. /\ UNCHANGED <<drain, todo, cur, view, crowded>>
        /\ \A c \in items : c \in items' /\ (Pending(c) => Pending(c)')
    BY <1>1 DEF Send, SendLands, SendRaises, SendFails, EnqueueIdentical, EnqueueNew,
                EnqueueAppend, EnqueueReturn, Pending, Fresh
  <2> QED BY <2>1 DEF AloneInv
<1>2. ASSUME NEW t \in Threads, Flush(t) PROVE Mine'
  <2>1. /\ UNCHANGED <<items, entry, cur, view, crowded>>
        /\ \A d \in Drainers : todo'[d] \subseteq todo[d] /\ drain'[d] \in {drain[d], "idle"}
    BY <1>2 DEF Flush, FlushDump, FlushWrite, FlushReplace, FlushRaises
  <2>2. \A c : Pending(c)' <=> Pending(c) BY <2>1 DEF Pending
  <2> QED BY <2>1, <2>2 DEF AloneInv
<1>3. ASSUME NEW d \in Drainers, DrainStart(d) PROVE Mine'
  <2>1. /\ UNCHANGED <<items, entry, cur, view>>
        /\ \A e \in Drainers : e # d => drain[e] = "idle" /\ drain'[e] = "idle" /\ todo'[e] = todo[e]
        /\ drain[d] = "idle" /\ todo'[d] = {c \in items : Pending(c)}
    BY <1>3 DEF DrainStart, Overlap
  <2>2. \A e \in Drainers : cur'[e] = {} /\ view'[e] = {} /\ (e # d => todo'[e] = {})
    BY <2>1 DEF ShapeInv
  <2> QED BY <2>1, <2>2 DEF Pending
<1>4. ASSUME NEW d \in Drainers, Drain(d), ~DrainStart(d) PROVE Mine'
  <2>1. crowded' = crowded
    BY <1>4 DEF Drain, DrainRaises, DrainTry, DrainMark, DrainKeep, AgeOut, GiveUp,
                AgeOutPrune, AgeOutRebind, DrainEnd
  <2>2. Mine BY <2>1 DEF AloneInv
  <2>3. drain[d] # "idle" /\ \A e \in Drainers : e # d => drain'[e] = drain[e]
    BY <1>4 DEF Drain, DrainRaises, DrainTry, DrainMark, DrainKeep, AgeOut, GiveUp,
                AgeOutPrune, AgeOutRebind, DrainEnd, Outcomes
  <2>4. \A e \in Drainers : e # d => drain[e] = "idle" /\ todo'[e] = {} /\ cur'[e] = {}
    <3>1. \A e \in Drainers : e # d => drain[e] = "idle" BY <2>2, <2>3
    <3>2. \A e \in Drainers : e # d => todo[e] = {} /\ cur[e] = {} BY <3>1 DEF ShapeInv
    <3>3. \A e \in Drainers : e # d => todo'[e] = todo[e] /\ cur'[e] = cur[e]
      BY <1>4 DEF Drain, DrainRaises, DrainTry, DrainMark, DrainKeep, AgeOut, GiveUp,
                  AgeOutPrune, AgeOutRebind, DrainEnd
    <3> QED BY <3>1, <3>2, <3>3
  <2>5. \A e \in Drainers : view'[e] = {}
    BY <1>4, <2>2, <2>4 DEF Drain, DrainRaises, DrainTry, DrainMark, DrainKeep, AgeOut, GiveUp,
                AgeOutPrune, AgeOutRebind, DrainEnd
  <2>6. Held(d)'
    <3>1. CASE DrainTry(d)
      <4>1. PICK c \in todo[d] : todo'[d] = todo[d] \ {c} /\ cur'[d] = {c}
        BY <3>1 DEF DrainTry
      <4>2. UNCHANGED <<items, entry>> BY <3>1 DEF DrainTry
      <4> QED BY <2>2, <4>1, <4>2 DEF Pending
    <3>2. CASE DrainMark(d)
      <4>1. PICK c \in cur[d] : \A k \in Calls : k # c => entry'[k] = entry[k]
        BY <3>2 DEF DrainMark
      <4>2. c \notin todo[d] /\ cur'[d] = {} /\ UNCHANGED <<items, todo>>
        BY <3>2, <4>1 DEF DrainMark, ShapeInv
      <4> QED BY <2>2, <4>1, <4>2 DEF Pending
    <3>3. CASE DrainKeep(d)
      <4>1. \A k \in Calls : entry'[k].terminal = entry[k].terminal
        BY <3>3 DEF DrainKeep, Entry
      <4>2. cur'[d] = {} /\ UNCHANGED <<items, todo>> BY <3>3 DEF DrainKeep
      <4> QED BY <2>2, <4>1, <4>2 DEF Pending
    <3>4. CASE AgeOut(d)
      <4>1. todo'[d] \subseteq {c \in items : Pending(c)} BY <3>4 DEF AgeOut
      <4>2. UNCHANGED <<items, entry, cur>> /\ cur[d] = {} BY <3>4 DEF AgeOut, ShapeInv
      <4> QED BY <4>1, <4>2 DEF Pending
    <3>5. CASE GiveUp(d)
      <4>1. PICK c \in todo[d] : /\ todo'[d] = todo[d] \ {c}
                                 /\ \A k \in Calls : k # c => entry'[k] = entry[k]
        BY <3>5 DEF GiveUp
      <4>2. UNCHANGED <<items, cur>> /\ cur[d] = {} BY <3>5 DEF GiveUp, ShapeInv
      <4> QED BY <2>2, <4>1, <4>2 DEF Pending
    <3>6. CASE DrainRaises(d) \/ AgeOutPrune(d) \/ AgeOutRebind(d) \/ DrainEnd(d)
      <4>1. todo'[d] = {} /\ cur'[d] = {}
        BY <3>6 DEF DrainRaises, AgeOutPrune, AgeOutRebind, DrainEnd, ShapeInv
      <4> QED BY <4>1
    <3> QED BY <1>4, <3>1, <3>2, <3>3, <3>4, <3>5, <3>6 DEF Drain
  <2>7. \A x, e \in Drainers : drain'[x] # "idle" /\ drain'[e] # "idle" => x = e
    BY <2>3, <2>4
  <2> QED BY <2>4, <2>5, <2>6, <2>7
<1>5. ASSUME Restart PROVE Mine' BY <1>5 DEF Restart
<1>6. ASSUME UNCHANGED vars PROVE Mine' BY <1>6 DEF vars, Pending, AloneInv
<1> QED BY <1>1, <1>2, <1>3, <1>4, <1>5, <1>6 DEF Next

-----------------------------------------------------------------------------
\* What a send request does is an answer, or nothing that the courier sees.
LEMMA SendAnswers ==
    ASSUME CourierInv, NEW t \in Calls, Send(t)
    PROVE  C!Answer
<1> USE DEF CourierInv, TypeOK, listVars, fileVars, drainVars, history
<1>1. CASE EnqueueAppend(t)
  <2>1. t \notin items BY <1>1 DEF EnqueueAppend, PlacedInv, Appended
  <2>2. /\ items' = items \cup {t} /\ entry' = [entry EXCEPT ![t] = Fresh]
        /\ call[t] = "appending" /\ call' = [call EXCEPT ![t] = "flushing"]
        /\ landed' = landed
    BY <1>1 DEF EnqueueAppend
  <2>3. /\ Listed("delivered")' = Listed("delivered") /\ Listed("dropped")' = Listed("dropped")
        /\ Listed("none")' = Listed("none") \cup {t}
    BY <2>1, <2>2 DEF Listed, Fresh
  <2>4. /\ t \in {c \in Calls : call[c] \in Unanswered}
        /\ {c \in Calls : call'[c] \in Unanswered}
              = {c \in Calls : call[c] \in Unanswered} \ {t}
        /\ {c \in Calls : call'[c] = "raised"} = {c \in Calls : call[c] = "raised"}
    BY <2>2 DEF Unanswered
  <2>5. {c \in Calls : landed'[c] > 0} = {c \in Calls : landed[c] > 0} BY <2>2
  <2> QED BY <2>3, <2>4, <2>5 DEF C!Answer, C!Listed, Unanswered
<1>2. CASE EnqueueIdentical(t)
  <2>1. PICK k \in items : ContentOf[k] = ContentOf[t] BY <1>2 DEF EnqueueIdentical
  <2>2. k \in Listed("none") \cup Listed("delivered") \cup Listed("dropped")
    BY DEF Listed, Entry, Outcomes
  <2>3. /\ UNCHANGED <<items, entry, landed>> /\ call[t] = "parking"
        /\ call' = [call EXCEPT ![t] = "queued"]
    BY <1>2 DEF EnqueueIdentical
  <2>4. \A o : Listed(o)' = Listed(o) BY <2>3 DEF Listed
  <2> QED BY <2>1, <2>2, <2>3, <2>4 DEF C!Answer, C!Listed
<1>3. CASE \/ SendLands(t) \/ SendRaises(t) \/ SendFails(t) \/ EnqueueNew(t)
           \/ EnqueueReturn(t)
  <2>1. /\ UNCHANGED <<items, entry>>
        /\ \/ /\ call[t] = "new"
              /\ \/ landed' = [landed EXCEPT ![t] = @ + 1] /\ call' = [call EXCEPT ![t] = "sent"]
                 \/ landed' = landed /\ call' = [call EXCEPT ![t] = "raised"]
                 \/ landed' = landed /\ call' = [call EXCEPT ![t] = "parking"]
                 \/ /\ landed' = [landed EXCEPT ![t] = @ + 1]
                    /\ call' = [call EXCEPT ![t] = "parking"]
           \/ /\ call[t] = "parking" /\ call' = [call EXCEPT ![t] = "appending"]
              /\ landed' = landed
           \/ /\ call[t] = "flushing" /\ call' = [call EXCEPT ![t] = "queued"]
              /\ landed' = landed
    BY <1>3 DEF SendLands, SendRaises, SendFails, EnqueueNew, EnqueueReturn
  <2>2. \A o : Listed(o)' = Listed(o) BY <2>1 DEF Listed
  <2> QED BY <2>1, <2>2 DEF C!Answer
<1> QED BY <1>1, <1>2, <1>3 DEF Send

\* A rename that raises fails a request whose message is on the list, at most.
LEMMA FlushFails ==
    ASSUME CourierInv, NEW t \in Threads, Flush(t)
    PROVE  C!Fail \/ UNCHANGED C!vars
<1> USE DEF CourierInv, TypeOK, listVars, fileVars, drainVars, history
<1>1. UNCHANGED <<items, entry, landed>> /\ flush[t] # "no"
  BY DEF Flush, FlushDump, FlushWrite, FlushReplace, FlushRaises
<1>2. \A c \in Calls : \/ call'[c] = call[c]
                       \/ c = t /\ call[c] = "flushing" /\ call'[c] = "raised"
  BY <1>1 DEF Flush, FlushDump, FlushWrite, FlushReplace, FlushRaises, WriterInv
<1>3. \A o : Listed(o)' = Listed(o) BY <1>1 DEF Listed
<1> QED BY <1>1, <1>2, <1>3 DEF C!Fail

\* Nothing on the list lacks a place on it.
LEMMA ListedItems ==
    TypeOK => items = Listed("none") \cup Listed("delivered") \cup Listed("dropped")
BY DEF TypeOK, Listed, Entry, Outcomes

\* A drain's attempt is one of the courier's.
LEMMA TryAttempts ==
    ASSUME CourierInv, NEW d \in Drainers, DrainTry(d)
    PROVE  C!Attempt
<1> USE DEF CourierInv, TypeOK, listVars, fileVars, drainVars, history
<1>1. PICK c \in todo[d] : landed' = landed \/ landed' = [landed EXCEPT ![c] = @ + 1]
  BY DEF DrainTry
<1>2. UNCHANGED <<call, items, entry>> BY DEF DrainTry
<1>3. c \in Calls /\ call[c] \notin Unanswered BY DEF PlacedInv, Appended, Unanswered
<1>4. ~crowded => c \in Listed("none")
  BY DEF AloneInv, Listed, Pending
<1>5. \A o : Listed(o)' = Listed(o) BY <1>2 DEF Listed
<1> DEFINE Taken == {k \in Calls : landed[k] > 0}
<1>6. Taken' = Taken \/ Taken' = Taken \cup {c}
  BY <1>1, <1>3
<1>7. /\ {k \in Calls : call'[k] \in Unanswered} = {k \in Calls : call[k] \in Unanswered}
      /\ {k \in Calls : call'[k] = "raised"} = {k \in Calls : call[k] = "raised"}
      /\ c \notin {k \in Calls : call[k] \in Unanswered}
  BY <1>2, <1>3
<1> HIDE DEF Taken
<1> QED BY <1>4, <1>5, <1>6, <1>7 DEF C!Attempt, Unanswered, Taken

\* A drain that does not replace the list, or replaces it as it is, settles, or does
\* nothing that the courier sees.
LEMMA DrainSettles ==
    ASSUME CourierInv, CourierInv', NEW d \in Drainers, Drain(d), ~DrainTry(d),
           AgeOutRebind(d) => view[d] = {}
    PROVE  C!Settle
<1> USE DEF CourierInv, TypeOK, listVars, fileVars, drainVars, history
<1>1. UNCHANGED <<call, landed>> /\ items' \subseteq items
  BY DEF Drain, DrainStart, DrainRaises, DrainMark, DrainKeep, AgeOut, GiveUp, AgeOutPrune,
         AgeOutRebind, DrainEnd
<1>2. \A c \in items : ~Pending(c) => ~Pending(c)' BY SettledStays
<1>3. \A c \in items : Pending(c) => c \in items'
  BY DEF Drain, DrainStart, DrainRaises, DrainMark, DrainKeep, AgeOut, GiveUp, AgeOutPrune,
         AgeOutRebind, DrainEnd, StaleInv
<1>4. ~crowded => \A c \in items : ~Pending(c) => entry'[c].terminal = entry[c].terminal
  <2>1. CASE DrainMark(d)
    <3>1. PICK c \in cur[d] : \A k \in Calls : k # c => entry'[k] = entry[k]
      BY <2>1 DEF DrainMark
    <3> QED BY <3>1 DEF AloneInv
  <2>2. CASE GiveUp(d)
    <3>1. PICK c \in todo[d] : \A k \in Calls : k # c => entry'[k] = entry[k]
      BY <2>2 DEF GiveUp
    <3> QED BY <3>1 DEF AloneInv
  <2>3. CASE DrainKeep(d) BY <2>3 DEF DrainKeep, Entry
  <2>4. CASE ~DrainMark(d) /\ ~GiveUp(d) /\ ~DrainKeep(d)
    <3>1. entry' = entry
      BY <2>4 DEF Drain, DrainStart, DrainRaises, DrainTry, AgeOut, AgeOutPrune, AgeOutRebind,
                  DrainEnd
    <3> QED BY <3>1
  <2> QED BY <2>1, <2>2, <2>3, <2>4
<1>5. /\ Listed("none")' \subseteq Listed("none")
      /\ Listed("none") \subseteq items'
  BY <1>1, <1>2, <1>3 DEF Listed, Pending
<1>6. Listed("delivered")' \subseteq {c \in Calls : landed[c] > 0}
  BY <1>1 DEF Listed, SentInv
<1>7. ~crowded =>
         /\ Listed("delivered")' \cap Listed("dropped") = {}
         /\ Listed("dropped")' \cap Listed("delivered") = {}
  BY <1>1, <1>4 DEF Listed, Pending
<1>8. /\ items = Listed("none") \cup Listed("delivered") \cup Listed("dropped")
      /\ items' = Listed("none")' \cup Listed("delivered")' \cup Listed("dropped")'
  BY ListedItems DEF Listed, Entry, Outcomes
<1> QED BY <1>1, <1>5, <1>6, <1>7, <1>8 DEF C!Settle, C!Listed

\* A prune that undoes another puts back a list, when several drain it.
LEMMA RebindClobbers ==
    ASSUME CourierInv, CourierInv', NEW d \in Drainers, AgeOutRebind(d), view[d] # {}
    PROVE  C!Clobber
<1> USE DEF CourierInv, TypeOK, listVars, fileVars, drainVars, history
<1>1. crowded BY DEF AloneInv
<1>2. UNCHANGED <<call, landed, entry>> BY DEF AgeOutRebind
<1>3. \A c \in items' : call[c] \in Appended BY <1>2 DEF PlacedInv
<1>4. Listed("delivered")' \subseteq {c \in Calls : landed[c] > 0}
  BY <1>2 DEF Listed, SentInv
<1>5. \A o : Listed(o)' \subseteq items' BY DEF Listed
<1> QED BY <1>1, <1>2, <1>3, <1>4, <1>5 DEF C!Clobber, C!Listed, Appended

\* A restart is a crash of the courier: what the file holds was put on the list, and
\* what it calls delivered was taken.
LEMMA RestartCrashes == ASSUME CourierInv, CourierInv', Restart PROVE C!Crash
<1> USE DEF CourierInv, TypeOK
<1>1. /\ landed' = landed /\ items' = DOMAIN file
      /\ \A c \in Calls : call'[c] \in Results => call'[c] = call[c]
      /\ \A c \in Calls : call'[c] = IF call[c] \in {"unmade", "new", "sent", "raised",
                                                   "queued"}
                                     THEN call[c] ELSE "lost"
  BY DEF Restart, Results
<1>2. \A c \in items' : call[c] \in Appended BY <1>1 DEF PlacedInv
<1>3. Listed("delivered")' \subseteq {c \in Calls : landed[c] > 0}
  BY <1>1 DEF Listed, SentInv
<1>4. \A o : Listed(o)' \subseteq items' BY DEF Listed
<1> QED BY <1>1, <1>2, <1>3, <1>4 DEF C!Crash, C!Listed, Appended

\* For every value of the constants the outbox implements the courier: nothing that is
\* kept goes without an outcome, "delivered" is true, and while no drains overlap an
\* outcome is final and nothing that has one is sent (relay.py 1821, 2007, 2093).
THEOREM ImplementsCourier == Spec => IsCourier
<1>1. Init => StaleInv /\ WriterInv /\ AloneInv /\ C!Init
  BY DEF Init, StaleInv, WriterInv, AloneInv, C!Init, Listed, Threads
<1>2. CourierInv /\ [Next]_vars => StaleInv' /\ WriterInv' /\ AloneInv'
  BY StaleStep, WriterStep, AloneStep DEF CourierInv
<1>3. CourierInv /\ CourierInv' /\ [Next]_vars => [C!Next]_(C!vars)
  <2> SUFFICES ASSUME CourierInv, CourierInv', [Next]_vars PROVE [C!Next]_(C!vars)
    OBVIOUS
  <2>1. CASE UNCHANGED vars BY <2>1 DEF vars, C!vars, Listed
  <2>2. ASSUME NEW d \in Drainers, Drain(d) PROVE C!Attempt \/ C!Settle \/ C!Clobber
    BY <2>2, TryAttempts, DrainSettles, RebindClobbers
  <2>3. (~crowded)' \in BOOLEAN OBVIOUS
  <2> QED BY <2>1, <2>2, <2>3, SendAnswers, FlushFails, RestartCrashes DEF Next, C!Next
<1>4. TypeOK /\ SentInv /\ [Next]_vars => SentInv' BY SentStep
<1> QED
  BY PlacedAlways, InitSent, <1>1, <1>2, <1>3, <1>4, PTL
     DEF Spec, CourierInv, IsCourier, C!Spec
=============================================================================
