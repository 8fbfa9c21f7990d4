--------------------------- MODULE PeerMeshProofs ---------------------------
(***************************************************************************)
(* Theorems about PeerMesh for any number of requests, events and pairs.   *)
(* A list is in the table, or in the hands of one thread that sends it, or *)
(* out of use, and nobody makes a list of an age-out twice.  A message     *)
(* that no age-out raced for waits in one of the lists in use at most.     *)
(***************************************************************************)
EXTENDS PeerMesh, TLAPS

ListPair(l) == l[2]
Has(l) == Members(text[l])
Injective(s) == \A i, j \in DOMAIN s : s[i] = s[j] => i = j
Once(s, X) == \A i, j \in DOMAIN s : s[i] = s[j] /\ s[i] \notin X => i = j

Joining == {"joining", "joined", "appending"}
States == Answers \cup Joining \cup
             {"new", "flush", "queueing", "rebinding", "taking", "popping", "sending",
              "live", "reported", "done"}

\* What a thread may have left to flush: a sender its own pair, an event both sides.
Jobs(t) == {<<>>} \cup {<<p>> : p \in Pairs}
              \cup (IF t \in Senders THEN {} ELSE {<<p, Rev[p]>> : p \in Pairs})

CoreType == verified \subseteq Pairs /\ joined \subseteq Pairs /\ inflight \subseteq Pairs

ListType ==
    /\ queue \in [Pairs -> Lists \cup {NoList}]
    /\ text \in [Lists -> Seq(Senders)]

ThreadOK(t) ==
    /\ job[t] \in Jobs(t)
    /\ held[t] # NoList <=> pc[t] \in Joining \cup {"sending"}
    /\ pc[t] \in {"flush", "popping", "sending"} => Flushing(t)
    /\ pc[t] \in Joining \cup {"new", "queueing", "taking", "live"} => ~Flushing(t)
    /\ pc[t] \in Joining \cup {"queueing", "taking", "live"} => t \in Senders
    /\ pc[t] = "rebinding" /\ ~Flushing(t) => t \in Senders
    /\ pc[t] \in {"reported", "done"} => t \in Events
    /\ pc[t] = "sending" => pos[t] >= 1

ThreadType ==
    /\ pc \in [Threads -> States]
    /\ held \in [Threads -> Lists \cup {NoList}]
    /\ pos \in [Threads -> Nat]
    /\ DOMAIN job = Threads
    /\ \A t \in Threads : ThreadOK(t)

ResultType ==
    /\ chat \in [Pairs -> Seq(Senders)]
    /\ dropped \subseteq Senders /\ missed \subseteq Events
    /\ doubted \subseteq Senders /\ raced \subseteq Senders

Types == CoreType /\ ListType /\ ThreadType /\ ResultType

\* Lists of a pair hold messages for it, each once, that were answered "queued".
ListInv ==
    /\ \A p \in Pairs : queue[p] # NoList => ListPair(queue[p]) = p
    /\ \A t \in Threads : held[t] # NoList => ListPair(held[t]) = Key(t)
    /\ \A l \in Lists :
          /\ Injective(text[l])
          /\ \A m \in Has(l) : PairOf[m] = ListPair(l) /\ pc[m] = "queued"

Unused(l) == /\ \A p \in Pairs : queue[p] # l
             /\ \A t \in Threads : held[t] # l

\* The pairs whose queue a thread may still age out, or is about to.
Ahead(t) ==
    IF pc[t] \in {"new", "reported"} THEN Pairs
    ELSE IF pc[t] \in {"flush", "queueing", "rebinding"}
         THEN IF Flushing(t) THEN Members(job[t]) ELSE {PairOf[t]}
         ELSE IF pc[t] \in {"popping", "sending"} THEN Members(Tail(job[t])) ELSE {}

HasTaken(s) == pc[s] \in Joining \cup {"queued", "dropped"}

\* A list that a thread is yet to make is not in use.
FreshInv ==
    /\ \A t \in Threads : \A p \in Ahead(t) : Unused(<<t, p, "kept">>)
    /\ \A s \in Senders : ~HasTaken(s) =>
          \A p \in Pairs : Unused(<<s, p, "new">>) /\ text[<<s, p, "new">>] = <<>>

\* A list that is being sent is in the hands of one thread and not in the table.
HandInv ==
    \A t \in Threads : pc[t] = "sending" =>
        /\ held[t] # queue[Key(t)]
        /\ \A u \in Threads : pc[u] = "sending" /\ held[u] = held[t] => u = t

Waits(m) == m \in Listed(PairOf[m])
InHandsOf(m, t) ==
    /\ pc[t] = "sending"
    /\ \E i \in pos[t]..Len(text[held[t]]) : text[held[t]][i] = m

\* A message that no age-out raced for waits in one place, and what was sent or
\* dropped does not wait to be sent.
MessageInv ==
    /\ \A m \in Senders \ raced : \A t \in Threads : InHandsOf(m, t) =>
          /\ ~Waits(m) /\ ~Delivered(m) /\ m \notin dropped
          /\ \A u \in Threads : InHandsOf(m, u) => u = t
    /\ \A m \in Senders \ raced : Waits(m) => ~Delivered(m)
    /\ \A m \in dropped \ (doubted \cup raced) : ~Delivered(m)
    /\ \A m \in dropped : pc[m] \in {"queued", "dropped"}

ChatInv ==
    \A p \in Pairs :
        /\ Once(chat[p], raced)
        /\ \A m \in Members(chat[p]) : PairOf[m] = p /\ pc[m] \in {"queued", "sent", "raised"}

Inv == ListInv /\ FreshInv /\ HandInv /\ MessageInv /\ ChatInv
-----------------------------------------------------------------------------
LEMMA NoListIsNone == NoList \notin Lists
  BY DEF NoList, Lists

LEMMA MembersType ==
    ASSUME NEW S, NEW s \in Seq(S)
    PROVE  Members(s) \subseteq S
  BY DEF Members

LEMMA MembersOfAppend ==
    ASSUME NEW S, NEW s \in Seq(S), NEW x \in S
    PROVE  Members(Append(s, x)) = Members(s) \cup {x}
  <1>1. /\ Append(s, x) \in Seq(S) /\ Len(Append(s, x)) = Len(s) + 1
        /\ \A i \in 1..Len(s) : Append(s, x)[i] = s[i]
        /\ Append(s, x)[Len(s) + 1] = x
    OBVIOUS
  <1>2. DOMAIN Append(s, x) = 1..(Len(s) + 1) /\ DOMAIN s = 1..Len(s) /\ Len(s) \in Nat
    BY <1>1
  <1> QED
    BY <1>1, <1>2 DEF Members

LEMMA InjectiveAppend ==
    ASSUME NEW S, NEW s \in Seq(S), NEW x \in S, Injective(s), x \notin Members(s)
    PROVE  Injective(Append(s, x))
  <1>1. /\ Append(s, x) \in Seq(S) /\ Len(Append(s, x)) = Len(s) + 1
        /\ \A i \in 1..Len(s) : Append(s, x)[i] = s[i]
        /\ Append(s, x)[Len(s) + 1] = x
    OBVIOUS
  <1>2. DOMAIN Append(s, x) = 1..(Len(s) + 1) /\ DOMAIN s = 1..Len(s) /\ Len(s) \in Nat
    BY <1>1
  <1> QED
    BY <1>1, <1>2 DEF Members, Injective

LEMMA OnceAppend ==
    ASSUME NEW S, NEW s \in Seq(S), NEW x \in S, NEW X, Once(s, X),
           x \in Members(s) => x \in X
    PROVE  Once(Append(s, x), X)
  <1>1. /\ Append(s, x) \in Seq(S) /\ Len(Append(s, x)) = Len(s) + 1
        /\ \A i \in 1..Len(s) : Append(s, x)[i] = s[i]
        /\ Append(s, x)[Len(s) + 1] = x
    OBVIOUS
  <1>2. DOMAIN Append(s, x) = 1..(Len(s) + 1) /\ DOMAIN s = 1..Len(s) /\ Len(s) \in Nat
    BY <1>1
  <1> QED
    BY <1>1, <1>2 DEF Members, Once

LEMMA OnceMore ==
    ASSUME NEW s, NEW X, NEW Y, X \subseteq Y, Once(s, X)
    PROVE  Once(s, Y)
  BY DEF Once

\* What a job holds: its first pair, and another one or nothing.
LEMMA JobFacts ==
    ASSUME NEW t \in Threads, job[t] \in Jobs(t), Flushing(t)
    PROVE  /\ Head(job[t]) \in Pairs /\ Key(t) = Head(job[t])
           /\ Tail(job[t]) \in Jobs(t)
           /\ Members(job[t]) = {Key(t)} \cup Members(Tail(job[t]))
           /\ Key(t) \notin Members(Tail(job[t]))
           /\ Members(Tail(job[t])) \subseteq Pairs
           /\ t \in Senders => Tail(job[t]) = <<>>
  <1>0. Key(t) = Head(job[t])
    BY DEF Key
  <1>1. CASE \E p \in Pairs : job[t] = <<p>>
    <2>1. PICK p \in Pairs : job[t] = <<p>>
      BY <1>1
    <2>2. Head(job[t]) = p /\ Tail(job[t]) = <<>>
      BY <2>1
    <2>3. Members(<<>>) = {} /\ Members(<<p>>) = {p}
      BY DEF Members
    <2> QED
      BY <1>0, <2>1, <2>2, <2>3 DEF Jobs
  <1>2. CASE t \notin Senders /\ \E p \in Pairs : job[t] = <<p, Rev[p]>>
    <2>1. PICK p \in Pairs : job[t] = <<p, Rev[p]>>
      BY <1>2
    <2>2. Rev[p] \in Pairs /\ Rev[p] # p
      BY PairsAssumption
    <2>3. Head(job[t]) = p /\ Tail(job[t]) = <<Rev[p]>>
      BY <2>1
    <2>4. Members(<<Rev[p]>>) = {Rev[p]} /\ Members(<<p, Rev[p]>>) = {p, Rev[p]}
      BY DEF Members
    <2> QED
      BY <1>0, <1>2, <2>1, <2>2, <2>3, <2>4 DEF Jobs
  <1> QED
    BY <1>1, <1>2 DEF Jobs, Flushing

\* The pair a thread is at work on.
LEMMA KeyType ==
    ASSUME ThreadType, NEW t \in Threads, Flushing(t) \/ t \in Senders
    PROVE  Key(t) \in Pairs
  <1>1. CASE Flushing(t)
    BY <1>1, JobFacts DEF ThreadType, ThreadOK
  <1>2. CASE ~Flushing(t)
    BY <1>2, PairsAssumption DEF Key
  <1> QED
    BY <1>1, <1>2

\* Without gives a list with the same messages but for the old ones, each as often.
LEMMA WithoutFacts ==
    ASSUME NEW S, NEW s \in Seq(S), NEW old, NEW r \in Without(s, old)
    PROVE  /\ r \in Seq(S)
           /\ Members(r) = Members(s) \ old
           /\ Injective(s) => Injective(r)
  <1> DEFINE young == {i \in DOMAIN s : s[i] \notin old}
  <1>0. PICK n \in 0..Len(s) : \E f \in [1..n -> young] :
           /\ Members(f) = young
           /\ \A i, j \in DOMAIN f : i < j => f[i] < f[j]
           /\ r = [i \in DOMAIN f |-> s[f[i]]]
    BY DEF Without
  <1>1. PICK f \in [1..n -> young] :
           /\ Members(f) = young
           /\ \A i, j \in 1..n : i < j => f[i] < f[j]
           /\ r = [i \in 1..n |-> s[f[i]]]
    BY <1>0
  <1>2. n \in Nat /\ \A i \in 1..n : f[i] \in DOMAIN s /\ s[f[i]] \in S /\ f[i] \in Nat
    OBVIOUS
  <1>3. r \in Seq(S)
    BY <1>1, <1>2
  <1>4. DOMAIN r = 1..n /\ \A i \in 1..n : r[i] = s[f[i]]
    BY <1>1
  <1>5. Members(r) = Members(s) \ old
    <2>1. ASSUME NEW x \in Members(r) PROVE x \in Members(s) \ old
      BY <1>1, <1>2, <1>4, <2>1 DEF Members
    <2>2. ASSUME NEW x \in Members(s) \ old PROVE x \in Members(r)
      <3>1. PICK i \in young : s[i] = x
        BY <2>2 DEF Members
      <3>2. PICK j \in 1..n : f[j] = i
        BY <1>1, <3>1 DEF Members
      <3> QED
        BY <1>4, <3>1, <3>2 DEF Members
    <2> QED
      BY <2>1, <2>2
  <1>6. ASSUME Injective(s) PROVE Injective(r)
    <2>1. ASSUME NEW i \in 1..n, NEW j \in 1..n, r[i] = r[j] PROVE i = j
      <3>1. f[i] = f[j]
        BY <1>2, <1>4, <1>6, <2>1 DEF Injective
      <3> QED
        BY <1>1, <1>2, <3>1
    <2> QED
      BY <1>4, <2>1 DEF Injective
  <1> QED
    BY <1>3, <1>5, <1>6
-----------------------------------------------------------------------------
(* Types *)

LEMMA InitTypes == Init => Types
  <1> SUFFICES ASSUME Init PROVE Types
    OBVIOUS
  <1>1. CoreType /\ ListType /\ ResultType
    BY DEF Init, CoreType, ListType, ResultType
  <1>2. ThreadType
    BY NoListIsNone DEF Init, ThreadType, ThreadOK, States, Jobs, Flushing, Joining
  <1> QED
    BY <1>1, <1>2 DEF Types

\* A step of one thread.
Mine(t) == <<pc[t], job[t], held[t], pos[t]>>
Moves(t) ==
    /\ \A u \in Threads : u # t => Mine(u)' = Mine(u)
    /\ DOMAIN pc' = Threads /\ DOMAIN job' = Threads /\ DOMAIN held' = Threads
    /\ DOMAIN pos' = Threads

LEMMA MoveType ==
    ASSUME ThreadType, NEW t \in Threads, Moves(t), ThreadOK(t)',
           pc' \in [Threads -> States], held' \in [Threads -> Lists \cup {NoList}],
           pos' \in [Threads -> Nat]
    PROVE  ThreadType'
  <1>1. ASSUME NEW u \in Threads, u # t PROVE ThreadOK(u)'
    BY <1>1 DEF Moves, Mine, ThreadType, ThreadOK, Flushing
  <1> QED
    BY <1>1 DEF Moves, ThreadType

\* Where Finish leads.
LEMMA FinishFacts ==
    ASSUME ThreadType, NEW t \in Threads, Flushing(t), Finish(t)
    PROVE  /\ job' = [job EXCEPT ![t] = Tail(job[t])] /\ job'[t] = Tail(job[t])
           /\ pc'[t] = (IF t \in Senders THEN "live"
                        ELSE IF Tail(job[t]) = <<>> THEN "done" ELSE "flush")
           /\ \A u \in Threads : u # t => pc'[u] = pc[u] /\ job'[u] = job[u]
           /\ pc' \in [Threads -> States] /\ DOMAIN job' = Threads
           /\ job'[t] \in Jobs(t)
           /\ pc'[t] \in {"live", "done"} => job'[t] = <<>>
           /\ pc'[t] = "flush" => job'[t] # <<>>
           /\ t \in Senders => t \notin Events
  <1>1. Tail(job[t]) \in Jobs(t) /\ (t \in Senders => Tail(job[t]) = <<>>)
    BY JobFacts DEF ThreadType, ThreadOK
  <1> QED
    BY <1>1, ThreadsAssumption DEF Finish, ThreadType, States

\* Every step keeps the types.
LEMMA EnqueueTypes ==
    ASSUME Types, NEW s \in Senders, Enqueue(s)
    PROVE  Types'
  <1> USE DEF core, lists, local, results
  <1>a. /\ CoreType /\ ListType /\ ThreadType /\ ResultType /\ ThreadOK(s)
        /\ s \in Threads /\ PairOf[s] \in Pairs /\ NoList \notin Lists
        /\ {"rejected", "flush", "queueing", "dropped", "appending", "joining", "joined",
            "queued", "sent", "raised"} \subseteq States
    BY PairsAssumption, NoListIsNone DEF Types, ThreadType, Threads, States, Answers, Joining
  <1>1. CASE Reject(s)
    <2>1. ThreadOK(s)' /\ Moves(s)
      BY <1>a, <1>1 DEF Reject, At, ThreadType, ThreadOK, Moves, Mine, Flushing, Joining
    <2>2. ThreadType'
      BY <1>a, <1>1, <2>1, MoveType DEF Reject, ThreadType
    <2> QED
      BY <1>a, <1>1, <2>2 DEF Reject, Types, CoreType, ListType, ResultType
  <1>2. CASE FindVerified(s)
    <2>1. job'[s] = <<PairOf[s]>> /\ <<PairOf[s]>> \in Jobs(s) /\ Flushing(s)'
      BY <1>a, <1>2 DEF FindVerified, Jobs, Flushing, ThreadType
    <2>2. ThreadOK(s)' /\ Moves(s)
      BY <1>a, <1>2, <2>1 DEF FindVerified, At, ThreadType, ThreadOK, Moves, Mine, Joining, Jobs
    <2>3. ThreadType'
      BY <1>a, <1>2, <2>2, MoveType DEF FindVerified, ThreadType
    <2> QED
      BY <1>a, <1>2, <2>3 DEF FindVerified, Types, CoreType, ListType, ResultType
  <1>3. CASE FindUnverified(s)
    <2>1. ThreadOK(s)' /\ Moves(s)
      BY <1>a, <1>3 DEF FindUnverified, At, ThreadType, ThreadOK, Moves, Mine, Flushing, Joining
    <2>2. ThreadType'
      BY <1>a, <1>3, <2>1, MoveType DEF FindUnverified, ThreadType
    <2> QED
      BY <1>a, <1>3, <2>2 DEF FindUnverified, Types, CoreType, ListType, ResultType
  <1>4. CASE Take(s)
    <2> DEFINE q == IF queue[PairOf[s]] = NoList THEN <<s, PairOf[s], "new">> ELSE queue[PairOf[s]]
    <2>1. q \in Lists /\ queue' = [queue EXCEPT ![PairOf[s]] = q]
      BY <1>a, <1>4 DEF Take, ListType, Lists
    <2>2. \/ /\ pc' = [pc EXCEPT ![s] = "dropped"] /\ held' = held
             /\ dropped' = dropped \cup {s}
          \/ /\ \/ pc' = [pc EXCEPT ![s] = "appending"]
                \/ pc' = [pc EXCEPT ![s] = "joining"]
             /\ held' = [held EXCEPT ![s] = q] /\ dropped' = dropped
      BY <1>4 DEF Take
    <2>3. ThreadOK(s)' /\ Moves(s)
      BY <1>a, <1>4, <2>1, <2>2
         DEF Take, At, ThreadType, ThreadOK, Moves, Mine, Flushing, Joining
    <2>4. ThreadType'
      <3>1. pc' \in [Threads -> States] /\ held' \in [Threads -> Lists \cup {NoList}]
        BY <1>a, <2>1, <2>2 DEF ThreadType
      <3> QED
        BY <1>a, <1>4, <2>3, <3>1, MoveType DEF Take, ThreadType
    <2>5. ListType'
      BY <1>a, <1>4, <2>1 DEF Take, ListType
    <2> QED
      BY <1>a, <1>4, <2>2, <2>4, <2>5 DEF Take, Types, CoreType, ResultType
  <1>5. CASE Join(s) \/ MarkInflight(s)
    <2>1. ThreadOK(s)' /\ Moves(s)
      BY <1>a, <1>5
         DEF Join, MarkInflight, At, ThreadType, ThreadOK, Moves, Mine, Flushing, Joining
    <2>2. ThreadType'
      BY <1>a, <1>5, <2>1, MoveType DEF Join, MarkInflight, ThreadType
    <2> QED
      BY <1>a, <1>5, <2>2 DEF Join, MarkInflight, Types, CoreType, ListType, ResultType
  <1>6. CASE AppendTo(s)
    <2>1. ThreadOK(s)' /\ Moves(s)
      BY <1>a, <1>6 DEF AppendTo, At, ThreadType, ThreadOK, Moves, Mine, Flushing, Joining
    <2>2. ThreadType'
      BY <1>a, <1>6, <2>1, MoveType DEF AppendTo, ThreadType
    <2>3. held[s] \in Lists
      BY <1>a, <1>6 DEF AppendTo, At, ThreadType, ThreadOK, Joining
    <2>4. ListType'
      BY <1>a, <1>6, <2>3 DEF AppendTo, ListType
    <2> QED
      BY <1>a, <1>6, <2>2, <2>4 DEF AppendTo, Types, CoreType, ResultType
  <1>7. CASE SendLive(s)
    <2>1. ThreadOK(s)' /\ Moves(s)
      BY <1>a, <1>7 DEF SendLive, At, ThreadType, ThreadOK, Moves, Mine, Flushing, Joining
    <2>2. ThreadType'
      BY <1>a, <1>7, <2>1, MoveType DEF SendLive, ThreadType
    <2>3. ResultType'
      <3>1. chat[PairOf[s]] \in Seq(Senders) /\ Append(chat[PairOf[s]], s) \in Seq(Senders)
        BY <1>a DEF ResultType
      <3>2. /\ dropped' = dropped /\ missed' = missed /\ raced' = raced
            /\ doubted' \in {doubted, doubted \cup {s}}
            /\ \/ chat' = chat
               \/ chat' = [chat EXCEPT ![PairOf[s]] = Append(chat[PairOf[s]], s)]
        BY <1>7 DEF SendLive, Lands, Raises
      <3> QED
        BY <1>a, <3>1, <3>2 DEF ResultType
    <2> QED
      BY <1>a, <1>7, <2>2, <2>3 DEF SendLive, Types, CoreType, ListType
  <1> QED
    BY <1>1, <1>2, <1>3, <1>4, <1>5, <1>6, <1>7 DEF Enqueue

LEMMA FlushTypes ==
    ASSUME Types, NEW t \in Threads, Flush(t)
    PROVE  Types'
  <1> USE DEF core, lists, local, results
  <1>a. /\ CoreType /\ ListType /\ ThreadType /\ ResultType /\ ThreadOK(t) /\ NoList \notin Lists
        /\ {"rebinding", "popping", "taking", "sending"} \subseteq States
    BY NoListIsNone DEF Types, ThreadType, States, Answers, Joining
  <1>b. Flushing(t) \/ t \in Senders => Key(t) \in Pairs /\ Kept(t) \in Lists
    BY <1>a, KeyType DEF Kept, Lists
  <1>1. CASE AgeOutEmpty(t) \/ AgeOutScan(t) \/ AgeOutRebind(t)
    <2>1. Key(t) \in Pairs /\ Kept(t) \in Lists
      BY <1>a, <1>b, <1>1
         DEF AgeOutEmpty, AgeOutScan, AgeOutRebind, Due, At, ThreadOK
    <2>2. ThreadOK(t)' /\ Moves(t)
      BY <1>a, <1>1 DEF AgeOutEmpty, AgeOutScan, AgeOutRebind, Due, After, At, ThreadType,
                        ThreadOK, Moves, Mine, Flushing, Joining
    <2>3. ThreadType'
      <3>1. pc' \in [Threads -> States]
        BY <1>a, <1>1 DEF AgeOutEmpty, AgeOutScan, AgeOutRebind, After, ThreadType
      <3> QED
        BY <1>a, <1>1, <2>2, <3>1, MoveType
           DEF AgeOutEmpty, AgeOutScan, AgeOutRebind, ThreadType
    <2>4. ListType'
      <3>1. CASE AgeOutEmpty(t)
        BY <1>a, <3>1 DEF AgeOutEmpty, ListType
      <3>2. CASE AgeOutScan(t)
        <4>1. text[queue[Key(t)]] \in Seq(Senders)
          BY <1>a, <2>1, <3>2 DEF AgeOutScan, Listed, ListType
        <4>2. PICK old : \E rest \in Without(text[queue[Key(t)]], old) :
                 text' = [text EXCEPT ![Kept(t)] = rest]
          BY <3>2 DEF AgeOutScan, Kept
        <4>r. PICK rest \in Without(text[queue[Key(t)]], old) :
                 text' = [text EXCEPT ![Kept(t)] = rest]
          BY <4>2
        <4>3. rest \in Seq(Senders)
          BY <4>1, WithoutFacts
        <4> QED
          BY <1>a, <3>2, <4>r, <4>3 DEF AgeOutScan, ListType
      <3>3. CASE AgeOutRebind(t)
        BY <1>a, <2>1, <3>3 DEF AgeOutRebind, ListType, Kept
      <3> QED
        BY <1>1, <3>1, <3>2, <3>3
    <2>5. CoreType'
      BY <1>a, <1>1, <2>1 DEF AgeOutEmpty, AgeOutScan, AgeOutRebind, CoreType
    <2>6. ResultType'
      <3>1. Listed(Key(t)) \subseteq Senders
        BY <1>a, <2>1, MembersType DEF ListType, Listed
      <3>2. CASE AgeOutScan(t)
        <4>1. PICK old \in SUBSET Listed(Key(t)) : dropped' = dropped \cup old
          BY <3>2 DEF AgeOutScan
        <4>2. chat' = chat /\ missed' = missed /\ doubted' = doubted /\ raced' = raced
          BY <3>2 DEF AgeOutScan
        <4> QED
          BY <1>a, <3>1, <4>1, <4>2 DEF ResultType
      <3>3. CASE AgeOutRebind(t)
        <4>1. Members(text[Kept(t)]) \subseteq Senders
          BY <1>a, <2>1, MembersType DEF ListType
        <4> QED
          BY <1>a, <3>1, <3>3, <4>1 DEF AgeOutRebind, ResultType
      <3> QED
        BY <1>a, <1>1, <3>2, <3>3 DEF AgeOutEmpty, ResultType
    <2> QED
      BY <2>3, <2>4, <2>5, <2>6 DEF Types
  <1>2. CASE PopEmpty(t) \/ FlushFails(t) \/ FlushEnds(t)
    <2>1. Flushing(t) /\ Key(t) \in Pairs
      BY <1>a, <1>b, <1>2 DEF PopEmpty, FlushFails, FlushEnds, At, ThreadOK
    <2>2. Finish(t)
      BY <1>2 DEF PopEmpty, FlushFails, FlushEnds
    <2>3. held'[t] = NoList /\ pos' = pos /\ held' \in [Threads -> Lists \cup {NoList}]
          /\ \A u \in Threads : u # t => held'[u] = held[u]
      BY <1>a, <1>2 DEF PopEmpty, FlushFails, FlushEnds, At, ThreadType, ThreadOK, Joining
    <2>4. Moves(t)
      BY <1>a, <2>1, <2>2, <2>3, FinishFacts DEF Moves, Mine, ThreadType
    <2>5. ThreadOK(t)'
      BY <1>a, <2>1, <2>2, <2>3, FinishFacts DEF ThreadOK, Joining, Flushing, Threads
    <2>6. ThreadType'
      BY <1>a, <2>1, <2>2, <2>3, <2>4, <2>5, FinishFacts, MoveType DEF ThreadType
    <2>7. ListType' /\ CoreType'
      BY <1>a, <1>2 DEF PopEmpty, FlushFails, FlushEnds, ListType, CoreType
    <2>8. ResultType'
      <3>1. CASE FlushFails(t)
        <4>1. text[held[t]] \in Seq(Senders)
          BY <1>a, <3>1 DEF FlushFails, At, ThreadOK, ThreadType, ListType, Joining
        <4>2. \A i \in pos[t]..Len(text[held[t]]) : text[held[t]][i] \in Senders
          BY <1>a, <3>1, <4>1 DEF FlushFails, At, ThreadOK, ThreadType
        <4>3. /\ text[held[t]][pos[t]] \in Senders /\ chat[Key(t)] \in Seq(Senders)
              /\ Append(chat[Key(t)], text[held[t]][pos[t]]) \in Seq(Senders)
          BY <1>a, <2>1, <3>1, <4>1 DEF FlushFails, At, ThreadOK, ThreadType, ResultType
        <4>4. /\ missed' = missed /\ raced' = raced
              /\ doubted' \in {doubted, doubted \cup {text[held[t]][pos[t]]}}
              /\ chat' \in {chat, [chat EXCEPT ![Key(t)] = Append(@, text[held[t]][pos[t]])]}
          BY <3>1 DEF FlushFails, Raises
        <4>5. dropped' \subseteq Senders
          BY <1>a, <3>1, <4>2 DEF FlushFails, ResultType
        <4> QED
          BY <1>a, <4>3, <4>4, <4>5 DEF ResultType
      <3> QED
        BY <1>a, <1>2, <3>1 DEF PopEmpty, FlushEnds, ResultType
    <2> QED
      BY <2>6, <2>7, <2>8 DEF Types
  <1>3. CASE Pop(t)
    <2>1. Flushing(t) /\ Key(t) \in Pairs /\ queue[Key(t)] \in Lists
      BY <1>a, <1>b, <1>3 DEF Pop, At, ThreadOK, Listed, ListType
    <2>2. ThreadOK(t)' /\ Moves(t)
      BY <1>a, <1>3, <2>1 DEF Pop, At, ThreadType, ThreadOK, Moves, Mine, Flushing, Joining
    <2>3. ThreadType'
      BY <1>a, <1>3, <2>1, <2>2, MoveType DEF Pop, ThreadType
    <2>4. ListType'
      BY <1>a, <1>3 DEF Pop, ListType
    <2>5. ResultType'
      <3>1. Listed(Key(t)) \subseteq Senders
        BY <1>a, <2>1, MembersType DEF ListType, Listed
      <3> QED
        BY <1>a, <1>3, <3>1 DEF Pop, ResultType
    <2> QED
      BY <1>a, <1>3, <2>3, <2>4, <2>5 DEF Pop, Types, CoreType
  <1>4. CASE FlushOne(t)
    <2>1. /\ Flushing(t) /\ Key(t) \in Pairs /\ text[held[t]] \in Seq(Senders)
          /\ pos[t] >= 1 /\ pos[t] \in Nat
      BY <1>a, <1>b, <1>4 DEF FlushOne, At, ThreadType, ThreadOK, ListType, Joining
    <2>2. text[held[t]][pos[t]] \in Senders
      BY <1>4, <2>1 DEF FlushOne
    <2>3. ThreadOK(t)' /\ Moves(t)
      BY <1>a, <1>4, <2>1 DEF FlushOne, At, ThreadType, ThreadOK, Moves, Mine, Flushing, Joining
    <2>4. ThreadType'
      BY <1>a, <1>4, <2>1, <2>3, MoveType DEF FlushOne, ThreadType
    <2>5. ResultType'
      BY <1>a, <1>4, <2>1, <2>2 DEF FlushOne, Lands, ResultType
    <2> QED
      BY <1>a, <1>4, <2>4, <2>5 DEF FlushOne, Types, CoreType, ListType
  <1> QED
    BY <1>1, <1>2, <1>3, <1>4 DEF Flush

LEMMA EventTypes ==
    ASSUME Types, NEW e \in Events, OnVerified(e)
    PROVE  Types'
  <1> USE DEF core, lists, local, results
  <1>a. /\ CoreType /\ ListType /\ ThreadType /\ ResultType /\ ThreadOK(e)
        /\ e \in Threads /\ e \notin Senders /\ NoList \notin Lists
        /\ {"reported", "flush"} \subseteq States /\ SideOf[e] \in Pairs
    BY PairsAssumption, ThreadsAssumption, NoListIsNone DEF Types, ThreadType, Threads, States
  <1>1. CASE Report(e)
    <2>1. ThreadOK(e)' /\ Moves(e)
      BY <1>a, <1>1 DEF Report, At, ThreadType, ThreadOK, Moves, Mine, Flushing, Joining
    <2>2. ThreadType'
      BY <1>a, <1>1, <2>1, MoveType DEF Report, ThreadType
    <2> QED
      BY <1>a, <1>1, <2>2 DEF Report, Types, CoreType, ListType, ResultType
  <1>2. CASE EventFlushes(e)
    <2>1. /\ job'[e] = <<SideOf[e], Rev[SideOf[e]]>>
          /\ <<SideOf[e], Rev[SideOf[e]]>> \in Jobs(e) /\ Flushing(e)'
      BY <1>a, <1>2 DEF EventFlushes, Jobs, Flushing, ThreadType
    <2>2. ThreadOK(e)' /\ Moves(e)
      BY <1>a, <1>2, <2>1 DEF EventFlushes, At, ThreadType, ThreadOK, Moves, Mine, Joining, Jobs
    <2>3. ThreadType'
      BY <1>a, <1>2, <2>2, MoveType DEF EventFlushes, ThreadType
    <2> QED
      BY <1>a, <1>2, <2>3 DEF EventFlushes, Types, CoreType, ListType, ResultType
  <1>3. CASE EventMisses(e)
    <2>1. Flushing(e) /\ Finish(e) /\ held'[e] = NoList /\ held' = held /\ pos' = pos
      BY <1>a, <1>3 DEF EventMisses, At, ThreadOK, Joining
    <2>2. Moves(e)
      BY <1>a, <2>1, FinishFacts DEF Moves, Mine, ThreadType
    <2>3. ThreadOK(e)'
      BY <1>a, <2>1, FinishFacts DEF ThreadOK, Joining, Flushing
    <2>4. ThreadType'
      BY <1>a, <2>1, <2>2, <2>3, FinishFacts, MoveType DEF ThreadType
    <2> QED
      BY <1>a, <1>3, <2>4 DEF EventMisses, Types, CoreType, ListType, ResultType
  <1> QED
    BY <1>1, <1>2, <1>3 DEF OnVerified

LEMMA TypesStep == Types /\ [Next]_vars => Types'
  <1> SUFFICES ASSUME Types, [Next]_vars PROVE Types'
    OBVIOUS
  <1>1. ASSUME NEW p \in Pairs, Verify(p) PROVE Types'
    BY <1>1 DEF Verify, lists, local, results, Types, CoreType, ListType, ThreadType, ThreadOK,
                Flushing, ResultType
  <1>2. CASE UNCHANGED vars
    BY <1>2 DEF vars, Types, CoreType, ListType, ThreadType, ThreadOK, Flushing, ResultType
  <1> QED
    BY <1>1, <1>2, EnqueueTypes, FlushTypes, EventTypes DEF Next

LEMMA TypesAlways == Spec => []Types
  BY InitTypes, TypesStep, PTL DEF Spec

\* The type invariant holds for any requests, events and pairs: a thread holds a
\* list just while it joins, appends or sends (relay.py:1701).
THEOREM TypeCorrect == Spec => []TypeOK
  <1>1. Types => TypeOK
    <2> SUFFICES ASSUME Types PROVE TypeOK
      OBVIOUS
    <2>1. \A l \in Lists : Members(text[l]) \subseteq Senders
      BY MembersType DEF Types, ListType
    <2> QED
      BY <2>1 DEF Types, CoreType, ListType, ThreadType, ThreadOK, ResultType, TypeOK, States,
                  Joining
  <1> QED
    BY <1>1, TypesAlways, PTL
-----------------------------------------------------------------------------
(* The invariant, one lemma per action.  Each also shows that no message is  *)
(* lost track of.                                                            *)

Tracks == \A m \in Senders : Accounted(m) => Accounted(m)' \/ m \in raced'

LEMMA InitInv == Init => Inv
  <1> SUFFICES ASSUME Init PROVE Inv
    OBVIOUS
  <1>1. /\ \A p \in Pairs : queue[p] = NoList /\ Members(chat[p]) = {} /\ Listed(p) = {}
        /\ \A l \in Lists : text[l] = <<>> /\ Has(l) = {}
        /\ \A t \in Threads : held[t] = NoList /\ pc[t] = "new"
        /\ Injective(<<>>) /\ dropped = {}
    BY DEF Init, Members, Injective, Listed, Has
  <1>2. ListInv /\ HandInv /\ ChatInv
    BY <1>1 DEF ListInv, HandInv, ChatInv, Once, Init
  <1>3. FreshInv
    <2>1. \A t \in Threads, p \in Pairs, k \in {"new", "kept"} : <<t, p, k>> \in Lists
      BY DEF Lists
    <2>2. \A l \in Lists : Unused(l)
      BY <1>1, NoListIsNone DEF Unused
    <2>3. \A t \in Threads : Ahead(t) = Pairs
      BY <1>1 DEF Ahead
    <2> QED
      BY <1>1, <2>1, <2>2, <2>3 DEF FreshInv, Threads
  <1>4. MessageInv
    BY <1>1, PairsAssumption DEF MessageInv, InHandsOf, Waits
  <1> QED
    BY <1>2, <1>3, <1>4 DEF Inv

\* A message that is listed is for that pair.
LEMMA ListedFacts ==
    ASSUME Types, ListInv, NEW p \in Pairs, NEW m \in Listed(p)
    PROVE  /\ m \in Senders /\ PairOf[m] = p /\ pc[m] = "queued" /\ Waits(m)
           /\ queue[p] \in Lists /\ m \in Has(queue[p])
  <1>1. queue[p] \in Lists /\ m \in Has(queue[p])
    BY DEF Listed, Types, ListType, Has
  <1>2. m \in Senders
    BY <1>1, MembersType DEF Types, ListType, Has
  <1> QED
    BY <1>1, <1>2, NoListIsNone DEF ListInv, Waits

\* So is one in the hands of a thread that sends its list.
LEMMA HandFacts ==
    ASSUME Types, ListInv, NEW t \in Threads, NEW m, InHandsOf(m, t)
    PROVE  /\ held[t] \in Lists /\ m \in Has(held[t]) /\ m \in Senders
           /\ Key(t) \in Pairs /\ PairOf[m] = Key(t) /\ pc[m] = "queued"
  <1>1. pc[t] = "sending" /\ held[t] \in Lists /\ pos[t] >= 1 /\ pos[t] \in Nat /\ Flushing(t)
    BY DEF InHandsOf, Types, ThreadType, ThreadOK
  <1>2. m \in Has(held[t]) /\ m \in Senders
    BY <1>1, MembersType DEF InHandsOf, Has, Members, Types, ListType
  <1>3. Key(t) \in Pairs
    BY <1>1, KeyType DEF Types
  <1> QED
    BY <1>1, <1>2, <1>3, NoListIsNone DEF ListInv

LEMMA AccountedIs ==
    ASSUME NEW m
    PROVE  Accounted(m) <=> \/ Waits(m) \/ \E t \in Threads : InHandsOf(m, t)
                            \/ Delivered(m) \/ m \in dropped
  BY DEF Accounted, Waits, InHands, InHandsOf

LEMMA AheadType ==
    ASSUME Types, NEW t \in Threads
    PROVE  Ahead(t) \subseteq Pairs
  <1>1. ThreadOK(t)
    BY DEF Types, ThreadType
  <1>2. CASE Flushing(t)
    <2>1. Members(job[t]) \subseteq Pairs /\ Members(Tail(job[t])) \subseteq Pairs
      BY <1>1, <1>2, JobFacts DEF ThreadOK
    <2> QED
      BY <1>2, <2>1 DEF Ahead
  <1>3. CASE ~Flushing(t)
    BY <1>1, <1>3, PairsAssumption DEF Ahead, ThreadOK
  <1> QED
    BY <1>2, <1>3

Others(t) == \A u \in Threads : u # t => Mine(u)' = Mine(u)

LEMMA OthersFacts ==
    ASSUME NEW t, Others(t), NEW u \in Threads, u # t
    PROVE  /\ pc'[u] = pc[u] /\ job'[u] = job[u] /\ held'[u] = held[u] /\ pos'[u] = pos[u]
           /\ Flushing(u)' = Flushing(u) /\ Key(u)' = Key(u) /\ Kept(u)' = Kept(u)
           /\ Ahead(u)' = Ahead(u) /\ HasTaken(u)' = HasTaken(u)
  <1>1. pc'[u] = pc[u] /\ job'[u] = job[u] /\ held'[u] = held[u] /\ pos'[u] = pos[u]
    BY DEF Others, Mine
  <1>2. Flushing(u)' = Flushing(u) /\ Key(u)' = Key(u) /\ HasTaken(u)' = HasTaken(u)
    BY <1>1 DEF Flushing, Key, HasTaken
  <1> QED
    BY <1>1, <1>2 DEF Kept, Ahead

\* A step that touches neither queues nor lists, and sends and drops nothing.
Quiet(t) ==
    /\ UNCHANGED <<queue, text, held, pos, chat, dropped, doubted, raced>> /\ Others(t)
    /\ pc[t] \notin {"sending", "queued", "dropped", "sent", "raised"}
    /\ pc'[t] # "sending"
    /\ held[t] # NoList => Key(t)' = Key(t)
    /\ Ahead(t)' \subseteq Ahead(t)
    /\ HasTaken(t) => HasTaken(t)'

LEMMA QuietKeeps ==
    ASSUME Types, Inv, NEW t \in Threads, Quiet(t)
    PROVE  Inv' /\ Tracks
  <1>0. ListInv /\ FreshInv /\ HandInv /\ MessageInv /\ ChatInv
    BY DEF Inv
  <1>1. /\ queue' = queue /\ text' = text /\ held' = held /\ pos' = pos
        /\ chat' = chat /\ dropped' = dropped /\ doubted' = doubted /\ raced' = raced
        /\ pc[t] \notin {"sending", "queued", "dropped", "sent", "raised"}
        /\ pc'[t] # "sending"
    BY DEF Quiet
  <1>2. \A u \in Threads : u # t =>
           /\ pc'[u] = pc[u] /\ Key(u)' = Key(u)
           /\ Ahead(u)' = Ahead(u) /\ HasTaken(u)' = HasTaken(u)
    BY OthersFacts DEF Quiet
  <1>3. \A m \in Threads : pc[m] \in {"queued", "dropped", "sent", "raised"} => pc'[m] = pc[m]
    BY <1>1, <1>2
  <1>s. Senders \subseteq Threads
    BY DEF Threads
  <1>4. /\ \A p : Listed(p)' = Listed(p)
        /\ \A l : Has(l)' = Has(l) /\ (Unused(l)' <=> Unused(l))
        /\ \A m : /\ Waits(m)' <=> Waits(m)
                  /\ Delivered(m)' <=> Delivered(m)
                  /\ \A u \in Threads : InHandsOf(m, u)' <=> InHandsOf(m, u)
    BY <1>1, <1>2 DEF Listed, Has, Unused, Waits, Delivered, InHandsOf
  <1>5. ListInv'
    <2>1. \A u \in Threads : held'[u] # NoList => ListPair(held'[u]) = Key(u)'
      BY <1>0, <1>1, <1>2 DEF ListInv, Quiet
    <2>2. \A l \in Lists : \A m \in Has(l) : m \in Senders
      BY MembersType DEF Has, Types, ListType
    <2> QED
      BY <1>0, <1>1, <1>3, <1>4, <1>s, <2>1, <2>2 DEF ListInv
  <1>6. FreshInv'
    <2>1. \A u \in Threads : Ahead(u)' \subseteq Ahead(u) /\ (HasTaken(u) => HasTaken(u)')
      BY <1>2 DEF Quiet
    <2> QED
      BY <1>0, <1>1, <1>4, <1>s, <2>1 DEF FreshInv
  <1>7. HandInv'
    BY <1>0, <1>1, <1>2, <1>4 DEF HandInv
  <1>8. MessageInv'
    <2>1. \A m \in dropped : m \in Threads
      BY <1>s DEF Types, ResultType
    <2> QED
      BY <1>0, <1>1, <1>2, <1>3, <1>4, <2>1 DEF MessageInv
  <1>9. ChatInv'
    <2>1. \A p \in Pairs : Members(chat[p]) \subseteq Senders
      BY MembersType DEF Types, ResultType
    <2> QED
      BY <1>0, <1>1, <1>3, <1>s, <2>1 DEF ChatInv
  <1>10. Tracks
    BY <1>1, <1>4, AccountedIs DEF Tracks, Accounted, InHands, InHandsOf
  <1> QED
    BY <1>5, <1>6, <1>7, <1>8, <1>9, <1>10 DEF Inv

LEMMA QuietSteps ==
    ASSUME Types, Inv, NEW t \in Threads,
           \/ /\ t \in Senders
              /\ Reject(t) \/ FindVerified(t) \/ FindUnverified(t) \/ Join(t) \/ MarkInflight(t)
           \/ t \in Events /\ OnVerified(t)
           \/ AgeOutEmpty(t)
    PROVE  Inv' /\ Tracks
  <1> USE DEF core, lists, local, results
  <1>a. /\ ThreadOK(t) /\ Pairs # {} /\ ThreadType
        /\ t \in Senders => PairOf[t] \in Pairs
        /\ t \in Events => t \notin Senders
    BY PairsAssumption, ThreadsAssumption DEF Types, ThreadType, Threads
  <1> DEFINE AtNew == pc[t] = "new" /\ ~Flushing(t)
  <1>1. CASE t \in Senders /\ Reject(t)
    <2>1. pc[t] = "new" /\ pc'[t] = "rejected" /\ Others(t) /\ held[t] = NoList
      BY <1>a, <1>1 DEF Reject, At, Others, Mine, ThreadType, ThreadOK, Joining
    <2>2. Quiet(t)
      BY <1>1, <2>1 DEF Reject, Quiet, Ahead, HasTaken, Joining
    <2> QED
      BY <2>2, QuietKeeps
  <1>2. CASE t \in Senders /\ FindVerified(t)
    <2>1. /\ pc[t] = "new" /\ pc'[t] = "flush" /\ Others(t) /\ held[t] = NoList
          /\ job'[t] = <<PairOf[t]>>
      BY <1>a, <1>2 DEF FindVerified, At, Others, Mine, ThreadType, ThreadOK, Joining
    <2>2. Ahead(t)' = {PairOf[t]} /\ Ahead(t) = Pairs
      BY <2>1 DEF Ahead, Flushing, Members
    <2>3. Quiet(t)
      BY <1>a, <1>2, <2>1, <2>2 DEF FindVerified, Quiet, HasTaken, Joining
    <2> QED
      BY <2>3, QuietKeeps
  <1>3. CASE t \in Senders /\ FindUnverified(t)
    <2>1. /\ pc[t] = "new" /\ pc'[t] = "queueing" /\ Others(t) /\ held[t] = NoList
          /\ job' = job /\ ~Flushing(t)
      BY <1>a, <1>3 DEF FindUnverified, At, Others, Mine, ThreadType, ThreadOK, Joining
    <2>2. Quiet(t)
      BY <1>a, <1>3, <2>1 DEF FindUnverified, Quiet, Ahead, Flushing, HasTaken, Joining
    <2> QED
      BY <2>2, QuietKeeps
  <1>4. CASE t \in Senders /\ (Join(t) \/ MarkInflight(t))
    <2>1. /\ pc[t] \in {"joining", "joined"} /\ pc'[t] \in {"joined", "appending"}
          /\ Others(t) /\ job' = job
      BY <1>a, <1>4 DEF Join, MarkInflight, At, Others, Mine, ThreadType
    <2>2. Quiet(t)
      BY <1>4, <2>1 DEF Join, MarkInflight, Quiet, Ahead, Key, Flushing, HasTaken, Joining
    <2> QED
      BY <2>2, QuietKeeps
  <1>5. CASE t \in Events /\ Report(t)
    <2>1. /\ pc[t] = "new" /\ pc'[t] = "reported" /\ Others(t) /\ held[t] = NoList
      BY <1>a, <1>5 DEF Report, At, Others, Mine, ThreadType, ThreadOK, Joining
    <2>2. Quiet(t)
      BY <1>5, <2>1 DEF Report, Quiet, Ahead, HasTaken, Joining
    <2> QED
      BY <2>2, QuietKeeps
  <1>6. CASE t \in Events /\ EventFlushes(t)
    <2>1. /\ pc[t] = "reported" /\ pc'[t] = "flush" /\ Others(t) /\ held[t] = NoList
          /\ job'[t] = <<SideOf[t], Rev[SideOf[t]]>>
      BY <1>a, <1>6 DEF EventFlushes, At, Others, Mine, ThreadType, ThreadOK, Joining
    <2>2. Ahead(t)' \subseteq Pairs /\ Ahead(t) = Pairs
      <3>1. SideOf[t] \in Pairs /\ Rev[SideOf[t]] \in Pairs
        BY <1>6, PairsAssumption
      <3>2. Members(<<SideOf[t], Rev[SideOf[t]]>>) = {SideOf[t], Rev[SideOf[t]]}
        BY DEF Members
      <3> QED
        BY <2>1, <3>1, <3>2 DEF Ahead, Flushing
    <2>3. Quiet(t)
      BY <1>6, <2>1, <2>2 DEF EventFlushes, Quiet, HasTaken, Joining
    <2> QED
      BY <2>3, QuietKeeps
  <1>7. CASE t \in Events /\ EventMisses(t)
    <2>1. /\ pc[t] = "flush" /\ Finish(t) /\ Flushing(t) /\ held[t] = NoList
      BY <1>a, <1>7 DEF EventMisses, At, ThreadOK, Joining
    <2>2. /\ pc'[t] \in {"done", "flush"} /\ job'[t] = Tail(job[t])
          /\ Others(t) /\ (pc'[t] = "flush" => job'[t] # <<>>)
      BY <1>a, <1>7, <2>1, FinishFacts DEF EventMisses, Others, Mine
    <2>3. Ahead(t)' \subseteq Ahead(t)
      BY <1>a, <2>1, <2>2, JobFacts DEF Ahead, Flushing, ThreadOK
    <2>4. Quiet(t)
      BY <1>7, <2>1, <2>2, <2>3 DEF EventMisses, Quiet, HasTaken, Joining
    <2> QED
      BY <2>4, QuietKeeps
  <1>8. CASE AgeOutEmpty(t)
    <2>1. /\ pc[t] \in {"flush", "queueing"} /\ held[t] = NoList /\ Others(t) /\ job' = job
          /\ pc'[t] = After(t) /\ (pc[t] = "flush" => Flushing(t))
      BY <1>a, <1>8 DEF AgeOutEmpty, Due, At, Others, Mine, ThreadType, ThreadOK, Joining
    <2>2. pc'[t] \in {"popping", "taking"} /\ (pc'[t] = "popping" => Flushing(t))
      BY <2>1 DEF After
    <2>3. Ahead(t)' \subseteq Ahead(t)
      BY <1>a, <2>1, <2>2, JobFacts DEF Ahead, Flushing, ThreadOK
    <2>4. Quiet(t)
      BY <1>8, <2>1, <2>2, <2>3 DEF AgeOutEmpty, Quiet, HasTaken, Joining
    <2> QED
      BY <2>4, QuietKeeps
  <1> QED
    BY <1>1, <1>2, <1>3, <1>4, <1>5, <1>6, <1>7, <1>8 DEF OnVerified

\* The steps of the core, and none at all, move no thread.
LEMMA NoThreadMoves ==
    ASSUME Types, Inv, UNCHANGED <<queue, text, pc, job, held, pos, chat, dropped, doubted, raced>>
    PROVE  Inv' /\ Tracks
  <1>1. /\ \A u : Key(u)' = Key(u) /\ Ahead(u)' = Ahead(u)
                  /\ HasTaken(u)' = HasTaken(u)
        /\ \A p : Listed(p)' = Listed(p)
        /\ \A l : Has(l)' = Has(l) /\ (Unused(l)' <=> Unused(l))
        /\ \A m : /\ Waits(m)' <=> Waits(m)
                  /\ Delivered(m)' <=> Delivered(m)
                  /\ \A u : InHandsOf(m, u)' <=> InHandsOf(m, u)
    BY DEF Key, Ahead, HasTaken, Flushing, Listed, Has, Unused, Waits, Delivered, InHandsOf
  <1>2. ListInv' /\ FreshInv' /\ HandInv'
    BY <1>1 DEF Inv, ListInv, FreshInv, HandInv
  <1>3. MessageInv' /\ ChatInv'
    BY <1>1 DEF Inv, MessageInv, ChatInv
  <1>4. Tracks
    BY <1>1 DEF Tracks, Accounted, InHands
  <1> QED
    BY <1>2, <1>3, <1>4 DEF Inv

\* _queue_cap: the list of the pair, or a new one that nobody has used.
LEMMA TakeKeeps ==
    ASSUME Types, Inv, NEW s \in Senders, Take(s)
    PROVE  Inv' /\ Tracks
  <1> DEFINE p == PairOf[s]
             q == IF queue[p] = NoList THEN <<s, p, "new">> ELSE queue[p]
  <1>a. /\ s \in Threads /\ p \in Pairs /\ NoList \notin Lists /\ ThreadOK(s) /\ Senders \subseteq Threads
        /\ ListInv /\ FreshInv /\ HandInv /\ MessageInv /\ ChatInv
    BY PairsAssumption, NoListIsNone DEF Types, ThreadType, Threads, Inv
  <1>b. pc[s] = "taking"
    BY DEF Take, At
  <1>c. /\ text' = text /\ job' = job /\ pos' = pos /\ chat' = chat /\ q \in Lists
        /\ doubted' = doubted /\ raced' = raced
        /\ queue' = [queue EXCEPT ![p] = q] /\ queue'[p] = q
        /\ \A r \in Pairs : r # p => queue'[r] = queue[r]
    BY <1>a DEF Take, lists, local, results, Types, ListType, Lists
  <1>d. /\ \/ /\ pc'[s] = "dropped" /\ held' = held /\ dropped' = dropped \cup {s}
           \/ /\ pc'[s] \in {"appending", "joining"} /\ held'[s] = q /\ dropped' = dropped
        /\ Others(s)
    BY <1>a, <1>c DEF Take, Others, Mine, Types, ThreadType
  <1>e. ~Flushing(s) /\ Key(s) = p /\ Key(s)' = p /\ held[s] = NoList /\ ListPair(q) = p
    BY <1>a, <1>b, <1>c DEF ThreadOK, Key, Flushing, Joining, ListInv, ListPair
  <1>f. \A u \in Threads : u # s =>
           /\ pc'[u] = pc[u] /\ held'[u] = held[u] /\ Key(u)' = Key(u)
           /\ Ahead(u)' = Ahead(u) /\ HasTaken(u)' = HasTaken(u)
    BY <1>d, OthersFacts
  <1>g. Ahead(s)' = {} /\ ~HasTaken(s) /\ HasTaken(s)'
    BY <1>b, <1>d DEF Ahead, HasTaken, Joining
  <1>h. queue[p] = NoList => Unused(q) /\ text[q] = <<>>
    BY <1>a, <1>g DEF FreshInv
  <1>i. \A r \in Pairs : Listed(r)' = Listed(r)
    <2>1. ASSUME NEW r \in Pairs, r # p PROVE Listed(r)' = Listed(r)
      BY <1>c, <2>1 DEF Listed
    <2>2. Listed(p)' = Members(text[q])
      BY <1>a, <1>c DEF Listed
    <2>3. Members(<<>>) = {}
      BY DEF Members
    <2>4. Listed(p)' = Listed(p)
      BY <1>a, <1>h, <2>2, <2>3 DEF Listed
    <2> QED
      BY <2>1, <2>4
  <1>j. \A l : Has(l)' = Has(l)
    BY <1>c DEF Has
  <1>k. \A m \in Senders : /\ Waits(m)' <=> Waits(m)
                           /\ Delivered(m)' <=> Delivered(m)
                           /\ \A u \in Threads : InHandsOf(m, u)' <=> InHandsOf(m, u)
    BY <1>b, <1>c, <1>d, <1>f, <1>i, PairsAssumption DEF Waits, Delivered, InHandsOf
  <1>l. /\ ~Delivered(s) /\ ~Waits(s) /\ \A u \in Threads : ~InHandsOf(s, u)
    <2>1. ~Delivered(s)
      BY <1>a, <1>b DEF ChatInv, Delivered
    <2>2. ~Waits(s)
      BY <1>a, <1>b, ListedFacts DEF Waits
    <2> QED
      BY <1>a, <1>b, <2>1, <2>2, HandFacts
  <1>1. ListInv'
    <2>1. \A l \in Lists : \A m \in Has(l) : m \in Senders
      BY MembersType DEF Has, Types, ListType
    <2>2. \A m \in Senders : pc[m] = "queued" => pc'[m] = "queued"
      BY <1>a, <1>b, <1>f
    <2>3. \A u \in Threads : held'[u] # NoList => ListPair(held'[u]) = Key(u)'
      BY <1>a, <1>d, <1>e, <1>f DEF ListInv
    <2>4. \A r \in Pairs : queue'[r] # NoList => ListPair(queue'[r]) = r
      BY <1>a, <1>c, <1>e DEF ListInv
    <2> QED
      BY <1>a, <1>c, <1>j, <2>1, <2>2, <2>3, <2>4 DEF ListInv
  <1>2. FreshInv'
    <2>1. ASSUME NEW l \in Lists, l # <<s, p, "new">>, Unused(l) PROVE Unused(l)'
      BY <1>a, <1>c, <1>d, <1>f, <2>1 DEF Unused
    <2>2. \A u \in Threads, r \in Pairs, k \in {"new", "kept"} : <<u, r, k>> \in Lists
      BY DEF Lists
    <2>3. \A u \in Threads : Ahead(u)' \subseteq Ahead(u) /\ Ahead(u)' \subseteq Pairs
      <3>1. \A u \in Threads : Ahead(u) \subseteq Pairs
        BY AheadType
      <3> QED
        BY <1>f, <1>g, <3>1
    <2>4. \A u \in Threads : \A r \in Ahead(u)' : Unused(<<u, r, "kept">>)'
      BY <1>a, <2>1, <2>2, <2>3 DEF FreshInv
    <2>5. \A u \in Senders : ~HasTaken(u)' => u # s /\ ~HasTaken(u)
      BY <1>a, <1>f, <1>g
    <2> QED
      BY <1>a, <1>c, <2>1, <2>2, <2>4, <2>5 DEF FreshInv
  <1>3. HandInv'
    <2>1. ASSUME NEW u \in Threads, pc'[u] = "sending" PROVE held'[u] # queue'[Key(u)']
      <3>1. u # s /\ pc[u] = "sending" /\ held'[u] = held[u] /\ Key(u)' = Key(u)
        BY <1>d, <1>f, <2>1
      <3>2. held[u] # q /\ Key(u) \in Pairs
        BY <1>a, <1>e, <1>h, <3>1, KeyType
           DEF HandInv, ListInv, Unused, Types, ThreadType, ThreadOK
      <3> QED
        BY <1>a, <1>c, <3>1, <3>2 DEF HandInv
    <2> QED
      BY <1>a, <1>d, <1>f, <2>1 DEF HandInv
  <1>5. MessageInv'
    <2>1. \A m \in dropped' : /\ m \in Senders /\ pc'[m] \in {"queued", "dropped"}
                              /\ m \notin doubted \cup raced => ~Delivered(m)
      BY <1>a, <1>b, <1>d, <1>f, <1>l DEF MessageInv, Types, ResultType
    <2>2. \A m \in Senders \ raced : \A u \in Threads : InHandsOf(m, u) => m \notin dropped'
      BY <1>a, <1>d, <1>l DEF MessageInv
    <2>3. \A m \in dropped' : m \in Senders /\ (Delivered(m)' <=> Delivered(m))
      BY <1>k, <2>1
    <2>4. /\ \A m \in dropped' \ (doubted' \cup raced') : ~Delivered(m)'
          /\ \A m \in dropped' : pc'[m] \in {"queued", "dropped"}
      BY <1>c, <2>1, <2>3
    <2>5. \A m \in Senders \ raced' : Waits(m)' => ~Delivered(m)'
      BY <1>a, <1>c, <1>k DEF MessageInv
    <2>6. \A m \in Senders \ raced' : \A u \in Threads : InHandsOf(m, u)' =>
             /\ ~Waits(m)' /\ ~Delivered(m)' /\ m \notin dropped'
             /\ \A v \in Threads : InHandsOf(m, v)' => v = u
      BY <1>a, <1>c, <1>k, <2>2 DEF MessageInv
    <2> QED
      BY <2>4, <2>5, <2>6 DEF MessageInv
  <1>6. ChatInv'
    <2>1. \A r \in Pairs : Members(chat[r]) \subseteq Senders
      BY MembersType DEF Types, ResultType
    <2> QED
      BY <1>a, <1>b, <1>c, <1>f, <2>1 DEF ChatInv
  <1>7. Tracks
    <2>1. \A m \in Senders : (\E u \in Threads : InHandsOf(m, u)) <=> InHands(m)
      BY DEF InHands, InHandsOf
    <2>2. \A m \in Senders : (\E u \in Threads : InHandsOf(m, u)') <=> InHands(m)'
      BY DEF InHands, InHandsOf
    <2> QED
      BY <1>d, <1>k, <2>1, <2>2 DEF Tracks, Accounted, Waits
  <1> QED
    BY <1>1, <1>2, <1>3, <1>5, <1>6, <1>7 DEF Inv

\* The message goes to the end of the list the thread holds, in use or not.
LEMMA AppendKeeps ==
    ASSUME Types, Inv, NEW s \in Senders, AppendTo(s)
    PROVE  Inv' /\ Tracks
  <1> DEFINE p == PairOf[s]
  <1>0. PICK h : h = held[s]
    OBVIOUS
  <1>a. /\ s \in Threads /\ p \in Pairs /\ NoList \notin Lists /\ ThreadOK(s) /\ Senders \subseteq Threads
        /\ ListInv /\ FreshInv /\ HandInv /\ MessageInv /\ ChatInv
    BY PairsAssumption, NoListIsNone DEF Types, ThreadType, Threads, Inv
  <1>b. pc[s] = "appending"
    BY DEF AppendTo, At
  <1>c. /\ queue' = queue /\ job' = job /\ pos' = pos /\ chat' = chat /\ dropped' = dropped
        /\ doubted' = doubted /\ raced' = raced
        /\ pc'[s] = "queued" /\ held'[s] = NoList /\ Others(s)
    BY <1>a DEF AppendTo, results, Others, Mine, Types, ThreadType
  <1>d. ~Flushing(s) /\ Key(s) = p /\ h \in Lists /\ ListPair(h) = p
    BY <1>0, <1>a, <1>b DEF ThreadOK, Key, Joining, ListInv, Types, ThreadType
  <1>e. /\ text[h] \in Seq(Senders) /\ text'[h] = Append(text[h], s)
        /\ \A l \in Lists : l # h => text'[l] = text[l]
    BY <1>0, <1>d DEF AppendTo, Types, ListType
  <1>f. \A u \in Threads : u # s =>
           /\ pc'[u] = pc[u] /\ held'[u] = held[u] /\ Key(u)' = Key(u)
           /\ Ahead(u)' = Ahead(u) /\ HasTaken(u)' = HasTaken(u)
    BY <1>c, OthersFacts
  <1>g. Ahead(s)' = {} /\ HasTaken(s)'
    BY <1>c DEF Ahead, HasTaken, Joining
  <1>h. Has(h)' = Has(h) \cup {s} /\ \A l \in Lists : l # h => Has(l)' = Has(l)
    <2>1. Members(text'[h]) = Members(text[h]) \cup {s}
      BY <1>e, MembersOfAppend
    <2>2. \A l \in Lists : l # h => Members(text'[l]) = Members(text[l])
      BY <1>e
    <2> QED
      BY <2>1, <2>2 DEF Has
  <1>i. /\ Len(text'[h]) = Len(text[h]) + 1 /\ text'[h][Len(text[h]) + 1] = s
        /\ Len(text[h]) \in Nat /\ \A i \in 1..Len(text[h]) : text'[h][i] = text[h][i]
    BY <1>e
  <1>j. ~Delivered(s) /\ s \notin dropped /\ s \notin Has(h) /\ \A u \in Threads : ~InHandsOf(s, u)
    <2>1. ~Delivered(s) /\ s \notin dropped /\ s \notin Has(h)
      BY <1>a, <1>b, <1>d DEF ChatInv, MessageInv, ListInv, Delivered
    <2> QED
      BY <1>a, <1>b, <2>1, HandFacts
  <1>k. \A r \in Pairs : Listed(r)' = IF queue[r] = h THEN Listed(r) \cup {s} ELSE Listed(r)
    <2>1. ASSUME NEW r \in Pairs
          PROVE  /\ queue[r] \in Lists \cup {NoList} /\ queue'[r] = queue[r]
                 /\ Listed(r) = IF queue[r] = NoList THEN {} ELSE Has(queue[r])
                 /\ Listed(r)' = IF queue[r] = NoList THEN {} ELSE Has(queue[r])'
      BY <1>c DEF Listed, Has, Types, ListType
    <2> QED
      BY <1>a, <1>d, <1>h, <2>1
  <1>l. \A m \in Senders : Waits(m) <=> (Waits(m)' /\ m # s)
    <2>1. ~Waits(s)
      BY <1>a, <1>b, ListedFacts DEF Waits
    <2> QED
      BY <1>k, <2>1, PairsAssumption DEF Waits
  <1>m. Waits(s)' => queue[p] = h
    BY <1>a, <1>b, <1>k, ListedFacts DEF Waits
  <1>n. ASSUME NEW m \in Senders, NEW u \in Threads
        PROVE  IF m = s THEN InHandsOf(m, u)' => pc[u] = "sending" /\ held[u] = h /\ u # s
               ELSE InHandsOf(m, u)' <=> InHandsOf(m, u)
    <2>0. CASE u = s
      BY <1>b, <1>c, <2>0 DEF InHandsOf
    <2>1. CASE u # s /\ pc[u] # "sending"
      BY <1>f, <2>1 DEF InHandsOf
    <2>2. CASE u # s /\ pc[u] = "sending"
      <3>1. /\ pc'[u] = "sending" /\ held'[u] = held[u] /\ pos'[u] = pos[u] /\ pos[u] \in Nat
            /\ pos[u] >= 1 /\ held[u] \in Lists
        BY <1>c, <1>f, <2>2 DEF Types, ThreadType, ThreadOK
      <3>2. CASE held[u] # h
        <4>1. text'[held[u]] = text[held[u]]
          BY <1>e, <3>1, <3>2
        <4>2. InHandsOf(m, u)' <=> InHandsOf(m, u)
          BY <2>2, <3>1, <4>1 DEF InHandsOf
        <4>3. ~InHandsOf(s, u)
          BY <1>j
        <4> QED
          BY <4>2, <4>3
      <3>3. CASE held[u] = h
        <4>1. CASE m = s
          BY <2>2, <3>3, <4>1
        <4>2. CASE m # s
          <5>1. InHandsOf(m, u) <=> \E i \in pos[u]..Len(text[h]) : text[h][i] = m
            BY <2>2, <3>3 DEF InHandsOf
          <5>2. InHandsOf(m, u)' <=> \E i \in pos[u]..(Len(text[h]) + 1) : text'[h][i] = m
            BY <1>i, <3>1, <3>3 DEF InHandsOf
          <5>3. \A i \in pos[u]..Len(text[h]) : i \in 1..Len(text[h])
            BY <1>i, <3>1
          <5>4. \A i \in pos[u]..(Len(text[h]) + 1) :
                   i = Len(text[h]) + 1 \/ i \in pos[u]..Len(text[h])
            BY <1>i, <3>1
          <5>5. \A i \in pos[u]..Len(text[h]) : i \in pos[u]..(Len(text[h]) + 1)
            BY <1>i, <3>1
          <5> QED
            BY <1>i, <4>2, <5>1, <5>2, <5>3, <5>4, <5>5
        <4> QED
          BY <4>1, <4>2
      <3> QED
        BY <3>2, <3>3
    <2> QED
      BY <2>0, <2>1, <2>2
  <1>1. ListInv'
    <2>1. \A l \in Lists : \A m \in Has(l) : m \in Senders
      BY MembersType DEF Has, Types, ListType
    <2>2. \A m \in Senders : pc[m] = "queued" => pc'[m] = "queued"
      BY <1>a, <1>c, <1>f
    <2>3. \A u \in Threads : held'[u] # NoList => ListPair(held'[u]) = Key(u)'
      BY <1>a, <1>c, <1>f DEF ListInv
    <2>4. \A l \in Lists : Injective(text'[l])
      <3>1. Injective(text'[h])
        BY <1>a, <1>d, <1>e, <1>j, InjectiveAppend DEF ListInv, Has
      <3> QED
        BY <1>a, <1>e, <3>1 DEF ListInv
    <2>5. \A l \in Lists : \A m \in Has(l)' : PairOf[m] = ListPair(l) /\ pc'[m] = "queued"
      <3>1. \A m \in Has(h)' : PairOf[m] = ListPair(h) /\ pc'[m] = "queued"
        BY <1>a, <1>c, <1>d, <1>h, <2>1, <2>2 DEF ListInv
      <3>2. ASSUME NEW l \in Lists, l # h, NEW m \in Has(l)'
            PROVE  PairOf[m] = ListPair(l) /\ pc'[m] = "queued"
        <4>1. m \in Has(l)
          BY <1>h, <3>2
        <4> QED
          BY <1>a, <2>1, <2>2, <4>1 DEF ListInv
      <3> QED
        BY <3>1, <3>2
    <2> QED
      BY <1>a, <1>c, <2>3, <2>4, <2>5 DEF ListInv
  <1>2. FreshInv'
    <2>1. ASSUME NEW l \in Lists, Unused(l) PROVE Unused(l)' /\ text'[l] = text[l]
      BY <1>0, <1>a, <1>c, <1>e, <1>f, <2>1 DEF Unused
    <2>2. \A u \in Threads, r \in Pairs, k \in {"new", "kept"} : <<u, r, k>> \in Lists
      BY DEF Lists
    <2>3. \A u \in Threads : Ahead(u)' \subseteq Ahead(u) /\ Ahead(u)' \subseteq Pairs
      BY <1>f, <1>g, AheadType
    <2>4. \A u \in Threads : \A r \in Ahead(u)' : Unused(<<u, r, "kept">>)'
      BY <1>a, <2>1, <2>2, <2>3 DEF FreshInv
    <2>5. \A u \in Senders : ~HasTaken(u)' => ~HasTaken(u)
      BY <1>a, <1>f, <1>g
    <2> QED
      BY <1>a, <2>1, <2>2, <2>4, <2>5 DEF FreshInv
  <1>3. HandInv'
    BY <1>a, <1>c, <1>f DEF HandInv
  <1>5. MessageInv'
    <2>1. \A m \in dropped : /\ m \in Senders /\ m # s /\ pc'[m] \in {"queued", "dropped"}
                             /\ m \notin doubted \cup raced => ~Delivered(m)
      BY <1>a, <1>b, <1>f, <1>j DEF MessageInv, Types, ResultType
    <2>2. ASSUME NEW u \in Threads, InHandsOf(s, u)'
          PROVE  ~Waits(s)' /\ \A v \in Threads : InHandsOf(s, v)' => v = u
      <3>1. pc[u] = "sending" /\ held[u] = h
        BY <1>n, <2>2
      <3>2. h # queue[p]
        <4>1. ListPair(h) = Key(u)
          BY <1>a, <1>d, <3>1 DEF ListInv
        <4> QED
          BY <1>a, <1>d, <3>1, <4>1 DEF HandInv
      <3> QED
        BY <1>a, <1>m, <1>n, <3>1, <3>2 DEF HandInv
    <2>3. \A m \in Senders : Delivered(m)' <=> Delivered(m)
      BY <1>c DEF Delivered
    <2>4. ASSUME NEW m \in Senders \ raced, NEW u \in Threads, InHandsOf(m, u)'
          PROVE  /\ ~Waits(m)' /\ ~Delivered(m)' /\ m \notin dropped'
                 /\ \A v \in Threads : InHandsOf(m, v)' => v = u
      <3>1. CASE m = s
        BY <1>c, <1>j, <2>2, <2>3, <2>4, <3>1
      <3>2. CASE m # s
        BY <1>a, <1>c, <1>l, <1>n, <2>3, <2>4, <3>2 DEF MessageInv
      <3> QED
        BY <3>1, <3>2
    <2>5. \A m \in Senders \ raced : Waits(m)' => ~Delivered(m)'
      BY <1>a, <1>j, <1>l, <2>3 DEF MessageInv
    <2> QED
      BY <1>c, <1>l, <2>1, <2>3, <2>4, <2>5 DEF MessageInv
  <1>6. ChatInv'
    <2>1. \A r \in Pairs : Members(chat[r]) \subseteq Senders
      BY MembersType DEF Types, ResultType
    <2> QED
      BY <1>a, <1>b, <1>c, <1>f, <2>1 DEF ChatInv
  <1>7. Tracks
    <2>1. ASSUME NEW m \in Senders, Accounted(m) PROVE Accounted(m)'
      <3>1. CASE Waits(m)
        BY <1>l, <3>1 DEF Waits, Accounted
      <3>2. CASE \E u \in Threads : InHandsOf(m, u)
        <4>1. m # s
          BY <1>j, <3>2
        <4> QED
          BY <1>n, <3>2, <4>1 DEF Accounted, InHands, InHandsOf
      <3>3. CASE Delivered(m) \/ m \in dropped
        BY <1>c, <3>3 DEF Accounted, Delivered
      <3> QED
        BY <2>1, <3>1, <3>2, <3>3, AccountedIs
    <2> QED
      BY <2>1 DEF Tracks
  <1> QED
    BY <1>1, <1>2, <1>3, <1>5, <1>6, <1>7 DEF Inv

\* A send at once: the message was never in a queue.
LEMMA LiveKeeps ==
    ASSUME Types, Inv, NEW s \in Senders, SendLive(s)
    PROVE  Inv' /\ Tracks
  <1> DEFINE p == PairOf[s]
  <1>a. /\ s \in Threads /\ p \in Pairs /\ Senders \subseteq Threads /\ ThreadOK(s)
        /\ ListInv /\ FreshInv /\ HandInv /\ MessageInv /\ ChatInv
    BY PairsAssumption DEF Types, ThreadType, Threads, Inv
  <1>b. pc[s] = "live"
    BY DEF SendLive, At
  <1>c. /\ queue' = queue /\ text' = text /\ job' = job /\ held' = held /\ pos' = pos
        /\ dropped' = dropped /\ raced' = raced /\ Others(s) /\ held[s] = NoList
        /\ doubted' \in {doubted, doubted \cup {s}} /\ pc'[s] \in {"sent", "raised"}
        /\ \/ chat' = chat
           \/ chat' = [chat EXCEPT ![p] = Append(chat[p], s)]
    BY <1>a, <1>b
       DEF SendLive, Lands, Raises, lists, local, Others, Mine, Types, ThreadType, ThreadOK,
           Joining
  <1>f. \A u \in Threads :
           /\ Key(u)' = Key(u) /\ held'[u] = held[u]
           /\ pc'[u] = "sending" <=> pc[u] = "sending"
    BY <1>b, <1>c, OthersFacts DEF Key, Flushing
  <1>g. \A m \in Senders : m # s => pc'[m] = pc[m]
    BY <1>a, <1>c, OthersFacts
  <1>h. /\ \A r : Listed(r)' = Listed(r)
        /\ \A l : Has(l)' = Has(l) /\ (Unused(l)' <=> Unused(l))
        /\ \A m : /\ Waits(m)' <=> Waits(m)
                  /\ \A u \in Threads : InHandsOf(m, u)' <=> InHandsOf(m, u)
    BY <1>c, <1>f DEF Listed, Has, Unused, Waits, InHandsOf
  <1>j. /\ ~Delivered(s) /\ s \notin dropped /\ ~Waits(s)
        /\ \A u \in Threads : ~InHandsOf(s, u)
        /\ \A r \in Pairs : s \notin Members(chat[r])
    <2>1. s \notin dropped /\ \A r \in Pairs : s \notin Members(chat[r])
      BY <1>a, <1>b DEF ChatInv, MessageInv
    <2>2. ~Waits(s)
      BY <1>a, <1>b, ListedFacts DEF Waits
    <2> QED
      BY <1>a, <1>b, <2>1, <2>2, HandFacts DEF Delivered
  <1>k. /\ chat[p] \in Seq(Senders)
        /\ \A r \in Pairs : r # p => chat'[r] = chat[r]
        /\ Once(chat'[p], raced)
        /\ \/ Members(chat'[p]) = Members(chat[p])
           \/ Members(chat'[p]) = Members(chat[p]) \cup {s}
    <2>1. chat[p] \in Seq(Senders) /\ p \in DOMAIN chat
      BY <1>a DEF Types, ResultType
    <2>2. CASE chat' = chat
      BY <1>a, <2>1, <2>2 DEF ChatInv
    <2>3. CASE chat' = [chat EXCEPT ![p] = Append(chat[p], s)]
      <3>1. chat'[p] = Append(chat[p], s) /\ \A r \in Pairs : r # p => chat'[r] = chat[r]
        BY <2>1, <2>3
      <3> QED
        BY <1>a, <1>j, <2>1, <2>3, <3>1, MembersOfAppend, OnceAppend DEF ChatInv
    <2> QED
      BY <1>c, <2>2, <2>3
  <1>l. /\ \A m \in Senders : m # s => (Delivered(m)' <=> Delivered(m))
        /\ Delivered(s) => Delivered(s)'
    BY <1>a, <1>k, PairsAssumption DEF Delivered
  <1>1. ListInv'
    <2>1. \A l \in Lists : \A m \in Has(l) : m \in Senders
      BY MembersType DEF Has, Types, ListType
    <2>2. \A m \in Senders : pc[m] = "queued" => pc'[m] = "queued"
      BY <1>b, <1>g
    <2> QED
      BY <1>a, <1>c, <1>f, <1>h, <2>1, <2>2 DEF ListInv
  <1>2. FreshInv'
    <2>1. \A u \in Threads : Ahead(u)' \subseteq Ahead(u)
      BY <1>c, OthersFacts DEF Ahead
    <2>2. \A u \in Senders : ~HasTaken(u)' => \/ ~HasTaken(u)
      BY <1>b, <1>g DEF HasTaken, Joining
    <2> QED
      BY <1>a, <1>c, <1>h, <2>1, <2>2 DEF FreshInv
  <1>3. HandInv'
    BY <1>a, <1>c, <1>f DEF HandInv
  <1>4. MessageInv'
    <2>1. \A m \in dropped : /\ m \in Senders /\ m # s /\ pc'[m] \in {"queued", "dropped"}
                             /\ m \notin doubted \cup raced => ~Delivered(m)
      BY <1>a, <1>b, <1>g, <1>j DEF MessageInv, Types, ResultType
    <2> QED
      BY <1>a, <1>c, <1>h, <1>j, <1>l, <2>1 DEF MessageInv
  <1>5. ChatInv'
    <2>1. \A r \in Pairs : Members(chat[r]) \subseteq Senders
      BY MembersType DEF Types, ResultType
    <2>2. \A m \in Members(chat'[p]) : PairOf[m] = p /\ pc'[m] \in {"queued", "sent", "raised"}
      BY <1>a, <1>b, <1>c, <1>g, <1>j, <1>k, <2>1 DEF ChatInv
    <2>3. ASSUME NEW r \in Pairs, r # p
          PROVE  /\ Once(chat'[r], raced)
                 /\ \A m \in Members(chat'[r]) :
                       PairOf[m] = r /\ pc'[m] \in {"queued", "sent", "raised"}
      BY <1>a, <1>g, <1>j, <1>k, <2>1, <2>3 DEF ChatInv
    <2> QED
      BY <1>c, <1>k, <2>2, <2>3 DEF ChatInv
  <1>6. Tracks
    BY <1>c, <1>h, <1>l, AccountedIs DEF Tracks, Accounted, InHands, InHandsOf, Waits
  <1> QED
    BY <1>1, <1>2, <1>3, <1>4, <1>5, <1>6 DEF Inv

\* The copy is made on a list nobody has used yet.
LEMMA ScanKeeps ==
    ASSUME Types, Inv, NEW t \in Threads, AgeOutScan(t)
    PROVE  Inv' /\ Tracks
  <1>0. PICK p, k : p = Key(t) /\ k = Kept(t)
    OBVIOUS
  <1>a. /\ NoList \notin Lists /\ ThreadOK(t) /\ Senders \subseteq Threads
        /\ ListInv /\ FreshInv /\ HandInv /\ MessageInv /\ ChatInv
    BY NoListIsNone DEF Types, ThreadType, Threads, Inv
  <1>b. /\ pc[t] \in {"flush", "queueing"}
        /\ p \in Pairs /\ k \in Lists /\ k = <<t, p, "kept">> /\ p \in Ahead(t)
    <2>1. pc[t] \in {"flush", "queueing"}
      BY DEF AgeOutScan, Due, At
    <2>2. (pc[t] = "flush" => Flushing(t)) /\ (pc[t] = "queueing" => t \in Senders /\ ~Flushing(t))
      BY <1>a DEF ThreadOK
    <2>3. p \in Pairs
      BY <1>0, <2>1, <2>2, KeyType DEF Types
    <2>4. p \in Ahead(t)
      <3>1. CASE Flushing(t)
        BY <1>0, <1>a, <2>1, <3>1, JobFacts DEF Ahead, ThreadOK
      <3>2. CASE ~Flushing(t)
        BY <1>0, <2>1, <3>2 DEF Ahead, Key
      <3> QED
        BY <3>1, <3>2
    <2> QED
      BY <1>0, <2>1, <2>3, <2>4 DEF Kept, Lists
  <1>c. /\ queue' = queue /\ job' = job /\ held' = held /\ pos' = pos /\ chat' = chat
        /\ pc'[t] = "rebinding" /\ Others(t) /\ Listed(p) # {}
        /\ doubted' = doubted /\ raced' = raced
    BY <1>0 DEF AgeOutScan, local, Others, Mine, Types, ThreadType
  <1>d. PICK old \in SUBSET Listed(p) :
           /\ dropped' = dropped \cup old
           /\ \E rest \in Without(text[queue[p]], old) : text' = [text EXCEPT ![k] = rest]
    BY <1>0 DEF AgeOutScan, Kept
  <1>r. PICK rest \in Without(text[queue[p]], old) : text' = [text EXCEPT ![k] = rest]
    BY <1>d
  <1>e. /\ queue[p] \in Lists /\ text[queue[p]] \in Seq(Senders) /\ Listed(p) = Has(queue[p])
        /\ Injective(text[queue[p]]) /\ ListPair(queue[p]) = p
    BY <1>a, <1>b, <1>c DEF Listed, Has, Types, ListType, ListInv
  <1>g. /\ text'[k] = rest /\ Members(rest) = Listed(p) \ old /\ Injective(rest)
        /\ \A l \in Lists : l # k => text'[l] = text[l]
    <2>1. Members(rest) = Members(text[queue[p]]) \ old /\ Injective(rest)
      BY <1>e, WithoutFacts
    <2> QED
      BY <1>b, <1>e, <1>r, <2>1 DEF Has, Types, ListType
  <1>u. Unused(k)
    BY <1>a, <1>b DEF FreshInv
  <1>f. \A u \in Threads :
           /\ Key(u)' = Key(u) /\ held'[u] = held[u] /\ pos'[u] = pos[u]
           /\ pc'[u] = "sending" <=> pc[u] = "sending"
           /\ u # t => pc'[u] = pc[u]
    BY <1>b, <1>c, OthersFacts DEF Key, Flushing
  <1>h. /\ \A r \in Pairs : Listed(r)' = Listed(r)
        /\ \A l : Unused(l)' <=> Unused(l)
    <2>1. \A r \in Pairs : queue[r] # NoList => text'[queue[r]] = text[queue[r]]
      BY <1>g, <1>u DEF Unused, Types, ListType
    <2> QED
      BY <1>c, <2>1 DEF Listed, Unused
  <1>i. \A m : \A u \in Threads : InHandsOf(m, u)' <=> InHandsOf(m, u)
    <2>1. \A u \in Threads : pc[u] = "sending" => held[u] \in Lists /\ text'[held[u]] = text[held[u]]
      BY <1>g, <1>u DEF Unused, Types, ThreadType, ThreadOK
    <2> QED
      BY <1>c, <1>f, <2>1 DEF InHandsOf
  <1>j. \A m \in Senders : (Waits(m)' <=> Waits(m)) /\ (Delivered(m)' <=> Delivered(m))
    BY <1>c, <1>h, PairsAssumption DEF Waits, Delivered
  <1>k. \A m \in Listed(p) : m \in Senders /\ PairOf[m] = p /\ pc[m] = "queued" /\ Waits(m)
    BY <1>a, <1>b, ListedFacts
  <1>l. \A m \in Senders : pc[m] \in {"queued", "dropped", "sent", "raised"} => pc'[m] = pc[m]
    BY <1>a, <1>b, <1>f
  <1>1. ListInv'
    <2>1. \A l \in Lists : \A m \in Has(l) : m \in Senders
      BY MembersType DEF Has, Types, ListType
    <2>2. ASSUME NEW l \in Lists
          PROVE  /\ Injective(text'[l])
                 /\ \A m \in Has(l)' : PairOf[m] = ListPair(l) /\ pc'[m] = "queued"
      <3>1. CASE l = k
        BY <1>b, <1>g, <1>k, <1>l, <3>1 DEF Has, ListPair
      <3>2. CASE l # k
        BY <1>a, <1>g, <1>l, <2>1, <3>2 DEF Has, ListInv
      <3> QED
        BY <3>1, <3>2
    <2> QED
      BY <1>a, <1>c, <1>f, <2>2 DEF ListInv
  <1>2. FreshInv'
    <2>1. \A u \in Threads : Ahead(u)' \subseteq Ahead(u)
      BY <1>b, <1>c, <1>f, OthersFacts DEF Ahead, Flushing
    <2>2. \A u \in Senders : ~HasTaken(u)' => ~HasTaken(u)
      BY <1>a, <1>b, <1>f DEF HasTaken, Joining
    <2>3. \A u \in Threads, r \in Pairs :
             <<u, r, "new">> \in Lists /\ text'[<<u, r, "new">>] = text[<<u, r, "new">>]
      BY <1>b, <1>g DEF Lists
    <2> QED
      BY <1>a, <1>h, <2>1, <2>2, <2>3 DEF FreshInv
  <1>3. HandInv'
    BY <1>a, <1>c, <1>f DEF HandInv
  <1>5. MessageInv'
    <2>1. ASSUME NEW m \in dropped'
          PROVE  /\ m \in Senders /\ pc'[m] \in {"queued", "dropped"}
                 /\ m \notin doubted \cup raced => ~Delivered(m)
      <3>1. CASE m \in old
        BY <1>a, <1>d, <1>k, <1>l, <3>1 DEF MessageInv
      <3>2. CASE m \in dropped
        BY <1>a, <1>b, <1>l, <3>2 DEF MessageInv, Types, ResultType
      <3> QED
        BY <1>d, <2>1, <3>1, <3>2
    <2>2. \A m \in Senders \ raced : \A u \in Threads : InHandsOf(m, u) => m \notin dropped'
      BY <1>a, <1>d, <1>k DEF MessageInv
    <2> QED
      BY <1>a, <1>c, <1>i, <1>j, <2>1, <2>2 DEF MessageInv
  <1>6. ChatInv'
    <2>1. \A r \in Pairs : Members(chat[r]) \subseteq Senders
      BY MembersType DEF Types, ResultType
    <2> QED
      BY <1>a, <1>c, <1>l, <2>1 DEF ChatInv
  <1>7. Tracks
    <2>1. \A m \in Senders : /\ Accounted(m)' <=> \/ Waits(m)' \/ \E u \in Threads : InHandsOf(m, u)'
                                                  \/ Delivered(m)' \/ m \in dropped'
      BY DEF Accounted, Waits, InHands, InHandsOf
    <2> QED
      BY <1>d, <1>i, <1>j, <2>1, AccountedIs DEF Tracks
  <1> QED
    BY <1>1, <1>2, <1>3, <1>5, <1>6, <1>7 DEF Inv

\* The copy takes the list's place; where the two differ, the age-out raced.
LEMMA RebindKeeps ==
    ASSUME Types, Inv, NEW t \in Threads, AgeOutRebind(t)
    PROVE  Inv' /\ Tracks
  <1>0. PICK p, k : p = Key(t) /\ k = Kept(t)
    OBVIOUS
  <1>a. /\ NoList \notin Lists /\ ThreadOK(t) /\ Senders \subseteq Threads
        /\ ListInv /\ FreshInv /\ HandInv /\ MessageInv /\ ChatInv
    BY NoListIsNone DEF Types, ThreadType, Threads, Inv
  <1>b. /\ pc[t] = "rebinding"
        /\ p \in Pairs /\ k \in Lists /\ k = <<t, p, "kept">> /\ p \in Ahead(t)
    <2>1. pc[t] = "rebinding"
      BY DEF AgeOutRebind, At
    <2>2. ~Flushing(t) => t \in Senders
      BY <1>a, <2>1 DEF ThreadOK
    <2>3. p \in Pairs
      BY <1>0, <2>2, KeyType DEF Types
    <2>4. p \in Ahead(t)
      <3>1. CASE Flushing(t)
        BY <1>0, <1>a, <2>1, <3>1, JobFacts DEF Ahead, ThreadOK
      <3>2. CASE ~Flushing(t)
        BY <1>0, <2>1, <3>2 DEF Ahead, Key
      <3> QED
        BY <3>1, <3>2
    <2> QED
      BY <1>0, <2>1, <2>3, <2>4 DEF Kept, Lists
  <1>c. /\ text' = text /\ job' = job /\ held' = held /\ pos' = pos /\ chat' = chat
        /\ dropped' = dropped /\ doubted' = doubted
        /\ pc'[t] \in {"popping", "taking"} /\ Others(t)
        /\ pc'[t] = "popping" => Flushing(t)
        /\ queue' = [queue EXCEPT ![p] = IF text[k] = <<>> THEN NoList ELSE k]
    BY <1>0 DEF AgeOutRebind, After, Kept, local, results, Others, Mine, Types, ThreadType
  <1>d. /\ queue'[p] = IF text[k] = <<>> THEN NoList ELSE k
        /\ \A r \in Pairs : r # p => queue'[r] = queue[r]
    BY <1>b, <1>c DEF Types, ListType
  <1>u. Unused(k)
    BY <1>a, <1>b DEF FreshInv
  <1>f. \A u \in Threads :
           /\ Key(u)' = Key(u) /\ held'[u] = held[u]
           /\ pc'[u] = "sending" <=> pc[u] = "sending"
           /\ u # t => pc'[u] = pc[u]
    BY <1>b, <1>c, OthersFacts DEF Key, Flushing
  <1>g. /\ Listed(p)' = Has(k)
        /\ \A r \in Pairs : r # p => Listed(r)' = Listed(r)
    <2>1. Members(<<>>) = {}
      BY DEF Members
    <2> QED
      <3>1. Listed(p)' = IF queue'[p] = NoList THEN {} ELSE Members(text[queue'[p]])
        BY <1>c DEF Listed
      <3>2. Listed(p)' = Members(text[k])
        BY <1>a, <1>b, <1>d, <2>1, <3>1
      <3> QED
        BY <1>c, <1>d, <3>2 DEF Listed, Has
  <1>h. /\ raced \subseteq raced' /\ Has(k) \subseteq Listed(p) \cup raced'
        /\ Listed(p) \subseteq Has(k) \cup dropped \cup raced'
    BY <1>0 DEF AgeOutRebind, Has
  <1>i. \A m : /\ \A u \in Threads : InHandsOf(m, u)' <=> InHandsOf(m, u)
               /\ Delivered(m)' <=> Delivered(m)
    BY <1>c, <1>f DEF InHandsOf, Delivered
  <1>j. \A m \in Senders : /\ Waits(m)' => Waits(m) \/ m \in raced'
                           /\ Waits(m) => Waits(m)' \/ m \in dropped \/ m \in raced'
    <2>1. ASSUME NEW m \in Senders, PairOf[m] = p
          PROVE  /\ Waits(m)' => Waits(m) \/ m \in raced'
                 /\ Waits(m) => Waits(m)' \/ m \in dropped \/ m \in raced'
      BY <1>g, <1>h, <2>1 DEF Waits
    <2>2. ASSUME NEW m \in Senders, PairOf[m] # p
          PROVE  Waits(m)' <=> Waits(m)
      BY <1>g, <2>2, PairsAssumption DEF Waits
    <2> QED
      BY <2>1, <2>2
  <1>l. \A m \in Senders : pc[m] \in {"queued", "dropped", "sent", "raised"} => pc'[m] = pc[m]
    BY <1>a, <1>b, <1>f
  <1>1. ListInv'
    <2>1. \A l \in Lists : \A m \in Has(l) : m \in Senders
      BY MembersType DEF Has, Types, ListType
    <2>2. \A l : Has(l)' = Has(l)
      BY <1>c DEF Has
    <2>3. \A r \in Pairs : queue'[r] # NoList => ListPair(queue'[r]) = r
      BY <1>a, <1>b, <1>d DEF ListInv, ListPair
    <2> QED
      BY <1>a, <1>c, <1>f, <1>l, <2>1, <2>2, <2>3 DEF ListInv
  <1>2. FreshInv'
    <2>1. ASSUME NEW l \in Lists, l # k, Unused(l) PROVE Unused(l)'
      BY <1>a, <1>c, <1>d, <2>1 DEF Unused
    <2>2. \A u \in Threads, r \in Pairs, i \in {"new", "kept"} : <<u, r, i>> \in Lists
      BY DEF Lists
    <2>3. ASSUME NEW u \in Threads, NEW r \in Ahead(u)' PROVE Unused(<<u, r, "kept">>)'
      <3>1. CASE u # t
        <4>1. r \in Ahead(u) /\ r \in Pairs
          BY <1>c, <2>3, <3>1, OthersFacts, AheadType
        <4> QED
          BY <1>a, <1>b, <2>1, <2>2, <3>1, <4>1 DEF FreshInv
      <3>2. CASE u = t
        <4>1. /\ Flushing(t) /\ r \in Members(Tail(job[t]))
          BY <1>c, <2>3, <3>2 DEF Ahead, Flushing
        <4>2. r \in Ahead(t) /\ r # p /\ r \in Pairs
          BY <1>0, <1>a, <1>b, <4>1, JobFacts DEF Ahead, ThreadOK
        <4> QED
          BY <1>a, <1>b, <2>1, <2>2, <3>2, <4>2 DEF FreshInv
      <3> QED
        BY <3>1, <3>2
    <2>4. \A u \in Senders : ~HasTaken(u)' => ~HasTaken(u)
      BY <1>a, <1>b, <1>f DEF HasTaken, Joining
    <2> QED
      BY <1>a, <1>b, <1>c, <2>1, <2>2, <2>3, <2>4 DEF FreshInv
  <1>3. HandInv'
    <2>1. ASSUME NEW u \in Threads, pc[u] = "sending" PROVE held[u] # queue'[Key(u)]
      <3>1. held[u] # NoList /\ held[u] # k /\ Key(u) \in Pairs
        BY <1>u, <2>1, KeyType DEF Unused, Types, ThreadType, ThreadOK
      <3> QED
        BY <1>a, <1>d, <2>1, <3>1 DEF HandInv
    <2> QED
      BY <1>a, <1>c, <1>f, <2>1 DEF HandInv
  <1>5. MessageInv'
    <2>1. \A m \in dropped : /\ m \in Senders /\ pc'[m] \in {"queued", "dropped"}
                             /\ m \notin doubted \cup raced => ~Delivered(m)
      BY <1>a, <1>l DEF MessageInv, Types, ResultType
    <2> QED
      BY <1>a, <1>c, <1>h, <1>i, <1>j, <2>1 DEF MessageInv
  <1>6. ChatInv'
    <2>1. \A r \in Pairs : Members(chat[r]) \subseteq Senders
      BY MembersType DEF Types, ResultType
    <2> QED
      BY <1>a, <1>c, <1>h, <1>l, <2>1, OnceMore DEF ChatInv
  <1>7. Tracks
    <2>1. \A m \in Senders : /\ Accounted(m)' <=> \/ Waits(m)' \/ \E u \in Threads : InHandsOf(m, u)'
                                                  \/ Delivered(m)' \/ m \in dropped'
      BY DEF Accounted, Waits, InHands, InHandsOf
    <2> QED
      BY <1>c, <1>i, <1>j, <2>1, AccountedIs DEF Tracks
  <1> QED
    BY <1>1, <1>2, <1>3, <1>5, <1>6, <1>7 DEF Inv

\* A list leaves the table for the hands of the thread that sends it.
LEMMA PopKeeps ==
    ASSUME Types, Inv, NEW t \in Threads, Pop(t)
    PROVE  Inv' /\ Tracks
  <1>0. PICK p, l : p = Key(t) /\ l = queue[p]
    OBVIOUS
  <1>a. /\ NoList \notin Lists /\ ThreadOK(t) /\ Senders \subseteq Threads
        /\ ListInv /\ FreshInv /\ HandInv /\ MessageInv /\ ChatInv
    BY NoListIsNone DEF Types, ThreadType, Threads, Inv
  <1>b. /\ pc[t] = "popping"
        /\ Flushing(t) /\ p \in Pairs /\ held[t] = NoList
    <2>1. pc[t] = "popping"
      BY DEF Pop, At
    <2>2. Flushing(t) /\ held[t] = NoList
      BY <1>a, <2>1 DEF ThreadOK, Joining
    <2> QED
      BY <1>0, <2>1, <2>2, KeyType DEF Types
  <1>c. /\ text' = text /\ job' = job /\ chat' = chat /\ dropped' = dropped
        /\ queue' = [queue EXCEPT ![p] = NoList]
        /\ held'[t] = l /\ pos'[t] = 1 /\ pc'[t] = "sending" /\ Others(t)
        /\ Listed(p) # {} /\ doubted' = doubted /\ raced' = raced \cup (Listed(p) \cap dropped)
    BY <1>0 DEF Pop, results, Others, Mine, Types, ThreadType
  <1>d. /\ queue'[p] = NoList /\ \A r \in Pairs : r # p => queue'[r] = queue[r]
        /\ l \in Lists /\ ListPair(l) = p /\ Listed(p) = Has(l)
    BY <1>0, <1>a, <1>b, <1>c DEF Types, ListType, Listed, ListInv, Has
  <1>f. \A u \in Threads :
           /\ Key(u)' = Key(u)
           /\ u # t => pc'[u] = pc[u] /\ held'[u] = held[u] /\ pos'[u] = pos[u]
    BY <1>b, <1>c, OthersFacts DEF Key, Flushing
  <1>g. Listed(p)' = {} /\ \A r \in Pairs : r # p => Listed(r)' = Listed(r)
    BY <1>c, <1>d DEF Listed
  <1>h. \A m \in Senders : Waits(m)' <=> (Waits(m) /\ PairOf[m] # p)
    BY <1>g, PairsAssumption DEF Waits
  <1>i. \A m : /\ \A u \in Threads : u # t => (InHandsOf(m, u)' <=> InHandsOf(m, u))
               /\ Delivered(m)' <=> Delivered(m)
               /\ ~InHandsOf(m, t)
    BY <1>b, <1>c, <1>f DEF InHandsOf, Delivered
  <1>j. \A m : InHandsOf(m, t)' <=> m \in Has(l)
    <2>1. text[l] \in Seq(Senders)
      BY <1>d DEF Types, ListType
    <2>2. DOMAIN text[l] = 1..Len(text[l])
      BY <2>1
    <2> QED
      BY <1>c, <2>2 DEF InHandsOf, Has, Members
  <1>k. \A m \in Has(l) : m \in Senders /\ PairOf[m] = p /\ Waits(m)
    BY <1>a, <1>b, <1>d, ListedFacts
  <1>l. \A m \in Senders : pc[m] \in {"queued", "dropped", "sent", "raised"} => pc'[m] = pc[m]
    BY <1>a, <1>b, <1>f
  <1>1. ListInv'
    <2>1. \A x \in Lists : \A m \in Has(x) : m \in Senders
      BY MembersType DEF Has, Types, ListType
    <2>2. \A x : Has(x)' = Has(x)
      BY <1>c DEF Has
    <2>3. \A u \in Threads : held'[u] # NoList => ListPair(held'[u]) = Key(u)'
      BY <1>0, <1>a, <1>c, <1>d, <1>f DEF ListInv
    <2>4. \A r \in Pairs : queue'[r] # NoList => ListPair(queue'[r]) = r
      BY <1>a, <1>d DEF ListInv
    <2> QED
      BY <1>a, <1>c, <1>l, <2>1, <2>2, <2>3, <2>4 DEF ListInv
  <1>2. FreshInv'
    <2>1. ASSUME NEW x \in Lists, Unused(x) PROVE Unused(x)'
      BY <1>0, <1>a, <1>b, <1>c, <1>d, <1>f, <2>1 DEF Unused
    <2>2. \A u \in Threads, r \in Pairs, i \in {"new", "kept"} : <<u, r, i>> \in Lists
      BY DEF Lists
    <2>3. \A u \in Threads : Ahead(u)' \subseteq Ahead(u) /\ Ahead(u)' \subseteq Pairs
      BY <1>b, <1>c, OthersFacts, AheadType DEF Ahead
    <2>4. \A u \in Senders : ~HasTaken(u)' => ~HasTaken(u)
      BY <1>a, <1>b, <1>f DEF HasTaken, Joining
    <2> QED
      BY <1>a, <1>c, <2>1, <2>2, <2>3, <2>4 DEF FreshInv
  <1>3. HandInv'
    <2>1. \A u \in Threads : pc[u] = "sending" => held[u] # l /\ held[u] # NoList /\ Key(u) \in Pairs
      <3>1. ASSUME NEW u \in Threads, pc[u] = "sending" PROVE held[u] # NoList /\ Key(u) \in Pairs
        BY <3>1, KeyType DEF Types, ThreadType, ThreadOK
      <3> QED
        BY <1>0, <1>a, <1>d, <3>1 DEF HandInv, ListInv
    <2>2. \A u \in Threads : pc'[u] = "sending" => held'[u] # queue'[Key(u)]
      BY <1>0, <1>a, <1>c, <1>d, <1>f, <2>1 DEF HandInv
    <2>3. \A u, v \in Threads :
             pc'[u] = "sending" /\ pc'[v] = "sending" /\ held'[u] = held'[v] => u = v
      BY <1>a, <1>c, <1>f, <2>1 DEF HandInv
    <2> QED
      BY <1>f, <2>2, <2>3 DEF HandInv
  <1>5. MessageInv'
    <2>1. \A m \in dropped : /\ m \in Senders /\ pc'[m] \in {"queued", "dropped"}
                             /\ m \notin doubted \cup raced => ~Delivered(m)
      BY <1>a, <1>b, <1>l DEF MessageInv, Types, ResultType
    <2>2. ASSUME NEW m \in Senders \ raced', NEW u \in Threads, InHandsOf(m, u)'
          PROVE  /\ ~Waits(m)' /\ ~Delivered(m) /\ m \notin dropped
                 /\ \A v \in Threads : InHandsOf(m, v)' => v = u
      <3>1. CASE u = t
        <4>1. m \in Has(l) /\ Waits(m) /\ PairOf[m] = p /\ m \notin dropped /\ m \notin raced
          BY <1>c, <1>d, <1>j, <1>k, <2>2, <3>1
        <4>2. \A v \in Threads : ~InHandsOf(m, v)
          BY <1>a, <4>1 DEF MessageInv
        <4> QED
          BY <1>a, <1>h, <1>i, <3>1, <4>1, <4>2 DEF MessageInv
      <3>2. CASE u # t
        <4>1. InHandsOf(m, u)
          BY <1>i, <2>2, <3>2
        <4>2. ~Waits(m)
          BY <1>a, <1>c, <4>1 DEF MessageInv
        <4>3. ~InHandsOf(m, t)'
          BY <1>j, <1>k, <4>2
        <4> QED
          BY <1>a, <1>c, <1>h, <1>i, <4>1, <4>2, <4>3 DEF MessageInv
      <3> QED
        BY <3>1, <3>2
    <2> QED
      BY <1>a, <1>c, <1>h, <1>i, <2>1, <2>2 DEF MessageInv
  <1>6. ChatInv'
    <2>1. \A r \in Pairs : Members(chat[r]) \subseteq Senders
      BY MembersType DEF Types, ResultType
    <2> QED
      BY <1>a, <1>c, <1>l, <2>1, OnceMore DEF ChatInv
  <1>7. Tracks
    <2>1. \A m \in Senders : /\ Accounted(m)' <=> \/ Waits(m)' \/ \E u \in Threads : InHandsOf(m, u)'
                                                  \/ Delivered(m)' \/ m \in dropped'
      BY DEF Accounted, Waits, InHands, InHandsOf
    <2>2. \A m \in Senders : Waits(m) /\ PairOf[m] = p => m \in Has(l)
      BY <1>d DEF Waits
    <2> QED
      BY <1>c, <1>h, <1>i, <1>j, <2>1, <2>2, AccountedIs DEF Tracks
  <1> QED
    BY <1>1, <1>2, <1>3, <1>5, <1>6, <1>7 DEF Inv

\* A message in the hands of one thread is sent.
LEMMA OneKeeps ==
    ASSUME Types, Inv, NEW t \in Threads, FlushOne(t)
    PROVE  Inv' /\ Tracks
  <1>0. PICK p, h, i : p = Key(t) /\ h = held[t] /\ i = pos[t]
    OBVIOUS
  <1>m. PICK m : m = text[h][i]
    OBVIOUS
  <1>a. /\ NoList \notin Lists /\ ThreadOK(t) /\ Senders \subseteq Threads
        /\ ListInv /\ FreshInv /\ HandInv /\ MessageInv /\ ChatInv
    BY NoListIsNone DEF Types, ThreadType, Threads, Inv
  <1>b. /\ pc[t] = "sending"
        /\ Flushing(t) /\ p \in Pairs /\ h \in Lists /\ text[h] \in Seq(Senders)
        /\ i \in 1..Len(text[h]) /\ Len(text[h]) \in Nat
    <2>1. pc[t] = "sending"
      BY DEF FlushOne, At
    <2>2. Flushing(t) /\ h \in Lists /\ i \in Nat /\ i >= 1
      BY <1>0, <1>a, <2>1 DEF ThreadOK, Types, ThreadType
    <2>3. text[h] \in Seq(Senders)
      BY <2>2 DEF Types, ListType
    <2> QED
      BY <1>0, <2>1, <2>2, <2>3, KeyType DEF Types, FlushOne
  <1>c. /\ queue' = queue /\ text' = text /\ job' = job /\ pc' = pc /\ held' = held
        /\ dropped' = dropped /\ doubted' = doubted /\ raced' = raced
        /\ pos'[t] = i + 1 /\ Others(t)
        /\ chat' = [chat EXCEPT ![p] = Append(chat[p], m)]
    BY <1>0, <1>m DEF FlushOne, Lands, lists, Others, Mine, Types, ThreadType
  <1>d. InHandsOf(m, t) /\ m \in Senders /\ PairOf[m] = p /\ pc[m] = "queued"
    <2>1. InHandsOf(m, t)
      BY <1>0, <1>b, <1>m DEF InHandsOf
    <2> QED
      BY <1>0, <1>a, <2>1, HandFacts
  <1>e. m \notin raced =>
        /\ ~Waits(m) /\ ~Delivered(m) /\ m \notin dropped
        /\ \A u \in Threads : InHandsOf(m, u) => u = t
    BY <1>a, <1>d DEF MessageInv
  <1>f. \A u \in Threads : Key(u)' = Key(u) /\ Ahead(u)' = Ahead(u) /\ HasTaken(u)' = HasTaken(u)
    BY <1>c DEF Key, Ahead, HasTaken, Flushing
  <1>g. /\ \A r : Listed(r)' = Listed(r)
        /\ \A l : Has(l)' = Has(l) /\ (Unused(l)' <=> Unused(l))
        /\ \A x : Waits(x)' <=> Waits(x)
    BY <1>c DEF Listed, Has, Unused, Waits
  <1>h. \A x : \A u \in Threads : u # t => (InHandsOf(x, u)' <=> InHandsOf(x, u))
    BY <1>c, OthersFacts DEF InHandsOf
  <1>i. \A x : InHandsOf(x, t)' <=> (InHandsOf(x, t) /\ x # m)
    <2>1. \A x : InHandsOf(x, t) <=> \E j \in i..Len(text[h]) : text[h][j] = x
      BY <1>0, <1>b DEF InHandsOf
    <2>2. \A x : InHandsOf(x, t)' <=> \E j \in (i + 1)..Len(text[h]) : text[h][j] = x
      BY <1>0, <1>b, <1>c DEF InHandsOf
    <2>3. \A j \in i..Len(text[h]) : j = i \/ j \in (i + 1)..Len(text[h])
      BY <1>b
    <2>4. \A j \in (i + 1)..Len(text[h]) : j \in i..Len(text[h]) /\ j # i /\ j \in DOMAIN text[h]
      BY <1>b
    <2>5. \A j \in DOMAIN text[h] : text[h][j] = m => j = i
      BY <1>a, <1>b, <1>m DEF ListInv, Injective
    <2> QED
      BY <1>m, <2>1, <2>2, <2>3, <2>4, <2>5
  <1>k. /\ \A r \in Pairs : r # p => chat'[r] = chat[r]
        /\ Once(chat'[p], raced) /\ Members(chat'[p]) = Members(chat[p]) \cup {m}
    <2>1. chat[p] \in Seq(Senders) /\ p \in DOMAIN chat
      BY <1>b DEF Types, ResultType
    <2>2. chat'[p] = Append(chat[p], m) /\ \A r \in Pairs : r # p => chat'[r] = chat[r]
      BY <1>c, <2>1
    <2> QED
      BY <1>a, <1>b, <1>d, <1>e, <2>1, <2>2, MembersOfAppend, OnceAppend DEF ChatInv, Delivered
  <1>l. \A x \in Senders : Delivered(x)' <=> (Delivered(x) \/ x = m)
    BY <1>d, <1>k, PairsAssumption DEF Delivered
  <1>1. ListInv' /\ FreshInv' /\ HandInv'
    BY <1>a, <1>b, <1>c, <1>f, <1>g DEF ListInv, FreshInv, HandInv
  <1>2. MessageInv'
    <2>1. \A x \in dropped : x \in Senders /\ (x \notin raced => x # m)
      BY <1>e DEF Types, ResultType
    <2>2. \A x \in Senders \ raced : \A u \in Threads : InHandsOf(x, u)' => InHandsOf(x, u) /\ x # m
      BY <1>e, <1>h, <1>i
    <2> QED
      BY <1>a, <1>b, <1>c, <1>e, <1>g, <1>l, <2>1, <2>2 DEF MessageInv
  <1>3. ChatInv'
    <2>1. \A x \in Members(chat'[p]) : PairOf[x] = p /\ pc'[x] \in {"queued", "sent", "raised"}
      BY <1>a, <1>b, <1>c, <1>d, <1>k DEF ChatInv
    <2> QED
      BY <1>a, <1>c, <1>k, <2>1 DEF ChatInv
  <1>4. Tracks
    <2>1. \A x \in Senders : /\ Accounted(x)' <=> \/ Waits(x)' \/ \E u \in Threads : InHandsOf(x, u)'
                                                  \/ Delivered(x)' \/ x \in dropped'
      BY DEF Accounted, Waits, InHands, InHandsOf
    <2> QED
      BY <1>c, <1>g, <1>h, <1>i, <1>l, <2>1, AccountedIs DEF Tracks
  <1> QED
    BY <1>1, <1>2, <1>3, <1>4 DEF Inv

\* A flush ends: there was nothing, or all is sent, or the rest is logged as dropped.
LEMMA EndsKeep ==
    ASSUME Types, Inv, NEW t \in Threads,
           PopEmpty(t) \/ FlushFails(t) \/ FlushEnds(t)
    PROVE  Inv' /\ Tracks
  <1>a. /\ NoList \notin Lists /\ ThreadOK(t) /\ Senders \subseteq Threads /\ ThreadType
        /\ ListInv /\ FreshInv /\ HandInv /\ MessageInv /\ ChatInv
    BY NoListIsNone DEF Types, ThreadType, Threads, Inv
  <1>b. /\ pc[t] \in {"popping", "sending"}
        /\ Flushing(t) /\ Key(t) \in Pairs
    <2>1. pc[t] \in {"popping", "sending"}
      BY DEF PopEmpty, FlushFails, FlushEnds, At
    <2>2. Flushing(t)
      BY <1>a, <2>1 DEF ThreadOK
    <2> QED
      BY <1>a, <2>1, <2>2, KeyType
  <1>c. /\ text' = text /\ raced' = raced /\ pos' = pos /\ Others(t) /\ held'[t] = NoList
        /\ job'[t] = Tail(job[t]) /\ pc'[t] \in {"live", "done", "flush"}
        /\ pc'[t] = "flush" => job'[t] # <<>>
    <2>1. Finish(t) /\ held'[t] = NoList /\ \A u \in Threads : u # t => held'[u] = held[u]
      BY <1>a, <1>b
         DEF PopEmpty, FlushFails, FlushEnds, At, ThreadType, ThreadOK, Joining
    <2>2. text' = text /\ raced' = raced /\ pos' = pos
      BY DEF PopEmpty, FlushFails, FlushEnds, lists, results
    <2> QED
      BY <1>a, <1>b, <2>1, <2>2, FinishFacts DEF Others, Mine
  <1>d. \A r \in Pairs : queue'[r] \in {queue[r], NoList} /\ Listed(r)' = Listed(r)
    <2>1. CASE PopEmpty(t)
      <3>1. queue' = [queue EXCEPT ![Key(t)] = NoList] /\ Listed(Key(t)) = {}
        BY <2>1 DEF PopEmpty
      <3>2. queue'[Key(t)] = NoList /\ \A r \in Pairs : r # Key(t) => queue'[r] = queue[r]
        BY <1>b, <3>1 DEF Types, ListType
      <3>3. \A r \in Pairs : r # Key(t) => Listed(r)' = Listed(r)
        BY <1>c, <3>2 DEF Listed
      <3>4. \A r \in Pairs : r = Key(t) => Listed(r)' = {} /\ Listed(r) = {}
        BY <3>1, <3>2 DEF Listed
      <3> QED
        BY <3>2, <3>3, <3>4
    <2>2. CASE FlushFails(t) \/ FlushEnds(t)
      <3>1. queue' = queue
        BY <2>2 DEF FlushFails, FlushEnds, lists
      <3> QED
        BY <1>c, <3>1 DEF Listed
    <2> QED
      BY <2>1, <2>2
  <1>e. \A m : m \in dropped' <=> m \in dropped \/ InHandsOf(m, t)
    <2>1. CASE PopEmpty(t)
      BY <2>1 DEF PopEmpty, At, InHandsOf, results
    <2>2. CASE FlushEnds(t)
      <3>1. /\ pc[t] = "sending" /\ dropped' = dropped /\ pos[t] > Len(text[held[t]])
        BY <2>2 DEF FlushEnds, At, results
      <3>2. Len(text[held[t]]) \in Nat /\ pos[t] \in Nat
        BY <1>a, <3>1 DEF ThreadType, ThreadOK, Types, ListType
      <3> QED
        BY <3>1, <3>2 DEF InHandsOf
    <2>3. CASE FlushFails(t)
      BY <2>3 DEF FlushFails, At, InHandsOf
    <2> QED
      BY <2>1, <2>2, <2>3
  <1>f. \A u \in Threads :
           u # t => pc'[u] = pc[u] /\ held'[u] = held[u] /\ Key(u)' = Key(u)
    BY <1>b, <1>c, OthersFacts
  <1>g. /\ \A u \in Threads : Ahead(u)' \subseteq Ahead(u)
        /\ \A u \in Senders : ~HasTaken(u)' => ~HasTaken(u)
    <2>1. Ahead(t)' \subseteq Ahead(t)
      <3>1. CASE pc'[t] = "flush"
        BY <1>b, <1>c, <3>1, JobFacts DEF Ahead, Flushing
      <3>2. CASE pc'[t] # "flush"
        BY <1>c, <3>2 DEF Ahead
      <3> QED
        BY <3>1, <3>2
    <2>2. ~HasTaken(t)
      BY <1>b DEF HasTaken, Joining
    <2> QED
      BY <1>c, <2>1, <2>2, <1>a, OthersFacts
  <1>h. /\ \A l : Has(l)' = Has(l)
        /\ \A l \in Lists : Unused(l) => Unused(l)'
    BY <1>a, <1>c, <1>d, <1>f DEF Has, Unused
  <1>i. \A m \in Senders :
           /\ Waits(m)' <=> Waits(m)
           /\ \A u \in Threads : InHandsOf(m, u)' <=> (InHandsOf(m, u) /\ u # t)
    BY <1>c, <1>d, <1>f, PairsAssumption DEF Waits, InHandsOf
  <1>m. \/ chat' = chat /\ doubted' = doubted
        \/ \E m : /\ InHandsOf(m, t) /\ doubted' = doubted \cup {m}
                  /\ chat' = [chat EXCEPT ![Key(t)] = Append(chat[Key(t)], m)]
    <2>1. CASE PopEmpty(t) \/ FlushEnds(t)
      BY <2>1 DEF PopEmpty, FlushEnds, results
    <2>2. CASE FlushFails(t)
      <3>1. text[held[t]] \in Seq(Senders) /\ pos[t] \in Nat
        BY <1>a, <2>2 DEF FlushFails, At, ThreadOK, ThreadType, Types, ListType
      <3>2. InHandsOf(text[held[t]][pos[t]], t)
        BY <2>2, <3>1 DEF FlushFails, At, InHandsOf
      <3> QED
        BY <2>2, <3>2 DEF FlushFails, Raises
    <2> QED
      BY <2>1, <2>2
  <1>n. /\ doubted \subseteq doubted'
        /\ \A r \in Pairs : /\ Once(chat'[r], raced) /\ Members(chat[r]) \subseteq Members(chat'[r])
                            /\ \A m \in Members(chat'[r]) :
                                  \/ m \in Members(chat[r])
                                  \/ InHandsOf(m, t) /\ m \in doubted' /\ r = Key(t)
    <2>1. CASE chat' = chat /\ doubted' = doubted
      BY <1>a, <2>1 DEF ChatInv
    <2>2. ASSUME NEW m, InHandsOf(m, t), doubted' = doubted \cup {m},
                 chat' = [chat EXCEPT ![Key(t)] = Append(chat[Key(t)], m)]
          PROVE  /\ doubted \subseteq doubted'
                 /\ \A r \in Pairs :
                       /\ Once(chat'[r], raced) /\ Members(chat[r]) \subseteq Members(chat'[r])
                       /\ \A x \in Members(chat'[r]) :
                             \/ x \in Members(chat[r])
                             \/ InHandsOf(x, t) /\ x \in doubted' /\ r = Key(t)
      <3>1. m \in Senders /\ PairOf[m] = Key(t)
        BY <1>a, <2>2, HandFacts
      <3>2. chat[Key(t)] \in Seq(Senders) /\ Key(t) \in DOMAIN chat
        BY <1>b DEF Types, ResultType
      <3>3. /\ chat'[Key(t)] = Append(chat[Key(t)], m)
            /\ \A r \in Pairs : r # Key(t) => chat'[r] = chat[r]
        BY <2>2, <3>2
      <3>4. m \in Members(chat[Key(t)]) => m \in raced
        BY <1>a, <2>2, <3>1 DEF MessageInv, Delivered
      <3>5. /\ Once(chat'[Key(t)], raced)
            /\ Members(chat'[Key(t)]) = Members(chat[Key(t)]) \cup {m}
        BY <1>a, <1>b, <3>1, <3>2, <3>3, <3>4, OnceAppend, MembersOfAppend DEF ChatInv
      <3> QED
        BY <1>a, <2>2, <3>3, <3>5 DEF ChatInv
    <2> QED
      BY <1>m, <2>1, <2>2
  <1>o. \A m \in Senders : /\ Delivered(m) => Delivered(m)'
                           /\ Delivered(m)' => Delivered(m) \/ (InHandsOf(m, t) /\ m \in doubted')
    BY <1>n, PairsAssumption DEF Delivered
  <1>l. \A m \in Senders : pc[m] \in {"queued", "dropped", "sent", "raised"} => pc'[m] = pc[m]
    BY <1>a, <1>b, <1>f
  <1>1. ListInv'
    <2>1. \A l \in Lists : \A m \in Has(l) : m \in Senders
      BY MembersType DEF Has, Types, ListType
    <2>2. \A r \in Pairs : queue'[r] # NoList => ListPair(queue'[r]) = r
      BY <1>a, <1>d DEF ListInv
    <2>3. \A u \in Threads : held'[u] # NoList => ListPair(held'[u]) = Key(u)'
      BY <1>a, <1>c, <1>f DEF ListInv
    <2> QED
      BY <1>a, <1>c, <1>h, <1>l, <2>1, <2>2, <2>3 DEF ListInv
  <1>2. FreshInv'
    <2>1. \A u \in Threads, r \in Pairs, i \in {"new", "kept"} : <<u, r, i>> \in Lists
      BY DEF Lists
    <2>2. \A u \in Threads : Ahead(u) \subseteq Pairs
      BY AheadType
    <2>3. \A u \in Threads : \A r \in Ahead(u)' : Unused(<<u, r, "kept">>)'
      BY <1>a, <1>g, <1>h, <2>1, <2>2 DEF FreshInv
    <2>4. \A u \in Senders : ~HasTaken(u)' =>
             \A r \in Pairs : Unused(<<u, r, "new">>)' /\ text'[<<u, r, "new">>] = <<>>
      BY <1>a, <1>c, <1>g, <1>h, <2>1 DEF FreshInv
    <2> QED
      BY <2>3, <2>4 DEF FreshInv
  <1>3. HandInv'
    <2>1. \A u \in Threads : pc[u] = "sending" => held[u] # NoList /\ Key(u) \in Pairs
      <3>1. ASSUME NEW u \in Threads, pc[u] = "sending" PROVE held[u] # NoList /\ Key(u) \in Pairs
        BY <3>1, KeyType DEF Types, ThreadType, ThreadOK
      <3> QED
        BY <3>1
    <2>2. \A u \in Threads : pc'[u] = "sending" => u # t
      BY <1>c
    <2> QED
      BY <1>a, <1>d, <1>f, <2>1, <2>2 DEF HandInv
  <1>5. MessageInv'
    <2>1. \A m : InHandsOf(m, t) => /\ m \in Senders /\ pc[m] = "queued"
                                    /\ m \notin raced => ~Delivered(m) /\ ~Waits(m)
      BY <1>a, HandFacts DEF MessageInv
    <2>2. ASSUME NEW m \in dropped'
          PROVE  /\ m \in Senders /\ pc'[m] \in {"queued", "dropped"}
                 /\ m \notin doubted' \cup raced => ~Delivered(m)'
      <3>1. CASE m \in dropped
        BY <1>a, <1>b, <1>l, <1>n, <1>o, <3>1 DEF MessageInv, Types, ResultType
      <3>2. CASE InHandsOf(m, t)
        BY <1>l, <1>n, <1>o, <2>1, <3>2
      <3> QED
        BY <1>e, <2>2, <3>1, <3>2
    <2>3. ASSUME NEW m \in Senders \ raced, NEW u \in Threads, InHandsOf(m, u)'
          PROVE  /\ ~Waits(m) /\ ~Delivered(m)' /\ m \notin dropped'
                 /\ \A v \in Threads : InHandsOf(m, v)' => v = u
      <3>1. InHandsOf(m, u) /\ u # t
        BY <1>i, <2>3
      <3>2. /\ ~Waits(m) /\ ~Delivered(m) /\ m \notin dropped
            /\ \A v \in Threads : InHandsOf(m, v) => v = u
        BY <1>a, <3>1 DEF MessageInv
      <3> QED
        BY <1>e, <1>i, <1>o, <3>1, <3>2
    <2>4. ASSUME NEW m \in Senders \ raced, Waits(m) PROVE ~Delivered(m)'
      BY <1>a, <1>o, <2>4 DEF MessageInv
    <2> QED
      BY <1>c, <1>i, <2>2, <2>3, <2>4 DEF MessageInv
  <1>6. ChatInv'
    <2>1. \A r \in Pairs : Members(chat[r]) \subseteq Senders
      BY MembersType DEF Types, ResultType
    <2> QED
      <3>1. ASSUME NEW r \in Pairs, NEW m \in Members(chat'[r])
            PROVE  PairOf[m] = r /\ pc'[m] \in {"queued", "sent", "raised"}
        <4>1. CASE m \in Members(chat[r])
          BY <1>a, <1>l, <2>1, <4>1 DEF ChatInv
        <4>2. CASE InHandsOf(m, t) /\ r = Key(t)
          BY <1>a, <1>l, <4>2, HandFacts
        <4> QED
          BY <1>n, <3>1, <4>1, <4>2
      <3> QED
        BY <1>c, <1>n, <3>1 DEF ChatInv
  <1>7. Tracks
    <2>1. \A m \in Senders : /\ Accounted(m)' <=> \/ Waits(m)' \/ \E u \in Threads : InHandsOf(m, u)'
                                                  \/ Delivered(m)' \/ m \in dropped'
      BY DEF Accounted, Waits, InHands, InHandsOf
    <2> QED
      BY <1>e, <1>i, <1>o, <2>1, AccountedIs DEF Tracks
  <1> QED
    BY <1>1, <1>2, <1>3, <1>5, <1>6, <1>7 DEF Inv
-----------------------------------------------------------------------------
LEMMA InvStep == Types /\ Inv /\ [Next]_vars => Inv' /\ Tracks
  <1> SUFFICES ASSUME Types, Inv, [Next]_vars PROVE Inv' /\ Tracks
    OBVIOUS
  <1>1. ASSUME NEW s \in Senders, Enqueue(s) PROVE Inv' /\ Tracks
    BY <1>1, QuietSteps, TakeKeeps, AppendKeeps, LiveKeeps DEF Enqueue, Threads
  <1>2. ASSUME NEW e \in Events, OnVerified(e) PROVE Inv' /\ Tracks
    BY <1>2, QuietSteps DEF Threads
  <1>3. ASSUME NEW t \in Threads, Flush(t) PROVE Inv' /\ Tracks
    BY <1>3, QuietSteps, ScanKeeps, RebindKeeps, PopKeeps, OneKeeps, EndsKeep DEF Flush
  <1>4. ASSUME NEW p \in Pairs, Verify(p) PROVE Inv' /\ Tracks
    BY <1>4, NoThreadMoves DEF Verify, lists, local, results
  <1>5. CASE UNCHANGED vars
    BY <1>5, NoThreadMoves DEF vars
  <1> QED
    BY <1>1, <1>2, <1>3, <1>4, <1>5 DEF Next

LEMMA InvAlways == Spec => [](Types /\ Inv)
  <1>1. Types /\ Inv /\ [Next]_vars => Inv'
    BY InvStep
  <1> QED
    BY <1>1, InitTypes, InitInv, TypesStep, PTL DEF Spec

\* However many requests and events flush a pair at once, each message is sent once,
\* but for an age-out that raced (relay.py:1613-1620): a list that is popped
\* (relay.py:1735) is in one thread's hands.
THEOREM SentOnce == Spec => []DeliveredOnce
  <1>1. Inv => DeliveredOnce
    BY DEF Inv, ChatInv, Once, DeliveredOnce
  <1> QED
    BY <1>1, InvAlways, PTL

\* What a failed flush or an age-out logs as dropped (relay.py:1616, 1746) was not
\* sent before and is not sent afterwards, unless the failed send landed or the
\* age-out raced.
THEOREM DroppedIsUndelivered == Spec => []DroppedMeansUndelivered
  <1>1. Inv => DroppedMeansUndelivered
    BY DEF Inv, MessageInv, DroppedMeansUndelivered
  <1> QED
    BY <1>1, InvAlways, PTL

\* No step loses track of a message that is in its pair's queue or in the hands of the
\* thread that sends it, but an age-out that puts back a copy which lacks it.
THEOREM TrackedForever == Spec => NothingFallsOut
  <1>1. Types /\ Inv /\ [Next]_vars
           => [\A m \in Senders : Accounted(m) => Accounted(m)' \/ m \in raced']_vars
    BY InvStep DEF Tracks
  <1> QED
    BY <1>1, InvAlways, PTL DEF Spec, NothingFallsOut
-----------------------------------------------------------------------------
(* The order of the queue.  A message that was ahead of another in some list *)
(* is ahead of it in every list that holds that one, or was dropped.         *)

LineInv ==
    \A l, k \in Lists : \A m, n \in Senders :
        Before(m, n, text[l]) /\ n \in Has(k) => m \in dropped \/ Before(m, n, text[k])

\* What a thread has passed in the list it sends was sent.
PassedInv ==
    \A t \in Threads : pc[t] = "sending" =>
        /\ pos[t] <= Len(text[held[t]]) + 1
        /\ \A i \in 1..(pos[t] - 1) : text[held[t]][i] \in Members(chat[Key(t)])

OrderInv == LineInv /\ PassedInv /\ SentInOrder

LEMMA BeforeMembers ==
    ASSUME NEW m, NEW n, NEW s, Before(m, n, s)
    PROVE  m \in Members(s) /\ n \in Members(s)
  BY DEF Before, Members

LEMMA BeforeAppend ==
    ASSUME NEW S, NEW s \in Seq(S), NEW x \in S, NEW m, NEW n
    PROVE  Before(m, n, Append(s, x)) <=> Before(m, n, s) \/ (n = x /\ m \in Members(s))
  <1>1. /\ \A i \in 1..Len(s) : Append(s, x)[i] = s[i]
        /\ Append(s, x)[Len(s) + 1] = x
        /\ DOMAIN Append(s, x) = 1..(Len(s) + 1) /\ DOMAIN s = 1..Len(s) /\ Len(s) \in Nat
    OBVIOUS
  <1>2. ASSUME Before(m, n, Append(s, x)) PROVE Before(m, n, s) \/ (n = x /\ m \in Members(s))
    <2>1. PICK i, j \in 1..(Len(s) + 1) : i < j /\ Append(s, x)[i] = m /\ Append(s, x)[j] = n
      BY <1>1, <1>2 DEF Before
    <2>2. i \in 1..Len(s) /\ s[i] = m
      BY <1>1, <2>1
    <2>3. j = Len(s) + 1 \/ (j \in 1..Len(s) /\ s[j] = n)
      BY <1>1, <2>1
    <2> QED
      BY <1>1, <2>1, <2>2, <2>3 DEF Before, Members
  <1>3. ASSUME Before(m, n, s) PROVE Before(m, n, Append(s, x))
    <2>1. PICK i, j \in 1..Len(s) : i < j /\ s[i] = m /\ s[j] = n
      BY <1>1, <1>3 DEF Before
    <2> QED
      BY <1>1, <2>1 DEF Before
  <1>4. ASSUME n = x, m \in Members(s) PROVE Before(m, n, Append(s, x))
    <2>1. PICK i \in 1..Len(s) : s[i] = m
      BY <1>1, <1>4 DEF Members
    <2>2. i < Len(s) + 1 /\ i \in 1..(Len(s) + 1) /\ Len(s) + 1 \in 1..(Len(s) + 1)
      BY <1>1, <2>1
    <2> QED
      BY <1>1, <1>4, <2>1, <2>2 DEF Before
  <1> QED
    BY <1>2, <1>3, <1>4

\* Without keeps the order of what is left.
LEMMA BeforeWithout ==
    ASSUME NEW S, NEW s \in Seq(S), NEW old, NEW r \in Without(s, old), NEW m, NEW n
    PROVE  /\ Before(m, n, r) => Before(m, n, s)
           /\ Before(m, n, s) /\ m \notin old /\ n \in Members(r) => Before(m, n, r)
  <1> DEFINE young == {i \in DOMAIN s : s[i] \notin old}
  <1>0. PICK k \in 0..Len(s) : \E f \in [1..k -> young] :
           /\ Members(f) = young
           /\ \A i, j \in DOMAIN f : i < j => f[i] < f[j]
           /\ r = [i \in DOMAIN f |-> s[f[i]]]
    BY DEF Without
  <1>1. PICK f \in [1..k -> young] :
           /\ Members(f) = young
           /\ \A i, j \in 1..k : i < j => f[i] < f[j]
           /\ r = [i \in 1..k |-> s[f[i]]]
    BY <1>0
  <1>2. /\ k \in Nat /\ \A i \in 1..k : f[i] \in DOMAIN s /\ f[i] \in Nat
        /\ DOMAIN r = 1..k /\ \A i \in 1..k : r[i] = s[f[i]]
    BY <1>1
  <1>3. Before(m, n, r) => Before(m, n, s)
    BY <1>1, <1>2 DEF Before
  <1>4. ASSUME Before(m, n, s), m \notin old, n \in Members(r) PROVE Before(m, n, r)
    <2>1. PICK i, j \in DOMAIN s : i < j /\ s[i] = m /\ s[j] = n
      BY <1>4 DEF Before
    <2>2. n \notin old
      BY <1>1, <1>2, <1>4 DEF Members
    <2>3. PICK a, b \in 1..k : f[a] = i /\ f[b] = j
      <3>1. i \in Members(f) /\ j \in Members(f)
        BY <1>1, <1>4, <2>1, <2>2
      <3> QED
        BY <3>1 DEF Members
    <2>4. a < b
      BY <1>1, <1>2, <2>1, <2>3
    <2> QED
      BY <1>2, <2>1, <2>3, <2>4 DEF Before
  <1> QED
    BY <1>3, <1>4

LEMMA InitOrder == Init => OrderInv
  <1> SUFFICES ASSUME Init PROVE OrderInv
    OBVIOUS
  <1>1. /\ \A l \in Lists : DOMAIN text[l] = {}
        /\ \A t \in Threads : pc[t] = "new"
    BY DEF Init
  <1> QED
    BY <1>1 DEF OrderInv, LineInv, PassedInv, SentInOrder, Before

\* What a thread that sends has: a list of messages and a pair.
LEMMA SendingFacts ==
    ASSUME Types, NEW t \in Threads, pc[t] = "sending"
    PROVE  /\ held[t] \in Lists /\ text[held[t]] \in Seq(Senders) /\ Key(t) \in Pairs
           /\ Len(text[held[t]]) \in Nat /\ pos[t] \in Nat /\ pos[t] >= 1 /\ Flushing(t)
  <1>1. held[t] \in Lists /\ pos[t] \in Nat /\ pos[t] >= 1 /\ Flushing(t)
    BY DEF Types, ThreadType, ThreadOK
  <1>2. text[held[t]] \in Seq(Senders)
    BY <1>1 DEF Types, ListType
  <1> QED
    BY <1>1, <1>2, KeyType DEF Types

\* A thread that goes on sending is where it was in its list.
Resumes(u) == /\ pc[u] = "sending" /\ held'[u] = held[u] /\ pos'[u] = pos[u]
              /\ Key(u)' = Key(u)

LEMMA PassedKeeps ==
    ASSUME Types, PassedInv, text' = text,
           \A r \in Pairs : Members(chat[r]) \subseteq Members(chat'[r]),
           \A u \in Threads : pc'[u] = "sending" =>
              Resumes(u) \/ (pos'[u] = 1 /\ held'[u] \in Lists)
    PROVE  PassedInv'
  <1> SUFFICES ASSUME NEW u \in Threads, pc'[u] = "sending"
               PROVE  /\ pos'[u] <= Len(text[held'[u]]) + 1
                      /\ \A i \in 1..(pos'[u] - 1) :
                            text[held'[u]][i] \in Members(chat'[Key(u)'])
    BY DEF PassedInv
  <1>1. CASE Resumes(u)
    BY <1>1, SendingFacts DEF Resumes, PassedInv
  <1>2. CASE pos'[u] = 1 /\ held'[u] \in Lists
    <2>1. Len(text[held'[u]]) \in Nat
      BY <1>2 DEF Types, ListType
    <2>2. 1..(pos'[u] - 1) = {}
      BY <1>2
    <2> QED
      BY <1>2, <2>1, <2>2
  <1> QED
    BY <1>1, <1>2

\* A step that sends nothing and leaves the lists as they are, wherever they go.
LEMMA StillKeeps ==
    ASSUME Types, OrderInv, text' = text, chat' = chat, dropped \subseteq dropped',
           \A u \in Threads : pc'[u] = "sending" =>
              Resumes(u) \/ (pos'[u] = 1 /\ held'[u] \in Lists)
    PROVE  OrderInv'
  <1>1. LineInv'
    BY DEF OrderInv, LineInv, Has
  <1>2. PassedInv'
    BY PassedKeeps DEF OrderInv
  <1>3. SentInOrder'
    BY DEF OrderInv, SentInOrder, Delivered
  <1> QED
    BY <1>1, <1>2, <1>3 DEF OrderInv

\* A message is sent when all that is ahead of it in some list was sent or dropped.
LEMMA SendKeeps ==
    ASSUME Types, LineInv, SentInOrder, PassedInv',
           NEW p \in Pairs, NEW x \in Senders, PairOf[x] = p,
           text' = text, dropped \subseteq dropped',
           chat' = [chat EXCEPT ![p] = Append(chat[p], x)],
           \A l \in Lists : \A m \in Senders :
              Before(m, x, text[l]) => m \in dropped \/ m \in Members(chat[p])
    PROVE  OrderInv'
  <1>1. LineInv'
    BY DEF LineInv, Has
  <1>2. /\ chat[p] \in Seq(Senders) /\ chat'[p] = Append(chat[p], x)
        /\ \A r \in Pairs : r # p => chat'[r] = chat[r]
    BY DEF Types, ResultType
  <1>3. ASSUME NEW l \in Lists, NEW m \in Senders, NEW n \in Senders,
               Before(m, n, text[l]), Delivered(n)'
        PROVE  m \in dropped' \/ Before(m, n, chat'[PairOf[n]])
    <2>1. PairOf[n] \in Pairs
      BY PairsAssumption
    <2>2. CASE Delivered(n)
      <3>1. m \in dropped \/ Before(m, n, chat[PairOf[n]])
        BY <1>3, <2>2 DEF SentInOrder
      <3>2. Before(m, n, chat[PairOf[n]]) => Before(m, n, chat'[PairOf[n]])
        BY <1>2, <2>1, BeforeAppend
      <3> QED
        BY <3>1, <3>2
    <2>3. CASE ~Delivered(n)
      <3>1. Members(chat'[p]) = Members(chat[p]) \cup {x}
        BY <1>2, MembersOfAppend
      <3>2. n = x
        BY <1>2, <1>3, <2>1, <2>3, <3>1 DEF Delivered
      <3>3. m \in Members(chat[p]) => Before(m, n, chat'[p])
        BY <1>2, <3>2, BeforeAppend
      <3> QED
        BY <1>3, <3>2, <3>3
    <2> QED
      BY <2>2, <2>3
  <1>4. SentInOrder'
    BY <1>3 DEF SentInOrder
  <1> QED
    BY <1>1, <1>4 DEF OrderInv

\* These steps send nothing.  Pop starts with the first message of a list.
LEMMA StillSteps ==
    ASSUME Types, Inv, OrderInv, NEW t \in Threads,
           \/ /\ t \in Senders
              /\ \/ Reject(t) \/ FindVerified(t) \/ FindUnverified(t)
                 \/ Take(t) \/ Join(t) \/ MarkInflight(t)
           \/ t \in Events /\ OnVerified(t)
           \/ AgeOutEmpty(t) \/ AgeOutRebind(t) \/ PopEmpty(t) \/ Pop(t) \/ FlushEnds(t)
    PROVE  OrderInv'
  <1> USE DEF core, lists, local, results
  <1>a. /\ ThreadOK(t) /\ ThreadType
        /\ t \in Events => t \notin Senders
    BY ThreadsAssumption DEF Types, ThreadType
  <1>1. /\ text' = text /\ chat' = chat /\ dropped \subseteq dropped' /\ Others(t)
        /\ pc'[t] = "sending" => pos'[t] = 1 /\ held'[t] \in Lists
    <2>1. CASE \/ t \in Senders /\ (Reject(t) \/ FindVerified(t) \/ FindUnverified(t))
               \/ t \in Senders /\ (Join(t) \/ MarkInflight(t))
               \/ t \in Events /\ (Report(t) \/ EventFlushes(t))
      BY <1>a, <2>1 DEF Reject, FindVerified, FindUnverified, Join, MarkInflight, Report,
                        EventFlushes, Others, Mine, ThreadType
    <2>2. CASE t \in Senders /\ Take(t)
      BY <1>a, <2>2 DEF Take, Others, Mine, ThreadType
    <2>3. CASE AgeOutEmpty(t) \/ AgeOutRebind(t)
      BY <1>a, <2>3 DEF AgeOutEmpty, AgeOutRebind, After, Others, Mine, ThreadType
    <2>4. CASE Pop(t)
      <3>1. Key(t) \in Pairs
        BY <1>a, <2>4, KeyType DEF Pop, At, ThreadOK
      <3>2. queue[Key(t)] \in Lists
        BY <2>4, <3>1 DEF Pop, Listed, Types, ListType
      <3> QED
        BY <1>a, <2>4, <3>2 DEF Pop, Others, Mine, ThreadType
    <2>5. CASE (t \in Events /\ EventMisses(t)) \/ PopEmpty(t) \/ FlushEnds(t)
      <3>1. Finish(t) /\ Flushing(t)
        BY <1>a, <2>5 DEF EventMisses, PopEmpty, FlushEnds, At, ThreadOK
      <3>2. /\ text' = text /\ chat' = chat /\ dropped' = dropped /\ pos' = pos
            /\ \A u \in Threads : u # t => held'[u] = held[u]
        BY <1>a, <2>5 DEF EventMisses, PopEmpty, FlushEnds, ThreadType
      <3> QED
        BY <1>a, <3>1, <3>2, FinishFacts DEF Others, Mine
    <2> QED
      BY <1>a, <2>1, <2>2, <2>3, <2>4, <2>5 DEF OnVerified
  <1>2. \A u \in Threads : pc'[u] = "sending" =>
           Resumes(u) \/ (pos'[u] = 1 /\ held'[u] \in Lists)
    BY <1>1, OthersFacts DEF Resumes
  <1> QED
    BY <1>1, <1>2, StillKeeps

\* A message sent at once is in no list, so no message is ahead of it in one.
LEMMA LiveOrder ==
    ASSUME Types, Inv, OrderInv, NEW s \in Senders, SendLive(s)
    PROVE  OrderInv'
  <1> DEFINE p == PairOf[s]
  <1>a. /\ s \in Threads /\ p \in Pairs /\ ListInv /\ pc[s] = "live"
        /\ chat[p] \in Seq(Senders)
    BY PairsAssumption DEF Types, ResultType, Threads, Inv, SendLive, At
  <1>b. /\ text' = text /\ job' = job /\ held' = held /\ pos' = pos /\ dropped' = dropped
        /\ Others(s) /\ pc'[s] \in {"raised", "sent"}
        /\ chat' = chat \/ chat' = [chat EXCEPT ![p] = Append(chat[p], s)]
    BY <1>a DEF SendLive, Lands, Raises, lists, local, Others, Mine, Types, ThreadType
  <1>c. \A u \in Threads : pc'[u] = "sending" => Resumes(u)
    BY <1>b, OthersFacts DEF Resumes
  <1>1. CASE chat' = chat
    BY <1>b, <1>c, <1>1, StillKeeps
  <1>2. CASE chat' = [chat EXCEPT ![p] = Append(chat[p], s)]
    <2>1. \A r \in Pairs : Members(chat[r]) \subseteq Members(chat'[r])
      <3>1. chat'[p] = Append(chat[p], s) /\ \A r \in Pairs : r # p => chat'[r] = chat[r]
        BY <1>a, <1>2 DEF Types, ResultType
      <3>2. Members(chat'[p]) = Members(chat[p]) \cup {s}
        BY <1>a, <3>1, MembersOfAppend
      <3> QED
        BY <3>1, <3>2
    <2>2. PassedInv'
      BY <1>b, <1>c, <2>1, PassedKeeps DEF OrderInv
    <2>3. \A l \in Lists : \A m \in Senders : ~Before(m, s, text[l])
      BY <1>a, BeforeMembers DEF ListInv, Has
    <2> QED
      BY <1>a, <1>b, <1>2, <2>2, <2>3, SendKeeps DEF OrderInv
  <1> QED
    BY <1>b, <1>1, <1>2

\* The message a flush sends comes after what the thread has passed in its list.
LEMMA HeadIsNext ==
    ASSUME Types, Inv, OrderInv, NEW t \in Threads, pc[t] = "sending",
           pos[t] <= Len(text[held[t]])
    PROVE  LET x == text[held[t]][pos[t]]
           IN /\ x \in Senders /\ PairOf[x] = Key(t)
              /\ \A l \in Lists : \A m \in Senders :
                    Before(m, x, text[l]) => m \in dropped \/ m \in Members(chat[Key(t)])
  <1>0. PICK h, i, x : h = held[t] /\ i = pos[t] /\ x = text[h][i]
    OBVIOUS
  <1>1. /\ h \in Lists /\ text[h] \in Seq(Senders) /\ i \in 1..Len(text[h])
        /\ Len(text[h]) \in Nat /\ DOMAIN text[h] = 1..Len(text[h])
    BY <1>0, SendingFacts
  <1>2. InHandsOf(x, t) /\ ListInv
    BY <1>0, <1>1 DEF InHandsOf, Inv
  <1>3. x \in Senders /\ PairOf[x] = Key(t) /\ x \in Has(h)
    BY <1>0, <1>2, HandFacts
  <1>4. ASSUME NEW l \in Lists, NEW m \in Senders, Before(m, x, text[l]), m \notin dropped
        PROVE  m \in Members(chat[Key(t)])
    <2>1. Before(m, x, text[h])
      BY <1>1, <1>3, <1>4 DEF OrderInv, LineInv
    <2>2. PICK a, b \in DOMAIN text[h] : a < b /\ text[h][a] = m /\ text[h][b] = x
      BY <2>1 DEF Before
    <2>3. b = i
      BY <1>0, <1>1, <1>2, <2>2 DEF ListInv, Injective
    <2>4. a \in 1..(i - 1)
      BY <1>1, <2>2, <2>3
    <2> QED
      BY <1>0, <2>2, <2>4 DEF OrderInv, PassedInv
  <1> QED
    BY <1>0, <1>3, <1>4

\* A flush sends the next message.
LEMMA OneOrder ==
    ASSUME Types, Inv, OrderInv, NEW t \in Threads, FlushOne(t)
    PROVE  OrderInv'
  <1>0. PICK p, h, i, x : p = Key(t) /\ h = held[t] /\ i = pos[t] /\ x = text[h][i]
    OBVIOUS
  <1>a. /\ pc[t] = "sending" /\ p \in Pairs /\ h \in Lists /\ text[h] \in Seq(Senders)
        /\ i \in 1..Len(text[h]) /\ Len(text[h]) \in Nat /\ chat[p] \in Seq(Senders)
    BY <1>0, SendingFacts DEF FlushOne, At, Types, ResultType
  <1>b. /\ text' = text /\ job' = job /\ pc' = pc /\ held' = held /\ dropped' = dropped
        /\ pos'[t] = i + 1 /\ \A u \in Threads : u # t => pos'[u] = pos[u]
        /\ chat' = [chat EXCEPT ![p] = Append(chat[p], x)]
    BY <1>0 DEF FlushOne, Lands, lists, Types, ThreadType
  <1>c. /\ x \in Senders /\ PairOf[x] = p
        /\ \A l \in Lists : \A m \in Senders :
              Before(m, x, text[l]) => m \in dropped \/ m \in Members(chat[p])
    BY <1>0, <1>a, HeadIsNext
  <1>d. /\ x \in Members(chat'[p])
        /\ \A r \in Pairs : Members(chat[r]) \subseteq Members(chat'[r])
    <2>1. chat'[p] = Append(chat[p], x) /\ \A r \in Pairs : r # p => chat'[r] = chat[r]
      BY <1>a, <1>b DEF Types, ResultType
    <2>2. Members(chat'[p]) = Members(chat[p]) \cup {x}
      BY <1>a, <1>c, <2>1, MembersOfAppend
    <2> QED
      BY <2>1, <2>2
  <1>1. PassedInv'
    <2>1. ASSUME NEW u \in Threads, pc[u] = "sending", u # t
          PROVE  /\ pos'[u] <= Len(text[held[u]]) + 1
                 /\ \A j \in 1..(pos'[u] - 1) : text[held[u]][j] \in Members(chat'[Key(u)])
      BY <1>b, <1>d, <2>1, SendingFacts DEF OrderInv, PassedInv
    <2>2. /\ i + 1 <= Len(text[h]) + 1 /\ \A j \in 1..i : j = i \/ j \in 1..(i - 1)
          /\ (i + 1) - 1 = i
      BY <1>a
    <2>3. \A j \in 1..i : text[h][j] \in Members(chat'[p])
      BY <1>0, <1>a, <1>d, <2>2 DEF OrderInv, PassedInv
    <2>4. \A u \in Threads : Key(u)' = Key(u)
      BY <1>b DEF Key, Flushing
    <2> QED
      BY <1>0, <1>b, <2>1, <2>2, <2>3, <2>4 DEF PassedInv
  <1> QED
    BY <1>a, <1>b, <1>c, <1>1, SendKeeps DEF OrderInv

\* A send that raises may have landed.
LEMMA FailOrder ==
    ASSUME Types, Inv, OrderInv, NEW t \in Threads, FlushFails(t)
    PROVE  OrderInv'
  <1>0. PICK p, x : p = Key(t) /\ x = text[held[t]][pos[t]]
    OBVIOUS
  <1>a. /\ pc[t] = "sending" /\ p \in Pairs /\ Flushing(t) /\ chat[p] \in Seq(Senders)
        /\ ThreadType
    BY <1>0, SendingFacts DEF FlushFails, At, Types, ResultType
  <1>b. /\ x \in Senders /\ PairOf[x] = p
        /\ \A l \in Lists : \A m \in Senders :
              Before(m, x, text[l]) => m \in dropped \/ m \in Members(chat[p])
    BY <1>0, <1>a, HeadIsNext DEF FlushFails
  <1>c. /\ text' = text /\ dropped \subseteq dropped'
        /\ chat' = chat \/ chat' = [chat EXCEPT ![p] = Append(chat[p], x)]
    BY <1>0 DEF FlushFails, Raises, lists
  <1>d. \A u \in Threads : pc'[u] = "sending" => Resumes(u)
    <2>1. Finish(t) /\ pos' = pos /\ \A u \in Threads : u # t => held'[u] = held[u]
      BY <1>a DEF FlushFails, ThreadType
    <2>2. Others(t) /\ pc'[t] # "sending"
      BY <1>a, <2>1, FinishFacts DEF Others, Mine
    <2> QED
      BY <2>2, OthersFacts DEF Resumes
  <1>1. CASE chat' = chat
    BY <1>c, <1>d, <1>1, StillKeeps
  <1>2. CASE chat' = [chat EXCEPT ![p] = Append(chat[p], x)]
    <2>1. \A r \in Pairs : Members(chat[r]) \subseteq Members(chat'[r])
      <3>1. chat'[p] = Append(chat[p], x) /\ \A r \in Pairs : r # p => chat'[r] = chat[r]
        BY <1>a, <1>2 DEF Types, ResultType
      <3>2. Members(chat'[p]) = Members(chat[p]) \cup {x}
        BY <1>a, <1>b, <3>1, MembersOfAppend
      <3> QED
        BY <3>1, <3>2
    <2>2. PassedInv'
      BY <1>c, <1>d, <2>1, PassedKeeps DEF OrderInv
    <2> QED
      BY <1>a, <1>b, <1>c, <1>2, <2>2, SendKeeps DEF OrderInv
  <1> QED
    BY <1>c, <1>1, <1>2

\* What is appended comes after all that its list holds, and is in no other.
LEMMA AppendOrder ==
    ASSUME Types, Inv, OrderInv, NEW s \in Senders, AppendTo(s)
    PROVE  OrderInv'
  <1>0. PICK h : h = held[s]
    OBVIOUS
  <1>a. /\ s \in Threads /\ ThreadOK(s) /\ ListInv /\ ChatInv /\ pc[s] = "appending"
        /\ LineInv /\ PassedInv /\ SentInOrder
    BY DEF Types, ThreadType, Threads, Inv, OrderInv, AppendTo, At
  <1>b. /\ job' = job /\ pos' = pos /\ chat' = chat /\ dropped' = dropped
        /\ pc'[s] = "queued" /\ Others(s)
    BY <1>a DEF AppendTo, results, Others, Mine, Types, ThreadType
  <1>c. h \in Lists
    BY <1>0, <1>a DEF ThreadOK, Joining, Types, ThreadType
  <1>d. /\ text[h] \in Seq(Senders) /\ text'[h] = Append(text[h], s)
        /\ \A l \in Lists : l # h => text'[l] = text[l]
    BY <1>0, <1>c DEF AppendTo, Types, ListType
  <1>e. \A l \in Lists : s \notin Has(l)
    BY <1>a DEF ListInv
  <1>f. ~Delivered(s)
    BY <1>a, PairsAssumption DEF ChatInv, Delivered
  <1>g. ASSUME NEW l \in Lists, NEW m \in Senders, NEW n \in Senders
        PROVE  /\ Before(m, n, text[l]) => Before(m, n, text'[l])
               /\ Before(m, n, text'[l]) => Before(m, n, text[l]) \/ (l = h /\ n = s)
               /\ n \in Has(l)' => n \in Has(l) \/ (l = h /\ n = s)
    <2>1. CASE l = h
      <3>1. Before(m, n, text'[h]) <=> Before(m, n, text[h]) \/ (n = s /\ m \in Members(text[h]))
        BY <1>d, BeforeAppend
      <3>2. Members(text'[h]) = Members(text[h]) \cup {s}
        BY <1>d, MembersOfAppend
      <3> QED
        BY <2>1, <3>1, <3>2 DEF Has
    <2>2. CASE l # h
      BY <1>d, <2>2 DEF Has
    <2> QED
      BY <2>1, <2>2
  <1>1. LineInv'
    <2>1. ASSUME NEW l \in Lists, NEW k \in Lists, NEW m \in Senders, NEW n \in Senders,
                 Before(m, n, text'[l]), n \in Has(k)'
          PROVE  m \in dropped \/ Before(m, n, text'[k])
      <3>1. CASE n = s
        <4>1. ~Before(m, s, text[l])
          BY <1>e, BeforeMembers DEF Has
        <4> QED
          BY <1>e, <1>g, <2>1, <3>1, <4>1
      <3>2. CASE n # s
        <4>1. Before(m, n, text[l]) /\ n \in Has(k)
          BY <1>g, <2>1, <3>2
        <4> QED
          BY <1>a, <1>g, <4>1 DEF LineInv
      <3> QED
        BY <3>1, <3>2
    <2> QED
      BY <1>b, <2>1 DEF LineInv
  <1>2. PassedInv'
    <2>1. ASSUME NEW u \in Threads, pc'[u] = "sending"
          PROVE  /\ pos'[u] <= Len(text'[held'[u]]) + 1
                 /\ \A i \in 1..(pos'[u] - 1) : text'[held'[u]][i] \in Members(chat'[Key(u)'])
      <3>1. Resumes(u)
        BY <1>b, <2>1, OthersFacts DEF Resumes
      <3>2. /\ pos[u] <= Len(text[held[u]]) + 1
            /\ \A i \in 1..(pos[u] - 1) : text[held[u]][i] \in Members(chat[Key(u)])
        BY <1>a, <3>1 DEF PassedInv, Resumes
      <3>3. CASE held[u] # h
        BY <1>b, <1>d, <3>1, <3>2, <3>3, SendingFacts DEF Resumes
      <3>4. CASE held[u] = h
        <4>1. /\ Len(text'[h]) = Len(text[h]) + 1 /\ Len(text[h]) \in Nat
              /\ \A i \in 1..Len(text[h]) : text'[h][i] = text[h][i]
          BY <1>d
        <4>2. pos[u] \in Nat /\ \A i \in 1..(pos[u] - 1) : i \in 1..Len(text[h])
          BY <3>1, <3>2, <3>4, <4>1, SendingFacts DEF Resumes
        <4> QED
          BY <1>b, <3>1, <3>2, <3>4, <4>1, <4>2 DEF Resumes
      <3> QED
        BY <3>3, <3>4
    <2> QED
      BY <2>1 DEF PassedInv
  <1>3. SentInOrder'
    <2>1. \A n : Delivered(n)' <=> Delivered(n)
      BY <1>b DEF Delivered
    <2> QED
      BY <1>a, <1>b, <1>f, <1>g, <2>1 DEF SentInOrder
  <1> QED
    BY <1>1, <1>2, <1>3 DEF OrderInv

\* The copy of an age-out has the order of the list it is made of.
LEMMA ScanOrder ==
    ASSUME Types, Inv, OrderInv, NEW t \in Threads, AgeOutScan(t)
    PROVE  OrderInv'
  <1>0. PICK p, k : p = Key(t) /\ k = Kept(t)
    OBVIOUS
  <1>a. /\ ThreadOK(t) /\ ListInv /\ FreshInv /\ LineInv /\ PassedInv /\ SentInOrder
        /\ pc[t] \in {"flush", "queueing"}
    BY DEF Types, ThreadType, Inv, OrderInv, AgeOutScan, Due, At
  <1>b. p \in Pairs /\ k = <<t, p, "kept">> /\ k \in Lists /\ Unused(k)
    <2>1. Flushing(t) \/ t \in Senders
      BY <1>a DEF ThreadOK
    <2>2. p \in Pairs
      BY <1>0, <2>1, KeyType DEF Types
    <2>3. p \in Ahead(t)
      <3>1. CASE Flushing(t)
        BY <1>0, <1>a, <3>1, JobFacts DEF Ahead, ThreadOK
      <3>2. CASE ~Flushing(t)
        BY <1>0, <1>a, <3>2 DEF Ahead, Key
      <3> QED
        BY <3>1, <3>2
    <2> QED
      BY <1>0, <1>a, <2>2, <2>3 DEF Kept, Lists, FreshInv
  <1>c. /\ job' = job /\ held' = held /\ pos' = pos /\ chat' = chat
        /\ pc'[t] = "rebinding" /\ Others(t) /\ Listed(p) # {}
    BY <1>0 DEF AgeOutScan, local, Others, Mine, Types, ThreadType
  <1>d. PICK old \in SUBSET Listed(p) :
           /\ dropped' = dropped \cup old
           /\ \E rest \in Without(text[queue[p]], old) : text' = [text EXCEPT ![k] = rest]
    BY <1>0 DEF AgeOutScan, Kept
  <1>e. PICK rest \in Without(text[queue[p]], old) : text' = [text EXCEPT ![k] = rest]
    BY <1>d
  <1>q. PICK q : q = queue[p]
    OBVIOUS
  <1>f. q \in Lists /\ q # k /\ text[q] \in Seq(Senders)
    BY <1>b, <1>c, <1>q DEF Listed, Unused, Types, ListType
  <1>g. text'[k] = rest /\ \A l \in Lists : l # k => text'[l] = text[l]
    BY <1>b, <1>e DEF Types, ListType
  <1>h. \A m, n : /\ Before(m, n, rest) => Before(m, n, text[q])
                  /\ Before(m, n, text[q]) /\ m \notin old /\ n \in Members(rest)
                        => Before(m, n, rest)
    BY <1>f, <1>q, BeforeWithout
  <1>i. Members(rest) \subseteq Has(q)
    BY <1>f, <1>q, WithoutFacts DEF Has
  \* What was ahead in some list is so in one that is not the copy.
  <1>j. ASSUME NEW l \in Lists, NEW m \in Senders, NEW n \in Senders, Before(m, n, text'[l])
        PROVE  \E i \in Lists : Before(m, n, text[i])
    BY <1>f, <1>g, <1>h, <1>j
  <1>1. LineInv'
    <2>1. ASSUME NEW l \in Lists, NEW i \in Lists, NEW m \in Senders, NEW n \in Senders,
                 Before(m, n, text'[l]), n \in Has(i)'
          PROVE  m \in dropped' \/ Before(m, n, text'[i])
      <3>1. PICK j \in Lists : Before(m, n, text[j])
        BY <1>j, <2>1
      <3>2. CASE i # k
        <4>1. n \in Has(i)
          BY <1>g, <2>1, <3>2 DEF Has
        <4> QED
          BY <1>a, <1>d, <1>g, <3>1, <3>2, <4>1 DEF LineInv
      <3>3. CASE i = k
        <4>1. n \in Members(rest) /\ n \in Has(q)
          BY <1>g, <1>i, <2>1, <3>3 DEF Has
        <4>2. m \in dropped \/ Before(m, n, text[q])
          BY <1>a, <1>f, <3>1, <4>1 DEF LineInv
        <4> QED
          BY <1>d, <1>g, <1>h, <3>3, <4>1, <4>2
      <3> QED
        BY <3>2, <3>3
    <2> QED
      BY <2>1 DEF LineInv
  <1>2. PassedInv'
    <2>1. ASSUME NEW u \in Threads, pc'[u] = "sending"
          PROVE  Resumes(u) /\ text'[held[u]] = text[held[u]]
      <3>1. Resumes(u)
        BY <1>c, <2>1, OthersFacts DEF Resumes
      <3>2. held[u] \in Lists /\ held[u] # k
        BY <1>b, <3>1, SendingFacts DEF Resumes, Unused
      <3> QED
        BY <1>g, <3>1, <3>2
    <2> QED
      BY <1>a, <1>c, <2>1 DEF PassedInv, Resumes
  <1>3. SentInOrder'
    <2>1. \A n : Delivered(n)' <=> Delivered(n)
      BY <1>c DEF Delivered
    <2> QED
      BY <1>a, <1>c, <1>d, <1>j, <2>1 DEF SentInOrder
  <1> QED
    BY <1>1, <1>2, <1>3 DEF OrderInv

LEMMA OrderStep == Types /\ Inv /\ OrderInv /\ [Next]_vars => OrderInv'
  <1> SUFFICES ASSUME Types, Inv, OrderInv, [Next]_vars PROVE OrderInv'
    OBVIOUS
  <1>1. ASSUME NEW s \in Senders, Enqueue(s) PROVE OrderInv'
    BY <1>1, StillSteps, AppendOrder, LiveOrder DEF Enqueue, Threads
  <1>2. ASSUME NEW e \in Events, OnVerified(e) PROVE OrderInv'
    BY <1>2, StillSteps DEF Threads
  <1>3. ASSUME NEW t \in Threads, Flush(t) PROVE OrderInv'
    BY <1>3, StillSteps, ScanOrder, OneOrder, FailOrder DEF Flush
  <1>4. CASE UNCHANGED vars \/ \E p \in Pairs : Verify(p)
    <2>1. UNCHANGED <<text, pc, job, held, pos, chat, dropped>>
      BY <1>4 DEF Verify, vars, lists, local, results
    <2>2. \A u \in Threads : pc'[u] = "sending" => Resumes(u)
      BY <2>1 DEF Resumes, Key, Flushing
    <2> QED
      BY <2>1, <2>2, StillKeeps
  <1> QED
    BY <1>1, <1>2, <1>3, <1>4 DEF Next

\* A flush sends a list in its order (relay.py:1741), an age-out keeps it (1620) and a
\* request adds to its end (1723): what was ahead of a message in some list is sent
\* before it or logged as dropped, however many threads flush the pair, and wherever
\* they switch.
THEOREM QueueOrder == Spec => []SentInOrder
  <1>1. Types /\ Inv /\ OrderInv /\ [Next]_vars => OrderInv'
    BY OrderStep
  <1>2. OrderInv => SentInOrder
    BY DEF OrderInv
  <1> QED
    BY <1>1, <1>2, InitOrder, InvAlways, PTL DEF Spec
=============================================================================
