------------------------------ MODULE PeerMesh ------------------------------
(***************************************************************************)
(* The buffer for messages between bots that are not yet verified contacts *)
(* of each other (class PeerMesh, src/app/relay.py 1544).  A thread runs   *)
(* each send request and each verified event; they share the queues and    *)
(* take no lock.                                                           *)
(*                                                                         *)
(* A queue is a Python list that threads hold by reference while they wait *)
(* for the core, so lists have an identity here: each is named after the   *)
(* thread that made it.  Threads switch at calls to the core, and between  *)
(* the copy that _age_out makes of a list and the statement that puts the  *)
(* copy in its place, where the log is written.                            *)
(*                                                                         *)
(* doubted and raced only record what happened, for the properties.        *)
(*                                                                         *)
(* A name that ends in Slip is a plausible mistake in the definition that  *)
(* follows it; the specification never uses it.                            *)
(***************************************************************************)
EXTENDS Naturals, Sequences, FiniteSets

CONSTANTS
    Pairs,      \* (sender localpart, target address)
    Rev,        \* the pair in the other direction
    Senders,    \* calls of send_to_peer; also the messages they send
    PairOf,     \* the pair each is for
    Events,     \* verified events of the core
    SideOf,     \* the pair (account, address) an event reports
    Cap,        \* max_per_pair
    Lapses      \* may a queued message outlive the TTL

ASSUME PairsAssumption ==
    /\ Rev \in [Pairs -> Pairs] /\ \A p \in Pairs : Rev[p] # p /\ Rev[Rev[p]] = p
    /\ PairOf \in [Senders -> Pairs] /\ SideOf \in [Events -> Pairs]
ASSUME ThreadsAssumption == Senders \cap Events = {}
ASSUME BoundsAssumption == Cap \in Nat \ {0} /\ Lapses \in BOOLEAN

Threads == Senders \cup Events
Lists == Threads \X Pairs \X {"new", "kept"}
NoList == <<>>

VARIABLES
    verified,   \* pairs whose target is a key-contact of the sender (in the core)
    joined,     \* pairs whose handshake the core has begun
    queue,      \* _queues
    text,       \* what each list holds
    inflight,   \* _inflight
    pc,         \* per thread: where it is, or its result
    job,        \* per thread: the pairs it still has to flush
    held,       \* per thread: the list it has a reference to
    pos,        \* per thread: its position in the list it flushes
    chat,       \* per pair: what the core sent, in order
    dropped,    \* messages whose loss was logged
    missed,     \* events for which the account index had no answer
    doubted,    \* messages that landed although the send raised
    raced       \* messages an age-out and another thread were at odds about

core == <<verified, joined>>
lists == <<queue, text>>
local == <<job, held, pos>>
results == <<chat, dropped, missed, doubted, raced>>
vars == <<verified, joined, queue, text, inflight, pc, job, held, pos, chat, dropped,
          missed, doubted, raced>>

Members(s) == {s[i] : i \in DOMAIN s}
Listed(p) == IF queue[p] = NoList THEN {} ELSE Members(text[queue[p]])
Flushing(t) == job[t] # <<>>
Key(t) == IF Flushing(t) THEN Head(job[t]) ELSE PairOf[t]

At(t, step) == pc[t] = step

Init ==
    /\ verified = {} /\ joined = {}
    /\ queue = [p \in Pairs |-> NoList]
    /\ text = [l \in Lists |-> <<>>]
    /\ inflight = {}
    /\ pc = [t \in Threads |-> "new"]
    /\ job = [t \in Threads |-> <<>>]
    /\ held = [t \in Threads |-> NoList]
    /\ pos = [t \in Threads |-> 0]
    /\ chat = [p \in Pairs |-> <<>>]
    /\ dropped = {} /\ missed = {} /\ doubted = {} /\ raced = {}

-----------------------------------------------------------------------------
(* send_to_peer *)

\* No account, a foreign domain, not in the roster, not onboarded: answered
\* without a look at the queue.  So is a message to an external member, which has
\* no pair here and is sent at once or not at all.
Reject(s) ==
    /\ At(s, "new")
    /\ pc' = [pc EXCEPT ![s] = "rejected"]
    /\ UNCHANGED <<core, lists, inflight, local, results>>

\* The target is a key-contact: the backlog goes first, then this message.
FindVerified(s) ==
    /\ At(s, "new") /\ PairOf[s] \in verified
    /\ job' = [job EXCEPT ![s] = <<PairOf[s]>>]
    /\ pc' = [pc EXCEPT ![s] = "flush"]
    /\ UNCHANGED <<core, lists, inflight, held, pos, results>>

\* It is not, or the lookup failed, which counts as unverified.
FindUnverified(s) ==
    /\ At(s, "new")
    /\ pc' = [pc EXCEPT ![s] = "queueing"]
    /\ UNCHANGED <<core, lists, inflight, local, results>>

\* A new list is made if the pair has none.  The pair's cap holds for the list.
Take(s) ==
    /\ At(s, "taking")
    /\ LET p == PairOf[s]
           q == IF queue[p] = NoList THEN <<s, p, "new">> ELSE queue[p]
       IN /\ queue' = [queue EXCEPT ![p] = q]
          /\ \/ /\ Len(text[q]) >= Cap
                /\ dropped' = dropped \cup {s}
                /\ pc' = [pc EXCEPT ![s] = "dropped"]
                /\ UNCHANGED held
             \/ /\ Len(text[q]) < Cap
                /\ held' = [held EXCEPT ![s] = q]
                /\ pc' = [pc EXCEPT ![s] = IF p \in inflight THEN "appending" ELSE "joining"]
                /\ UNCHANGED dropped
    /\ UNCHANGED <<core, text, inflight, job, pos, chat, missed, doubted, raced>>

\* create_invite and secure_join block; either may raise, which is logged.
Join(s) ==
    /\ At(s, "joining")
    /\ \/ /\ joined' = joined \cup {PairOf[s]}
          /\ pc' = [pc EXCEPT ![s] = "joined"]
       \/ /\ pc' = [pc EXCEPT ![s] = "appending"]
          /\ UNCHANGED joined
    /\ UNCHANGED <<verified, lists, inflight, local, results>>

MarkInflight(s) ==
    /\ At(s, "joined")
    /\ inflight' = inflight \cup {PairOf[s]}
    /\ pc' = [pc EXCEPT ![s] = "appending"]
    /\ UNCHANGED <<core, lists, local, results>>

\* The message goes to the list taken before the handshake.
AppendTo(s) ==
    /\ At(s, "appending")
    /\ text' = [text EXCEPT ![held[s]] = Append(@, s)]
    /\ held' = [held EXCEPT ![s] = NoList]
    /\ pc' = [pc EXCEPT ![s] = "queued"]
    /\ UNCHANGED <<core, queue, inflight, job, pos, results>>

\* The core sends a message to the target of pair p, or raises, which it may do when
\* the message has landed.
Lands(p, m) == /\ chat' = [chat EXCEPT ![p] = Append(@, m)]
               /\ UNCHANGED doubted
Raises(p, m) ==
    \/ UNCHANGED <<chat, doubted>>
    \/ /\ chat' = [chat EXCEPT ![p] = Append(@, m)]
       /\ doubted' = doubted \cup {m}

SendLive(s) ==
    /\ At(s, "live")
    /\ \/ Lands(PairOf[s], s) /\ pc' = [pc EXCEPT ![s] = "sent"]
       \/ Raises(PairOf[s], s) /\ pc' = [pc EXCEPT ![s] = "raised"]
    /\ UNCHANGED <<core, lists, inflight, local, dropped, missed, raced>>

-----------------------------------------------------------------------------
(* _age_out *)

Due(t) == At(t, "flush") \/ At(t, "queueing")
After(t) == IF Flushing(t) THEN "popping" ELSE "taking"

\* Nothing is listed.  A flush has cleared the in-flight marker first.
AgeOutEmpty(t) ==
    /\ Due(t) /\ Listed(Key(t)) = {}
    /\ inflight' = IF Flushing(t) THEN inflight \ {Key(t)} ELSE inflight
    /\ pc' = [pc EXCEPT ![t] = After(t)]
    /\ UNCHANGED <<core, lists, local, results>>

\* What is left of list l without the old ones: the rest in its order.
Without(l, old) ==
    LET young == {i \in DOMAIN l : l[i] \notin old}
        InOrder(f) == \A i, j \in DOMAIN f : i < j => f[i] < f[j]
        order == {f \in UNION {[1..n -> young] : n \in 0..Len(l)} :
                     Members(f) = young /\ InOrder(f)}
    IN {[i \in DOMAIN f |-> l[f[i]]] : f \in order}

\* What is too old is logged as dropped, the rest copied to a new list.
AgeOutScan(t) ==
    /\ Due(t) /\ Listed(Key(t)) # {}
    /\ inflight' = IF Flushing(t) THEN inflight \ {Key(t)} ELSE inflight
    /\ \E old \in SUBSET Listed(Key(t)) :
          /\ old # {} => Lapses
          /\ \E rest \in Without(text[queue[Key(t)]], old) :
                text' = [text EXCEPT ![<<t, Key(t), "kept">>] = rest]
          /\ dropped' = dropped \cup old
    /\ pc' = [pc EXCEPT ![t] = "rebinding"]
    /\ UNCHANGED <<core, queue, local, chat, missed, doubted, raced>>

Kept(t) == <<t, Key(t), "kept">>

\* Slip: the copy is forgotten if something was dropped.
AgeOutRebindSlip(t) ==
    /\ At(t, "rebinding")
    /\ queue' = [queue EXCEPT ![Key(t)] =
                    IF Listed(Key(t)) \cap dropped # {} THEN NoList
                    ELSE Kept(t)]
    /\ pc' = [pc EXCEPT ![t] = After(t)]
    /\ UNCHANGED <<core, text, inflight, local, results>>

\* The copy takes the place of whatever the pair has by now.  What another thread
\* took away since the copy was made is back, and what one added to the list is gone.
AgeOutRebind(t) ==
    /\ At(t, "rebinding")
    /\ queue' = [queue EXCEPT ![Key(t)] = IF text[Kept(t)] = <<>> THEN NoList ELSE Kept(t)]
    /\ LET kept == Members(text[Kept(t)])
           now == Listed(Key(t))
       IN raced' = raced \cup (kept \ now) \cup (now \ (kept \cup dropped))
    /\ pc' = [pc EXCEPT ![t] = After(t)]
    /\ UNCHANGED <<core, text, inflight, local, chat, dropped, missed, doubted>>

-----------------------------------------------------------------------------
(* _flush_queue *)

Finish(t) ==
    /\ job' = [job EXCEPT ![t] = Tail(@)]
    /\ pc' = [pc EXCEPT ![t] = IF t \in Senders THEN "live"
                               ELSE IF Tail(job[t]) = <<>> THEN "done" ELSE "flush"]

PopEmpty(t) ==
    /\ At(t, "popping") /\ Listed(Key(t)) = {}
    /\ queue' = [queue EXCEPT ![Key(t)] = NoList]
    /\ Finish(t)
    /\ UNCHANGED <<core, text, inflight, held, pos, results>>

\* Slip: the list stays in the table while it is sent.
PopSlip(t) ==
    /\ At(t, "popping") /\ Listed(Key(t)) # {}
    /\ held' = [held EXCEPT ![t] = queue[Key(t)]]
    /\ pos' = [pos EXCEPT ![t] = 1]
    /\ pc' = [pc EXCEPT ![t] = "sending"]
    /\ UNCHANGED <<core, lists, inflight, job, results>>

\* The list is taken away, with what another thread is about to age out and has
\* logged as dropped.
Pop(t) ==
    /\ At(t, "popping") /\ Listed(Key(t)) # {}
    /\ queue' = [queue EXCEPT ![Key(t)] = NoList]
    /\ held' = [held EXCEPT ![t] = queue[Key(t)]]
    /\ pos' = [pos EXCEPT ![t] = 1]
    /\ pc' = [pc EXCEPT ![t] = "sending"]
    /\ raced' = raced \cup (Listed(Key(t)) \cap dropped)
    /\ UNCHANGED <<core, text, inflight, job, chat, dropped, missed, doubted>>

\* The next message is sent; the list may have grown since.
FlushOne(t) ==
    /\ At(t, "sending") /\ pos[t] <= Len(text[held[t]])
    /\ Lands(Key(t), text[held[t]][pos[t]])
    /\ pos' = [pos EXCEPT ![t] = @ + 1]
    /\ UNCHANGED <<core, lists, inflight, pc, job, held, dropped, missed, raced>>

\* Slip: the whole list is counted as lost, with what was already sent.
FlushFailsSlip(t) ==
    /\ At(t, "sending") /\ pos[t] <= Len(text[held[t]])
    /\ dropped' = dropped \cup Members(text[held[t]])
    /\ held' = [held EXCEPT ![t] = NoList]
    /\ Finish(t)
    /\ UNCHANGED <<core, lists, inflight, pos, chat, missed, doubted, raced>>

\* Slip: the message is passed over, and the rest is sent.
FlushSkipsSlip(t) ==
    /\ At(t, "sending") /\ pos[t] <= Len(text[held[t]])
    /\ pos' = [pos EXCEPT ![t] = @ + 1]
    /\ UNCHANGED <<core, lists, inflight, pc, job, held, results>>

\* A send raises: its message and the rest are logged as dropped.
FlushFails(t) ==
    /\ At(t, "sending") /\ pos[t] <= Len(text[held[t]])
    /\ Raises(Key(t), text[held[t]][pos[t]])
    /\ dropped' = dropped \cup {text[held[t]][i] : i \in pos[t]..Len(text[held[t]])}
    /\ held' = [held EXCEPT ![t] = NoList]
    /\ Finish(t)
    /\ UNCHANGED <<core, lists, inflight, pos, missed, raced>>

\* Slip: the reference to the list is kept.
FlushEndsSlip(t) ==
    /\ At(t, "sending") /\ pos[t] > Len(text[held[t]])
    /\ Finish(t)
    /\ UNCHANGED <<core, lists, inflight, held, pos, results>>

FlushEnds(t) ==
    /\ At(t, "sending") /\ pos[t] > Len(text[held[t]])
    /\ held' = [held EXCEPT ![t] = NoList]
    /\ Finish(t)
    /\ UNCHANGED <<core, lists, inflight, pos, results>>

-----------------------------------------------------------------------------
(* on_verified, flush_verified_pair *)

\* A handshake makes each side a key-contact of the other, one after the other.
Verify(p) ==
    /\ p \notin verified /\ {p, Rev[p]} \cap joined # {}
    /\ verified' = verified \cup {p}
    /\ UNCHANGED <<joined, lists, inflight, pc, local, results>>

\* Some completions are reported, and their handler scheduled.
Report(e) ==
    /\ At(e, "new") /\ SideOf[e] \in verified
    /\ pc' = [pc EXCEPT ![e] = "reported"]
    /\ UNCHANGED <<core, lists, inflight, local, results>>

\* Slip: only the queue of the account that reported is flushed.
EventFlushesSlip(e) ==
    /\ At(e, "reported")
    /\ job' = [job EXCEPT ![e] = <<SideOf[e]>>]
    /\ pc' = [pc EXCEPT ![e] = "flush"]
    /\ UNCHANGED <<core, lists, inflight, held, pos, results>>

\* Both directions are flushed, that of the account that reported first.
EventFlushes(e) ==
    /\ At(e, "reported")
    /\ job' = [job EXCEPT ![e] = <<SideOf[e], Rev[SideOf[e]]>>]
    /\ pc' = [pc EXCEPT ![e] = "flush"]
    /\ UNCHANGED <<core, lists, inflight, held, pos, results>>

\* The account index is being rebuilt, and localpart_for or account_id_for finds
\* nothing: this direction is not flushed.
EventMisses(e) ==
    /\ At(e, "flush")
    /\ missed' = missed \cup {e}
    /\ Finish(e)
    /\ UNCHANGED <<core, lists, inflight, held, pos, chat, dropped, doubted, raced>>

-----------------------------------------------------------------------------
Enqueue(s) == \/ FindVerified(s) \/ FindUnverified(s) \/ Reject(s)
              \/ Take(s) \/ Join(s) \/ MarkInflight(s) \/ AppendTo(s) \/ SendLive(s)

Flush(t) == \/ AgeOutEmpty(t) \/ AgeOutScan(t) \/ AgeOutRebind(t)
            \/ PopEmpty(t) \/ Pop(t) \/ FlushOne(t) \/ FlushFails(t) \/ FlushEnds(t)

OnVerified(e) == Report(e) \/ EventFlushes(e) \/ EventMisses(e)

Next == \/ \E s \in Senders : Enqueue(s)
        \/ \E e \in Events : OnVerified(e)
        \/ \E t \in Threads : Flush(t)
        \/ \E p \in Pairs : Verify(p)

Spec == Init /\ [][Next]_vars

\* Threads that were started run on, and calls to the core return.  Nobody has to
\* send, no handshake has to complete, no event has to be reported.
Step(t) == (t \in Senders /\ Enqueue(t)) \/ (t \in Events /\ OnVerified(t)) \/ Flush(t)
Working(t) == pc[t] # "new" /\ Step(t)
FairSpec == Spec /\ \A t \in Threads : WF_vars(Working(t))

-----------------------------------------------------------------------------
Before(m, n, s) == \E i, j \in DOMAIN s : i < j /\ s[i] = m /\ s[j] = n
Delivered(m) == m \in Members(chat[PairOf[m]])
InHands(m) == \E t \in Threads :
                 /\ pc[t] = "sending"
                 /\ \E i \in pos[t]..Len(text[held[t]]) : text[held[t]][i] = m

\* The relay knows what became of the message, or still has it where the next
\* send or event looks.
Accounted(m) == \/ m \in Listed(PairOf[m]) \/ InHands(m)
                \/ Delivered(m) \/ m \in dropped

Answers == {"rejected", "dropped", "queued", "sent", "raised"}

\* What the variables hold.  A thread holds a list just while it joins, appends or
\* sends, and has pairs left to flush just while it flushes.
TypeOK ==
    /\ verified \subseteq Pairs /\ joined \subseteq Pairs /\ inflight \subseteq Pairs
    /\ queue \in [Pairs -> Lists \cup {NoList}]
    /\ DOMAIN text = Lists /\ \A l \in Lists : Members(text[l]) \subseteq Senders
    /\ pc \in [Threads -> Answers \cup
                  {"new", "flush", "queueing", "rebinding", "taking", "joining", "joined",
                   "appending", "popping", "sending", "live", "reported", "done"}]
    /\ held \in [Threads -> Lists \cup {NoList}]
    /\ \A t \in Threads :
          /\ held[t] # NoList <=> pc[t] \in {"joining", "joined", "appending", "sending"}
          /\ pc[t] \in {"flush", "popping", "sending"} => Flushing(t)
          /\ pc[t] \in {"queueing", "taking", "joining", "joined", "appending", "live"}
                => ~Flushing(t)
    /\ DOMAIN chat = Pairs
    /\ missed \subseteq Events
    /\ dropped \cup doubted \cup raced \subseteq Senders

\* However many requests and events flush a pair at once, each message is sent once,
\* but for a switch of threads inside _age_out that puts back what was taken away
\* (see DeliveredExactlyOnce).
DeliveredOnce ==
    \A p \in Pairs : \A i, j \in DOMAIN chat[p] :
        chat[p][i] = chat[p][j] /\ chat[p][i] \notin raced => i = j

\* What the log calls dropped was not delivered, so its sender may send it again,
\* but for a send that landed and raised, and for what one thread ages out while
\* another takes it away.
DroppedMeansUndelivered == \A m \in dropped \ (doubted \cup raced) : ~Delivered(m)

\* What was queued is sent in the order of the queue (relay.py:1561, 1728): whatever
\* was ahead of a message in any list, while it was aged out, copied, taken away and
\* appended to, was sent before it or logged as dropped.  Nothing is said of messages
\* that were in no list together, nor of those sent at once.
SentInOrder ==
    \A l \in Lists : \A m, n \in Senders :
        Before(m, n, text[l]) /\ Delivered(n)
            => m \in dropped \/ Before(m, n, chat[PairOf[n]])

\* A message that is in the queue of its pair is never lost track of: it stays
\* there, or goes to the one who flushes it, or is sent, or logged as dropped, unless
\* an age-out puts back a copy of the list that it was added to too late for.
NothingFallsOut ==
    [][\A m \in Senders : Accounted(m) => Accounted(m)' \/ m \in raced']_vars

\* A verified event, on whichever side the handshake completed, settles what is
\* queued in either direction, unless the account index failed it, or an age-out
\* put back an older list.
EventSettles ==
    \A e \in Events, m \in Senders :
        (/\ pc[e] = "reported"
         /\ PairOf[m] \in {SideOf[e], Rev[SideOf[e]]}
         /\ m \in Listed(PairOf[m]))
        ~> (Delivered(m) \/ m \in dropped \/ e \in missed \/ m \in raced)

-----------------------------------------------------------------------------
(* What the code's comments and docstrings claim, and the code does not do.  *)

\* relay.py 1564-1566: "Dropped/aged-out messages are logged LOUDLY - never
\* silently swallowed": a queued message is in the queue, sent, or logged.
NeverSwallowed == \A s \in Senders : pc[s] = "queued" => Accounted(s)

\* relay.py 1559-1562: flush_verified sends "IN-ORDER, EXACTLY-ONCE (pop-then-send;
\* the queue is cleared atomically before send so a re-fired event can't double-send)".
DeliveredExactlyOnce ==
    \A p \in Pairs : \A i, j \in DOMAIN chat[p] : chat[p][i] = chat[p][j] => i = j
=============================================================================
