------------------------------- MODULE Outbox -------------------------------
(***************************************************************************)
(* The durable outbound queue of the relay (class Outbox, src/app/relay.py *)
(* 1814, with Relay.send*, _park and drain_outbox).  Everything here runs  *)
(* in worker threads without a lock: one thread per send request, one per  *)
(* drain (the drain loop's and any POST /drain).  A step is what a thread  *)
(* does between two points at which another may run: blocking calls to the *)
(* core, file operations, and reads and writes of the shared list.         *)
(*                                                                         *)
(* A send request is also the key of the entry it parks; list order is     *)
(* left out.  The file operations of _flush are three steps: serialise the *)
(* list, write the temporary file all threads share, rename it.  A write   *)
(* is taken to be whole.                                                   *)
(*                                                                         *)
(* A name that ends in Slip is a plausible mistake in the definition that  *)
(* follows it; the specification never uses it.                            *)
(***************************************************************************)
EXTENDS Naturals, FiniteSets

CONSTANTS
    Calls,         \* send requests
    Contents,      \* (kind, bot, target, text)
    ContentOf,     \* what each request sends
    Drainers,      \* threads that run drain_outbox
    Loop,          \* the one of them that is the drain loop; the others are POST /drain
    MaxAttempts,   \* max_attempts
    Scenarios      \* the requests made, with bounds on what may happen, to choose from

ASSUME ContentAssumption == ContentOf \in [Calls -> Contents]
ASSUME AttemptsAssumption == MaxAttempts \in Nat \ {0}
ASSUME ThreadsAssumption == Calls \cap Drainers = {}
ASSUME DrainersAssumption == IsFiniteSet(Drainers) /\ Loop \in Drainers

\* How many sends that landed may report an error, processes die, and POST /drain
\* be called.
Kinds == {"ack", "restart", "post"}
Scenario == [made: SUBSET Calls, bounds: [Kinds -> Nat]]
ASSUME ScenariosAssumption == Scenarios \subseteq Scenario

Threads == Calls \cup Drainers
Outcomes == {"delivered", "dropped"}
Entry == [terminal : Outcomes \cup {"none"}, attempts : 0..MaxAttempts]
Fresh == [terminal |-> "none", attempts |-> 0]

\* What a file holds: the state of each entry in it.
Image == UNION {[K -> Entry] : K \in SUBSET Calls}

NoImage == [c \in {} |-> Fresh]

VARIABLES
    left,      \* what may still happen, per kind
    call,      \* per request: where it is, or the result it returned
    items,     \* the entries in the list _items refers to
    entry,     \* the entry objects; threads share and change them in place
    file,      \* outbox.json
    temp,      \* outbox.json.tmp, a set of at most one image
    flush,     \* per thread: its progress in _flush
    image,     \* per thread: what it serialised
    drain,     \* per drainer
    todo,      \* per drainer: the entries it has still to try, or to give up
    cur,       \* per drainer: the entry it is sending, a set of at most one
    stale,     \* per drainer: the tombstones age_out is about to prune
    view,      \* per drainer: the list it prunes, if that is no longer the list in use
    landed,    \* per request: how often the core took the message
    doubts,    \* per request: landings no thread, or no file, came to know of
    pruned,    \* tombstones that aged out
    crowded,   \* did the drains under way overlap
    mishaps    \* has the process died, has one prune undone another

listVars == <<items, entry>>
fileVars == <<file, temp>>
drainVars == <<drain, todo, cur, stale, view>>
history == <<landed, doubts, pruned, crowded, mishaps>>
vars == <<left, call, items, entry, file, temp, flush, image, drain, todo, cur, stale,
          view, landed, doubts, pruned, crowded, mishaps>>

May(kind) ==
    /\ left[kind] > 0
    /\ left' = [left EXCEPT ![kind] = @ - 1]

Pending(c) == entry[c].terminal = "none"
Serialised == [c \in items |-> entry[c]]

Init ==
    /\ \E s \in Scenarios :
          /\ left = s.bounds
          /\ call = [c \in Calls |-> IF c \in s.made THEN "new" ELSE "unmade"]
    /\ items = {}
    /\ entry = [c \in Calls |-> Fresh]
    /\ file = NoImage /\ temp = {}
    /\ flush = [t \in Threads |-> "no"]
    /\ image = [t \in Threads |-> NoImage]
    /\ drain = [d \in Drainers |-> "idle"]
    /\ todo = [d \in Drainers |-> {}]
    /\ cur = [d \in Drainers |-> {}]
    /\ stale = [d \in Drainers |-> {}]
    /\ view = [d \in Drainers |-> {}]
    /\ landed = [c \in Calls |-> 0]
    /\ doubts = [c \in Calls |-> 0]
    /\ pruned = {} /\ crowded = FALSE /\ mishaps = {}

-----------------------------------------------------------------------------
(* Relay.send, send_chat, send_contact, send_to_addr: try, else park.      *)

\* The core takes the message.
SendLands(c) ==
    /\ call[c] = "new"
    /\ landed' = [landed EXCEPT ![c] = @ + 1]
    /\ call' = [call EXCEPT ![c] = "sent"]
    /\ UNCHANGED <<left, listVars, fileVars, flush, image, drainVars, doubts, pruned,
                   crowded, mishaps>>

\* No account, no such chat or contact, unsendable target, or the accounts could not
\* be listed: raised to the caller.
SendRaises(c) ==
    /\ call[c] = "new"
    /\ call' = [call EXCEPT ![c] = "raised"]
    /\ UNCHANGED <<left, listVars, fileVars, flush, image, drainVars, history>>

\* Any other error parks the message.  It may have landed all the same.
SendFails(c) ==
    /\ call[c] = "new"
    /\ call' = [call EXCEPT ![c] = "parking"]
    /\ \/ UNCHANGED <<left, landed, doubts>>
       \/ /\ May("ack")
          /\ landed' = [landed EXCEPT ![c] = @ + 1]
          /\ doubts' = [doubts EXCEPT ![c] = @ + 1]
    /\ UNCHANGED <<listVars, fileVars, flush, image, drainVars, pruned, crowded, mishaps>>

\* enqueue finds an entry with the same content, pending or terminal, and
\* hands back the new key all the same.
EnqueueIdentical(c) ==
    /\ call[c] = "parking"
    /\ \E k \in items : ContentOf[k] = ContentOf[c]
    /\ call' = [call EXCEPT ![c] = "queued"]
    /\ UNCHANGED <<left, listVars, fileVars, flush, image, drainVars, history>>

EnqueueNew(c) ==
    /\ call[c] = "parking"
    /\ \A k \in items : ContentOf[k] # ContentOf[c]
    /\ call' = [call EXCEPT ![c] = "appending"]
    /\ UNCHANGED <<left, listVars, fileVars, flush, image, drainVars, history>>

EnqueueAppend(c) ==
    /\ call[c] = "appending"
    /\ items' = items \cup {c}
    /\ entry' = [entry EXCEPT ![c] = Fresh]
    /\ call' = [call EXCEPT ![c] = "flushing"]
    /\ flush' = [flush EXCEPT ![c] = "dump"]
    /\ UNCHANGED <<left, fileVars, image, drainVars, history>>

EnqueueReturn(c) ==
    /\ call[c] = "flushing" /\ flush[c] = "no"
    /\ call' = [call EXCEPT ![c] = "queued"]
    /\ UNCHANGED <<left, listVars, fileVars, flush, image, drainVars, history>>

Send(c) == \/ SendLands(c) \/ SendRaises(c) \/ SendFails(c)
           \/ EnqueueIdentical(c) \/ EnqueueNew(c) \/ EnqueueAppend(c)
           \/ EnqueueReturn(c)

-----------------------------------------------------------------------------
(* _flush *)

FlushDump(t) ==
    /\ flush[t] = "dump"
    /\ image' = [image EXCEPT ![t] = Serialised]
    /\ flush' = [flush EXCEPT ![t] = "write"]
    /\ UNCHANGED <<left, call, listVars, fileVars, drainVars, history>>

FlushWrite(t) ==
    /\ flush[t] = "write"
    /\ temp' = {image[t]}
    /\ image' = [image EXCEPT ![t] = NoImage]
    /\ flush' = [flush EXCEPT ![t] = "replace"]
    /\ UNCHANGED <<left, call, listVars, file, drainVars, history>>

FlushReplace(t) ==
    /\ flush[t] = "replace" /\ temp # {}
    /\ file' \in temp /\ temp' = {}
    /\ flush' = [flush EXCEPT ![t] = "no"]
    /\ UNCHANGED <<left, call, listVars, image, drainVars, history>>

\* Another thread has renamed the shared temporary file: the rename raises.  A
\* send request fails (502), a drain ends early.
FlushRaises(t) ==
    /\ flush[t] = "replace" /\ temp = {}
    /\ flush' = [flush EXCEPT ![t] = "no"]
    /\ call' = [c \in Calls |-> IF c = t THEN "raised" ELSE call[c]]
    /\ drain' = [d \in Drainers |-> IF d = t THEN "idle" ELSE drain[d]]
    /\ todo' = [d \in Drainers |-> IF d = t THEN {} ELSE todo[d]]
    /\ UNCHANGED <<left, listVars, fileVars, image, cur, stale, view, history>>

Flush(t) == FlushDump(t) \/ FlushWrite(t) \/ FlushReplace(t) \/ FlushRaises(t)

-----------------------------------------------------------------------------
(* drain_outbox: the drain loop, and POST /drain beside it *)

Overlap(d) == \E e \in Drainers \ {d} : drain[e] # "idle"

\* Slip: tombstones are retried too.
DrainStartSlip(d) ==
    /\ drain[d] = "idle" /\ items # {}
    /\ IF d = Loop THEN UNCHANGED left ELSE May("post")
    /\ todo' = [todo EXCEPT ![d] = items]
    /\ drain' = [drain EXCEPT ![d] = "next"]
    /\ crowded' = Overlap(d)
    /\ UNCHANGED <<call, listVars, fileVars, flush, image, cur, stale, view, landed,
                   doubts, pruned, mishaps>>

\* pending().  A pass over an empty list changes nothing and is left out.
DrainStart(d) ==
    /\ drain[d] = "idle" /\ items # {}
    /\ IF d = Loop THEN UNCHANGED left ELSE May("post")
    /\ todo' = [todo EXCEPT ![d] = {c \in items : Pending(c)}]
    /\ drain' = [drain EXCEPT ![d] = "next"]
    /\ crowded' = Overlap(d)
    /\ UNCHANGED <<call, listVars, fileVars, flush, image, cur, stale, view, landed,
                   doubts, pruned, mishaps>>

\* account_id_for is called outside of the try, and raises when the accounts cannot
\* be listed (relay.py 504-506): the pass is over, nothing is counted or aged out.
DrainRaises(d) ==
    /\ drain[d] = "next" /\ flush[d] = "no" /\ todo[d] # {}
    /\ drain' = [drain EXCEPT ![d] = "idle"]
    /\ todo' = [todo EXCEPT ![d] = {}]
    /\ UNCHANGED <<left, call, listVars, fileVars, flush, image, cur, stale, view, history>>

\* The next entry is tried on the path it was parked for.  What the call to the
\* core came to is acted upon in DrainMark or DrainKeep.
DrainTry(d) ==
    /\ drain[d] = "next" /\ flush[d] = "no"
    /\ \E c \in todo[d] :
          /\ todo' = [todo EXCEPT ![d] = @ \ {c}]
          /\ cur' = [cur EXCEPT ![d] = {c}]
          /\ \/ /\ drain' = [drain EXCEPT ![d] = "delivered"]
                /\ landed' = [landed EXCEPT ![c] = @ + 1]
                /\ UNCHANGED <<left, doubts>>
             \/ /\ drain' = [drain EXCEPT ![d] = "dropped"]
                /\ UNCHANGED <<left, landed, doubts>>
             \/ /\ drain' = [drain EXCEPT ![d] = "failed"]
                /\ UNCHANGED <<left, landed, doubts>>
             \/ /\ May("ack")
                /\ drain' = [drain EXCEPT ![d] = "failed"]
                /\ landed' = [landed EXCEPT ![c] = @ + 1]
                /\ doubts' = [doubts EXCEPT ![c] = @ + 1]
    /\ UNCHANGED <<call, listVars, fileVars, flush, image, stale, view, pruned, crowded,
                   mishaps>>

\* Slip: what failed is taken for delivered as well.
DrainMarkSlip(d) ==
    /\ drain[d] \in Outcomes \cup {"failed"}
    /\ \E c \in cur[d] :
          /\ c \in items
          /\ entry' = [entry EXCEPT ![c].terminal = "delivered"]
          /\ flush' = [flush EXCEPT ![d] = "dump"]
    /\ cur' = [cur EXCEPT ![d] = {}]
    /\ drain' = [drain EXCEPT ![d] = "next"]
    /\ UNCHANGED <<left, call, items, fileVars, image, todo, stale, view, history>>

\* Slip: whatever the attempt came to is recorded as the outcome.
DrainMarkAnySlip(d) ==
    /\ drain[d] \in Outcomes \cup {"failed"}
    /\ \E c \in cur[d] : entry' = [entry EXCEPT ![c].terminal = drain[d]]
    /\ flush' = [flush EXCEPT ![d] = "dump"]
    /\ cur' = [cur EXCEPT ![d] = {}]
    /\ drain' = [drain EXCEPT ![d] = "next"]
    /\ UNCHANGED <<left, call, items, fileVars, image, todo, stale, view, history>>

\* mark_terminal: a key that is gone from the list is passed over, and a delivery
\* with it.
DrainMark(d) ==
    /\ drain[d] \in Outcomes
    /\ \E c \in cur[d] :
          \/ /\ c \in items
             /\ entry' = [entry EXCEPT ![c].terminal = drain[d]]
             /\ flush' = [flush EXCEPT ![d] = "dump"]
             /\ UNCHANGED doubts
          \/ /\ c \notin items
             /\ doubts' = IF drain[d] = "delivered" /\ Pending(c)
                          THEN [doubts EXCEPT ![c] = @ + 1] ELSE doubts
             /\ UNCHANGED <<entry, flush>>
    /\ cur' = [cur EXCEPT ![d] = {}]
    /\ drain' = [drain EXCEPT ![d] = "next"]
    /\ UNCHANGED <<left, call, items, fileVars, image, todo, stale, view, landed, pruned,
                   crowded, mishaps>>

\* Slip: the attempt is not counted.
DrainKeepSlip(d) ==
    /\ drain[d] = "failed"
    /\ cur' = [cur EXCEPT ![d] = {}]
    /\ drain' = [drain EXCEPT ![d] = "next"]
    /\ UNCHANGED <<left, call, listVars, fileVars, flush, image, todo, stale, view, history>>

\* A transient error: one attempt more, in memory only.
DrainKeep(d) ==
    /\ drain[d] = "failed"
    /\ \E c \in cur[d] :
          entry' = [entry EXCEPT ![c].attempts = IF @ < MaxAttempts THEN @ + 1 ELSE @]
    /\ cur' = [cur EXCEPT ![d] = {}]
    /\ drain' = [drain EXCEPT ![d] = "next"]
    /\ UNCHANGED <<left, call, items, fileVars, flush, image, todo, stale, view, history>>

\* Slip: entries that already have an outcome are given up like the others.
AgeOutSlip(d) ==
    /\ drain[d] = "next" /\ flush[d] = "no" /\ todo[d] = {}
    /\ \E late \in SUBSET items : todo' = [todo EXCEPT ![d] = late]
    /\ drain' = [drain EXCEPT ![d] = "aging"]
    /\ UNCHANGED <<left, call, listVars, fileVars, flush, image, cur, stale, view, history>>

\* The loop of age_out finds entries past their TTL or out of attempts, and tombstones
\* past theirs.  If it finds none, nothing is flushed.
AgeOut(d) ==
    /\ drain[d] = "next" /\ flush[d] = "no" /\ todo[d] = {}
    /\ \E late \in SUBSET {c \in items : Pending(c)} :
       \E old \in SUBSET {c \in items : ~Pending(c)} :
          LET worn == {c \in items : Pending(c) /\ entry[c].attempts = MaxAttempts}
          IN /\ todo' = [todo EXCEPT ![d] = late \cup worn]
             /\ stale' = [stale EXCEPT ![d] = old]
             /\ drain' = [drain EXCEPT ![d] = IF late \cup worn \cup old = {}
                                              THEN "ending" ELSE "aging"]
    /\ UNCHANGED <<left, call, listVars, fileVars, flush, image, cur, view, history>>

\* An entry found pending is logged and then marked, whatever became of it meanwhile.
GiveUp(d) ==
    /\ drain[d] = "aging"
    /\ \E c \in todo[d] :
          /\ todo' = [todo EXCEPT ![d] = @ \ {c}]
          /\ entry' = [entry EXCEPT ![c].terminal = "dropped"]
    /\ UNCHANGED <<left, call, items, fileVars, flush, image, drain, cur, stale, view,
                   history>>

\* The comprehension takes hold of the list, if there is anything to prune.
AgeOutPrune(d) ==
    /\ drain[d] = "aging" /\ todo[d] = {}
    /\ \/ /\ stale[d] = {}
          /\ drain' = [drain EXCEPT ![d] = "ending"]
          /\ flush' = [flush EXCEPT ![d] = "dump"]
       \/ /\ stale[d] # {}
          /\ drain' = [drain EXCEPT ![d] = "pruning"]
          /\ UNCHANGED flush
    /\ UNCHANGED <<left, call, listVars, fileVars, image, todo, cur, stale, view, history>>

\* Slip: every tombstone is pruned, however young.
AgeOutRebindSlip(d) ==
    /\ drain[d] = "pruning"
    /\ items' = {c \in items : Pending(c)}
    /\ pruned' = pruned \cup stale[d]
    /\ stale' = [stale EXCEPT ![d] = {}]
    /\ flush' = [flush EXCEPT ![d] = "dump"]
    /\ drain' = [drain EXCEPT ![d] = "ending"]
    /\ UNCHANGED <<left, call, entry, fileVars, image, todo, cur, view, landed, doubts,
                   crowded, mishaps>>

\* What it built becomes the list.  CPython yields to other threads at the back edge
\* of a comprehension, after which it sees what they appended to the list it reads;
\* but if another drain has put its own list in place meanwhile, what was appended to
\* that one is gone.
AgeOutRebind(d) ==
    /\ drain[d] = "pruning"
    /\ items' = (IF view[d] = {} THEN items ELSE UNION view[d]) \ stale[d]
    /\ view' = [e \in Drainers |->
                   IF e = d THEN {}
                   ELSE IF drain[e] = "pruning" /\ view[e] = {} THEN {items} ELSE view[e]]
    /\ pruned' = pruned \cup stale[d]
    /\ stale' = [stale EXCEPT ![d] = {}]
    /\ mishaps' = IF view[d] = {} THEN mishaps ELSE mishaps \cup {"prune"}
    /\ flush' = [flush EXCEPT ![d] = "dump"]
    /\ drain' = [drain EXCEPT ![d] = "ending"]
    /\ UNCHANGED <<left, call, entry, fileVars, image, todo, cur, landed, doubts, crowded>>

DrainEnd(d) ==
    /\ drain[d] = "ending" /\ flush[d] = "no"
    /\ drain' = [drain EXCEPT ![d] = "idle"]
    /\ UNCHANGED <<left, call, listVars, fileVars, flush, image, todo, cur, stale, view, history>>

Drain(d) == \/ DrainStart(d) \/ DrainRaises(d) \/ DrainTry(d) \/ DrainMark(d)
            \/ DrainKeep(d) \/ AgeOut(d) \/ GiveUp(d) \/ AgeOutPrune(d)
            \/ AgeOutRebind(d) \/ DrainEnd(d)

-----------------------------------------------------------------------------
\* The process dies; a new one reads the file.
Restart ==
    /\ May("restart")
    /\ call' = [c \in Calls |->
                   IF call[c] \in {"unmade", "new", "sent", "raised", "queued"}
                   THEN call[c] ELSE "lost"]
    /\ doubts' = [c \in Calls |->
                     IF /\ c \in DOMAIN file /\ file[c].terminal = "none"
                        /\ landed[c] > doubts[c]
                     THEN landed[c] ELSE doubts[c]]
    /\ items' = DOMAIN file
    /\ entry' = [c \in Calls |-> IF c \in DOMAIN file THEN file[c] ELSE Fresh]
    /\ flush' = [t \in Threads |-> "no"]
    /\ image' = [t \in Threads |-> NoImage]
    /\ drain' = [d \in Drainers |-> "idle"]
    /\ todo' = [d \in Drainers |-> {}]
    /\ cur' = [d \in Drainers |-> {}]
    /\ stale' = [d \in Drainers |-> {}]
    /\ view' = [d \in Drainers |-> {}]
    /\ crowded' = FALSE /\ mishaps' = mishaps \cup {"restart"}
    /\ UNCHANGED <<fileVars, landed, pruned>>

Next == \/ \E c \in Calls : Send(c)
        \/ \E d \in Drainers : Drain(d)
        \/ \E t \in Threads : Flush(t)
        \/ Restart

Spec == Init /\ [][Next]_vars

\* Threads run, and blocking calls to the core return; the drain loop comes back
\* every few seconds.  Nobody has to send or to call POST /drain, and nothing makes
\* the process restart.
Step(t) == (t \in Calls /\ Send(t)) \/ (t \in Drainers /\ Drain(t)) \/ Flush(t)
Working(t) == /\ Step(t)
              /\ t \in Calls => call[t] # "new"
              /\ t \in Drainers \ {Loop} => drain[t] # "idle"
FairSpec == Spec /\ \A t \in Threads : WF_vars(Working(t))

-----------------------------------------------------------------------------
Results == {"unmade", "new", "sent", "raised", "queued"}
Stages == {"idle", "next", "failed", "aging", "pruning", "ending"}

\* What the variables hold: request and drainer states, images of the list, and
\* entries whose attempts stay within max_attempts.
TypeOK ==
    /\ left \in [Kinds -> Nat]
    /\ call \in [Calls -> Results \cup {"parking", "appending", "flushing", "lost"}]
    /\ items \subseteq Calls
    /\ entry \in [Calls -> Entry]
    /\ file \in Image
    /\ temp \subseteq Image
    /\ flush \in [Threads -> {"no", "dump", "write", "replace"}]
    /\ image \in [Threads -> Image]
    /\ drain \in [Drainers -> Outcomes \cup Stages]
    /\ todo \in [Drainers -> SUBSET Calls]
    /\ cur \in [Drainers -> SUBSET Calls]
    /\ stale \in [Drainers -> SUBSET Calls]
    /\ view \in [Drainers -> SUBSET SUBSET Calls]
    /\ landed \in [Calls -> Nat]
    /\ doubts \in [Calls -> Nat]
    /\ pruned \subseteq Calls
    /\ crowded \in BOOLEAN
    /\ mishaps \subseteq {"restart", "prune"}

\* A poll that shows terminal=delivered is the proof that a queued message was
\* sent.  It is never shown for a message the core did not take, whatever the
\* threads and stale writes of the file do, and after a restart as well.
DeliveredMeansSent ==
    \A c \in items : entry[c].terminal = "delivered" => landed[c] > 0

\* A queued message is sent again only when the relay could not know that it had
\* landed: a lost answer, a delivery of an entry another drain's prune had undone, or a
\* restart on a file that still calls it pending.  Short of that, each drain under way
\* at the same time sends it at most once: nothing keeps a POST /drain in the middle of
\* a pass from sending the same entries (relay.py 2104), but no pass begun after the
\* outcome was marked does.
NoNeedlessSend == \A c \in Calls : landed[c] <= doubts[c] + Cardinality(Drainers)

\* The other requests made that sent the same.
Alike(c) == {k \in Calls \ {c} : ContentOf[k] = ContentOf[c] /\ call[k] \notin {"unmade", "new"}}

\* The key a request was answered with stays in the list until its tombstone ages out,
\* though threads append, mark and prune concurrently - while the process lives, no two
\* prunes overlap, and nobody sent the same (see QueuedIsTracked, which has no such
\* premises).
QueuedStaysPollable ==
    mishaps = {} =>
        \A c \in Calls : call[c] = "queued" /\ Alike(c) = {} => c \in items \cup pruned

\* The passes that tried to send c, or will, or are about to give it up.
Holders(c) == {d \in Drainers : c \in todo[d] \cup cur[d]}

\* The outcome that a poll reported is conclusive but for the passes that had the message
\* in hand when it was marked.  It is never taken back; no later pass, drain loop or POST
\* /drain, touches it; and each of those in hand changes it at most once: "dropped" may
\* become "delivered", and the other way round.  Only the file read at a restart may be
\* older.
OutcomeIsSettled ==
    [][\A c \in items :
          entry[c].terminal # "none" /\ left'["restart"] = left["restart"]
             => /\ entry'[c].terminal # "none"
                /\ Holders(c)' \subseteq Holders(c)
                /\ entry'[c].terminal # entry[c].terminal => Holders(c)' # Holders(c)]_vars

\* Every parked message comes to an outcome, even if no send ever succeeds: retries are
\* counted, and a message that keeps failing is given up, loudly.  That is as long as the
\* passes reach their end, that is, from some moment on the accounts can be listed.
ParkedSettles ==
    <>[][\A d \in Drainers : ~DrainRaises(d)]_vars =>
        \A c \in Calls : (c \in items /\ Pending(c)) ~> (c \notin items \/ ~Pending(c))

-----------------------------------------------------------------------------
(* Refinement: the outbox is a courier. *)

Listed(outcome) == {c \in items : entry[c].terminal = outcome}

C == INSTANCE Courier WITH
        Requests <- Calls,
        alone <- ~crowded,
        fresh <- {c \in Calls : call[c] \in {"unmade", "new", "parking", "appending"}},
        refused <- {c \in Calls : call[c] = "raised"},
        waiting <- Listed("none"),
        delivered <- Listed("delivered"),
        dropped <- Listed("dropped"),
        taken <- {c \in Calls : landed[c] > 0}

\* The outbox keeps the promise of the courier (class Outbox and Relay.send*,
\* relay.py 1821, 2007 and 2093): no request is answered without being sent, refused
\* or kept; nothing that is kept goes without an outcome, and while no drains overlap an
\* outcome is final and nothing that has one is sent.
IsCourier == C!Spec

-----------------------------------------------------------------------------
(* What the code's comments and docstrings claim, and the code does not do.  *)

\* relay.py 2009-2013: the result of a parked send "carries the outbox key - poll
\* GET /outbox/<key>"; a 404 means "never existed or tombstone aged out".  relay.py
\* 1875-1878: get returns None "only when never queued or the tombstone aged out".
QueuedIsTracked ==
    \A c \in Calls : call[c] = "queued" => c \in items \cup pruned
=============================================================================
