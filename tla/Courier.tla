------------------------------ MODULE Courier ------------------------------
(***************************************************************************)
(* What the relay promises a sender (src/app/relay.py:1821, 2000, 2097):   *)
(* a request is sent, refused, or on the list, under its own key or that   *)
(* of one with the same content; what waits on the list leaves it for an   *)
(* outcome only; an outcome "delivered" is true.  A crash may put the list *)
(* back to an older one, and forgets requests that were not on it.         *)
(*                                                                         *)
(* While one thread drains the list, only what waits is sent, and an       *)
(* outcome is final; several that drain it at once may put it back to an   *)
(* older one as well.                                                      *)
(***************************************************************************)
CONSTANTS Requests, ContentOf

VARIABLES
    fresh,       \* not answered, and not on the list
    refused,     \* answered with an error
    waiting,     \* on the list, with no outcome
    delivered,   \* on the list, with the outcome "delivered"
    dropped,     \* on the list, with the outcome "dropped"
    taken,       \* by the core, at least once
    alone        \* is there at most one thread that drains the list; up to the environment

vars == <<fresh, refused, waiting, delivered, dropped, taken, alone>>

Listed == waiting \cup delivered \cup dropped

Init == /\ fresh = Requests /\ refused = {} /\ taken = {}
        /\ waiting = {} /\ delivered = {} /\ dropped = {}
        /\ alone = TRUE

\* A request is taken, refused, put on the list, or answered as one that is there.
Answer ==
    /\ UNCHANGED <<delivered, dropped>>
    /\ fresh' \subseteq fresh
    /\ \A c \in fresh \ fresh' :
          \/ c \in taken' \cup refused'
          \/ \E k \in Listed' : ContentOf[k] = ContentOf[c]
    /\ taken \subseteq taken' /\ taken' \subseteq taken \cup fresh
    /\ refused \subseteq refused' /\ refused' \subseteq refused \cup fresh
    /\ waiting \subseteq waiting' /\ waiting' \subseteq waiting \cup (fresh \ fresh')

\* The file could not be written: the request is refused, its message is on the list.
Fail ==
    /\ UNCHANGED <<fresh, waiting, delivered, dropped, taken>>
    /\ refused \subseteq refused' /\ refused' \cap fresh = refused \cap fresh

Attempt ==
    /\ UNCHANGED <<fresh, refused, waiting, delivered, dropped>>
    /\ taken \subseteq taken'
    /\ (taken' \ taken) \cap fresh = {}
    /\ alone => taken' \subseteq taken \cup waiting

\* Outcomes are recorded, and old ones removed.
Settle ==
    /\ UNCHANGED <<fresh, refused, taken>>
    /\ waiting' \subseteq waiting /\ Listed' \subseteq Listed
    /\ waiting \subseteq Listed'
    /\ delivered' \subseteq taken
    /\ alone => delivered' \cap dropped = {} /\ dropped' \cap delivered = {}

\* A thread put the list it had worked on in the place of another's.
Clobber ==
    /\ ~alone
    /\ UNCHANGED <<fresh, refused, taken>>
    /\ Listed' \cap fresh = {}
    /\ delivered' \subseteq taken

Crash ==
    /\ UNCHANGED taken
    /\ fresh' \subseteq fresh /\ refused' \subseteq refused
    /\ Listed' \cap fresh = {}
    /\ delivered' \subseteq taken

Next == (Answer \/ Fail \/ Attempt \/ Settle \/ Clobber \/ Crash) /\ alone' \in BOOLEAN

Spec == Init /\ [][Next]_vars
=============================================================================
