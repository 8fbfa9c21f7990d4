------------------------------ MODULE Mailbox ------------------------------
(***************************************************************************)
(* What the wake path promises (src/app/relay.py:1438, 1943, 2392): a      *)
(* mailbox in which every wake that is begun is accounted for.  A wake is  *)
(* open while somebody is delivering it.  It is closed only when it is at  *)
(* the bridge, kept on disk, or dropped and logged; what is kept survives  *)
(* a crash and goes only when it was delivered or is dropped; and nothing  *)
(* is delivered that was not begun.  How often it is delivered is left     *)
(* open.                                                                   *)
(*                                                                         *)
(* A step may close one wake and open another, so actions say how the sets *)
(* may change rather than by which wake.                                   *)
(***************************************************************************)
CONSTANT Wakes

VARIABLES
    open,        \* being delivered by a handler
    kept,        \* in the hold queue
    delivered,   \* accepted by the bridge
    dropped      \* given up

vars == <<open, kept, delivered, dropped>>

Known == open \cup kept \cup delivered \cup dropped

Init == open = {} /\ kept = {} /\ delivered = {} /\ dropped = {}

\* Handlers begin wakes; one they could not deliver is kept or dropped.
Handle ==
    /\ UNCHANGED delivered
    /\ open' \subseteq Wakes
    /\ open \subseteq open' \cup delivered \cup kept' \cup dropped'
    /\ kept \subseteq kept' /\ kept' \subseteq kept \cup open
    /\ dropped \subseteq dropped' /\ dropped' \subseteq dropped \cup open

\* The bridge accepts a wake, maybe again, and maybe one given up meanwhile.
Accept ==
    /\ UNCHANGED <<open, kept, dropped>>
    /\ delivered \subseteq delivered' /\ delivered' \subseteq Known

\* A drain takes out what was delivered, and drops what is too old or whose
\* bot is gone.
Settle ==
    /\ UNCHANGED <<open, delivered>>
    /\ kept' \subseteq kept
    /\ kept \subseteq kept' \cup delivered \cup dropped'
    /\ dropped \subseteq dropped' /\ dropped' \subseteq Known

Crash ==
    /\ UNCHANGED <<kept, delivered>>
    /\ open' = {}
    /\ dropped' = dropped \cup open

Next == Handle \/ Accept \/ Settle \/ Crash

Spec == Init /\ [][Next]_vars
=============================================================================
