------------------------------ MODULE OutboxMC ------------------------------
(* Instances of Outbox for TLC: two requests send the same, the third does not. *)
EXTENDS Outbox

CONSTANTS c1, c2, c3, loop, endpoint

ContentOfCalls == [c \in {c1, c2, c3} |-> IF c = c3 THEN "other" ELSE "same"]

Bounds(acks, restarts, posts) ==
    [k \in Kinds |-> CASE k = "ack" -> acks [] k = "restart" -> restarts [] k = "post" -> posts]

\* Two messages and one drain; a message and its double; one message with everything
\* that may happen to it.
Trouble == {[made |-> {c1, c3}, bounds |-> Bounds(0, 0, 0)],
            [made |-> {c1, c2}, bounds |-> Bounds(0, 0, 0)],
            [made |-> {c1}, bounds |-> Bounds(1, 1, 1)]}

\* Of two requests and the drain loop, two are at work at a time.
TwoAtWork ==
    Cardinality({c \in Calls : call'[c] \in {"parking", "appending", "flushing"}}) = 2
        => drain'[loop] = "idle"

\* A message and its double, and nothing else out of the ordinary.
Double == {[made |-> {c1, c2}, bounds |-> Bounds(0, 0, 0)]}
=============================================================================
