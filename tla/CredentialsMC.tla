--------------------------- MODULE CredentialsMC ---------------------------
(* Two bots under either backend.                                          *)
EXTENDS Credentials

CONSTANTS ann, ben

TwoBots == <<ann, ben>>

Bounds(requests, writes, rotations, restarts, wipes) ==
    [request |-> requests, write |-> writes, rotation |-> rotations,
     restart |-> restarts, wipe |-> wipes]

Under(name, bounds) == [backend |-> name, bounds |-> bounds]

\* With the vault: two failed requests, or a rotation, or deaths and lost accounts.
\* With the file: a write that fails, or deaths and lost accounts.
Troubles ==
    {Under("opconnect", Bounds(2, 0, 0, 0, 0)),
     Under("opconnect", Bounds(1, 0, 1, 0, 0)),
     Under("opconnect", Bounds(0, 0, 0, 1, 1)),
     Under("local", Bounds(1, 1, 0, 0, 0)),
     Under("local", Bounds(1, 0, 0, 1, 1))}
=============================================================================
