----------------------------- MODULE WakePathMC -----------------------------
(***************************************************************************)
(* Small instances of WakePath.  Two bots, alice and bob, share a group    *)
(* with a person, who mentions both of them; each bot's account surfaces   *)
(* its own copy under its own chat id.                                     *)
(***************************************************************************)
EXTENDS WakePath

CONSTANTS alice, bob, human, m1, m2, m3, m4, thumbsUp, id1, id2,
          hA, hB, hC, hD, hE, loop, endpoint

Group(acct, chat, mid) ==
    [kind |-> "group", body |-> m1, acct |-> acct, chat |-> chat, msg |-> 7,
     mid |-> mid, from |-> human, members |-> {alice, bob, human},
     mentioned |-> <<alice, bob>>, emoji |-> NoEmoji, own |-> FALSE,
     notice |-> FALSE]

\* bob writes in the group and mentions himself.
FromBob(acct, chat) ==
    [Group(acct, chat, id1) EXCEPT !.from = bob, !.mentioned = <<bob>>]

Direct(acct, sender, mid) ==
    [kind |-> "dm", body |-> m2, acct |-> acct, chat |-> 12, msg |-> 8,
     mid |-> mid, from |-> sender, members |-> {acct, sender},
     mentioned |-> <<>>, emoji |-> NoEmoji, own |-> FALSE, notice |-> FALSE]

Notice(acct) ==
    [Direct(acct, Nobody, NoMid) EXCEPT !.members = {acct}, !.notice = TRUE]

Reaction(acct, body, mid, msg, own) ==
    [kind |-> "reaction", body |-> body, acct |-> acct, chat |-> 12, msg |-> msg,
     mid |-> mid, from |-> human, members |-> {}, mentioned |-> <<>>,
     emoji |-> thumbsUp, own |-> own, notice |-> FALSE]

MCNames == {alice, bob, human}
MCRosters == {{alice, bob}, {bob}}

\* Two members' copies of one group message that mentions both.
Copies == [h \in {hA, hB} |-> IF h = hA THEN Group(alice, 10, id1)
                                      ELSE Group(bob, 11, id1)]

\* The same, mentioning alice only, and the core handing her copy over again.
Refetched ==
    [h \in {hA, hB, hC} |->
        [(IF h = hB THEN Group(bob, 11, id1) ELSE Group(alice, 10, id1))
            EXCEPT !.mentioned = <<alice>>]]

\* A direct message to alice, a post of bob's surfaced by his own account, a
\* device notice for bob, and reactions to two messages of alice's, by the same
\* person with the same emoji, whose id lookups failed.
Kinds ==
    [h \in {hA, hB, hC, hD, hE} |->
        CASE h = hA -> Direct(alice, human, id2)
          [] h = hB -> FromBob(bob, 11)
          [] h = hC -> Reaction(alice, m3, NoMid, 8, TRUE)
          [] h = hD -> Notice(bob)
          [] h = hE -> Reaction(alice, m4, NoMid, 9, TRUE)]
=============================================================================
