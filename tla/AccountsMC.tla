----------------------------- MODULE AccountsMC -----------------------------
(* Two bots, the first of which may be onboarded already, and a name that  *)
(* nobody has.                                                             *)
EXTENDS Accounts

CONSTANTS ann, ben, zoe

TwoBots == <<ann, ben>>
Budget(lookups, misreads, refusals, deaths, events) ==
    [lookup |-> lookups, misread |-> misreads, refusal |-> refusals,
     death |-> deaths, event |-> events]

\* Lookups in several threads; something the core refuses; a busy event stream.
Scenarios == {Budget(2, 0, 0, 0, 0), Budget(1, 1, 1, 0, 0), Budget(1, 0, 0, 1, 2)}

NoneOrOne == {<<>>, <<ann>>}
=============================================================================
