---------------------------- MODULE ProvisionMC ----------------------------
(* A realm of a lead with one or two bots, and a member with an account of *)
(* its own or none.                                                        *)
EXTENDS Provision

CONSTANTS b1, b2, ext

TwoBots == <<b1, b2>>
OneBot == <<b1>>
OneExternal == <<ext>>
NoExternals == <<>>
=============================================================================
