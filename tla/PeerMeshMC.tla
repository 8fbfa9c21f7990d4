----------------------------- MODULE PeerMeshMC -----------------------------
(* Instances of PeerMesh for TLC: two bots, hence two directed pairs. *)
EXTENDS PeerMesh, TLC

CONSTANTS ab, ba, s1, s2, s3, e1, e2

MCPairs == {ab, ba}
MCRev == ab :> ba @@ ba :> ab

\* Two messages one way, one the other way.
Mixed == s1 :> ab @@ s2 :> ab @@ s3 :> ba
\* All messages one way.
OneWay == s1 :> ab @@ s2 :> ab @@ s3 :> ab

\* The handshake completes at the target of ab, or at both.
Sides == e1 :> ba @@ e2 :> ab
Side == e1 :> ba
=============================================================================
