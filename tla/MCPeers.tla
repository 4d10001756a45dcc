------------------------------- MODULE MCPeers -------------------------------
(* Peers with three addresses, one of them a DNS seed's. *)
EXTENDS Peers

CONSTANTS a1, a2, a3

MCAddr  == {a1, a2, a3}
MCBooks == {{}, {a1, a2, a3}}
MCSeeds == {<<a1>>}
=============================================================================
