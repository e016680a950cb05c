---------------------------- MODULE MCPeerLookup ----------------------------
(***************************************************************************)
(* Two-bit identifiers: the local node is 00, its peers 10 and 11.         *)
(***************************************************************************)
EXTENDS PeerLookup

MCLocal == {}
MCPeers == {{1}, {0, 1}}
=============================================================================
