-------------------------- MODULE MCPeerStoreNode ---------------------------
(***************************************************************************)
(* Three-bit identifiers.  The local node is 010; 110, 111 and 100 compete *)
(* for the two places of bucket 2, 011 has bucket 0 to itself.             *)
(***************************************************************************)
EXTENDS PeerStoreNode

MCLocal == {1}
MCPeers == {{1, 2}, {0, 1, 2}, {2}, {0, 1}}
=============================================================================
