----------------------------- MODULE PeerLookup -----------------------------
(***************************************************************************)
(* A PeerLookup (meshweaver/kademlia/lookup.py) over a node's PeerStore.   *)
(*                                                                         *)
(* PeerLookup keeps the routing table OBJECT it was constructed with.      *)
(* PeerStore.clear does not empty that object, it puts a new one in its    *)
(* place; from then on nothing changes the old one.  `lookup' is therefore *)
(* either attached to the store's table or holds a frozen one.             *)
(***************************************************************************)
EXTENDS PeerStoreNode

VARIABLE lookup      \* the PeerLookup: [attached, frozen]

lookupVars == <<store, clock, last, lookup>>

Attached == [attached |-> TRUE, frozen |-> EmptyTable]

\* The table PeerLookup.find_closest reads.
LookupTable == IF lookup.attached THEN store.table ELSE lookup.frozen

LookupInit == Init /\ lookup = Attached

\* PeerLookup(store.routing_table).
NewLookup == lookup' = Attached /\ UNCHANGED vars

\* PeerStore.clear, seen from the lookup.
ClearUnderLookup ==
    /\ ClearPeers
    /\ lookup' = [attached |-> FALSE, frozen |-> LookupTable]

LookupNext ==
    \/ (AddPeer \/ RemovePeer \/ Tick) /\ UNCHANGED lookup
    \/ ClearUnderLookup
    \/ NewLookup

LookupSpec == LookupInit /\ [][LookupNext]_lookupVars

-----------------------------------------------------------------------------

\* lookup.py 37: "The RoutingTable owned by the local node.  All contacts
\* currently stored in the table are eligible candidates": a PeerLookup
\* finds every peer the store knows, and none that the store has dropped.
LookupSeesTheStore == TableIds(LookupTable) = KnownIds(store)

=============================================================================
