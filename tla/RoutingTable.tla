---------------------------- MODULE RoutingTable ----------------------------
(***************************************************************************)
(* The k-buckets of one node (meshweaver/kademlia/routing_table.py) and    *)
(* the lookups over them (kademlia/lookup.py, FindNodeHandler in           *)
(* kademlia/rpc.py).                                                       *)
(*                                                                         *)
(* A contact is a node identifier with an address; two contacts are equal  *)
(* to the code when their identifiers are (KademliaContact.__eq__).  A     *)
(* bucket is the sequence of its contacts, oldest first; a table has one   *)
(* bucket per bit position.  Everything here is a pure operator: the       *)
(* owner of a table is the parameter `local'.                              *)
(***************************************************************************)
EXTENDS NodeId, Sequences, SequencesExt

CONSTANTS Addr,   \* the (host, port) pairs that pass KademliaContact's check
          K       \* the capacity of a bucket

ASSUME KAssumption == K \in Nat \ {0}

Contact == [node_id : NodeIds, addr : Addr]

Table == [BitPositions -> Seq(Contact)]

EmptyTable == [i \in BitPositions |-> << >>]

-----------------------------------------------------------------------------
(* KBucket *)

\* The identifiers that occur in a bucket.
BucketIds(b) == {b[i].node_id : i \in DOMAIN b}

is_full(b) == Len(b) >= K

\* Where list.remove finds the first contact with this identifier.
Position(b, id) ==
    CHOOSE i \in DOMAIN b :
        /\ b[i].node_id = id
        /\ \A j \in DOMAIN b : b[j].node_id = id => i <= j

\* KBucket.remove_contact, and list.remove of an equal contact.
BucketRemove(b, id) ==
    IF id \in BucketIds(b) THEN RemoveAt(b, Position(b, id)) ELSE b

\* The value KBucket.add_contact returns.
BucketAccepts(b, id) == id \in BucketIds(b) \/ ~is_full(b)

\* Mutant of BucketAdd: a known contact is updated where it is.
BucketAddInPlace(b, c) ==
    IF c.node_id \in BucketIds(b) THEN [b EXCEPT ![Position(b, c.node_id)] = c]
    ELSE IF is_full(b) THEN b ELSE Append(b, c)

\* Mutant of BucketAdd: a full bucket drops its oldest contact.
BucketAddEvicting(b, c) ==
    Append(IF BucketAccepts(b, c.node_id) THEN BucketRemove(b, c.node_id)
                                          ELSE Tail(b), c)

\* KBucket.add_contact: refresh at the tail, append, or drop when full.
BucketAdd(b, c) ==
    IF BucketAccepts(b, c.node_id)
    THEN Append(BucketRemove(b, c.node_id), c)
    ELSE b

-----------------------------------------------------------------------------
(* RoutingTable *)

\* Mutant of bucket_index: the lowest position in which they differ.
bucket_index_lowest(local, id) == Min(Xor(local, id))

\* bit_length(xor) - 1: the highest position in which the identifiers differ.
\* Undefined (ValueError) for the local identifier itself.
bucket_index(local, id) == Max(Xor(local, id))

TableAccepts(local, tbl, id) == BucketAccepts(tbl[bucket_index(local, id)], id)

\* RoutingTable.add_contact, for an identifier other than the local one.
TableAdd(local, tbl, c) ==
    [tbl EXCEPT ![bucket_index(local, c.node_id)] = BucketAdd(@, c)]

\* RoutingTable.remove_contact: nothing happens for the local identifier.
TableRemove(local, tbl, id) ==
    IF id = local
    THEN tbl
    ELSE [tbl EXCEPT ![bucket_index(local, id)] = BucketRemove(@, id)]

\* RoutingTable.get_all_contacts, whose order only the sort below sees.
get_all_contacts(tbl) == UNION {Range(tbl[i]) : i \in BitPositions}

TableIds(tbl) == {c.node_id : c \in get_all_contacts(tbl)}

-----------------------------------------------------------------------------
(* Lookups *)

\* The contacts that are nearer to the target than c.
Nearer(contacts, target, c) ==
    {d \in contacts : xor_distance(d.node_id, target)
                        < xor_distance(c.node_id, target)}

\* Mutant of SortByDistance: the farthest contacts first.
SortFarthestFirst(contacts, target) ==
    [i \in 1 .. Cardinality(contacts) |->
        CHOOSE c \in contacts :
            Cardinality(Nearer(contacts, target, c)) = Cardinality(contacts) - i]

\* list.sort(key = xor_distance to the target), for contacts with different
\* identifiers: i - 1 contacts are nearer than the i-th.
SortByDistance(contacts, target) ==
    [i \in 1 .. Cardinality(contacts) |->
        CHOOSE c \in contacts :
            Cardinality(Nearer(contacts, target, c)) = i - 1]

\* The slice [: n] of a list.
Truncate(s, n) == SubSeq(s, 1, IF Len(s) < n THEN Len(s) ELSE n)

\* PeerLookup.find_closest and FindNodeHandler.handle_request.
find_closest(tbl, target, n) ==
    Truncate(SortByDistance(get_all_contacts(tbl), target), n)

=============================================================================
