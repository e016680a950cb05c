----------------------------- MODULE PeerStore ------------------------------
(***************************************************************************)
(* The known peers of one node (meshweaver/kademlia/peer_store.py): a      *)
(* routing table and, beside it, a dictionary of records with the time     *)
(* each peer was first and last seen.  The two are updated by separate     *)
(* statements; what makes the store correct is that they never disagree.   *)
(*                                                                         *)
(* Pure operators again: PeerStoreNode runs them on one store, Overlay on  *)
(* the stores of many nodes.  `now' is what time.time() returns.           *)
(***************************************************************************)
EXTENDS RoutingTable

CONSTANT NoRecord               \* what _records.get answers for an unknown id

Record == [contact : Contact, first_seen : Nat, last_seen : Nat]

ASSUME NoRecordAssumption == NoRecord \notin Record

Store == [table : Table, records : [NodeIds -> Record \cup {NoRecord}]]

EmptyStore == [table |-> EmptyTable, records |-> [id \in NodeIds |-> NoRecord]]

\* PeerStore.contains.
Known(st, id) == st.records[id] # NoRecord

KnownIds(st) == {id \in NodeIds : Known(st, id)}

\* The value add_or_update returns.
StoreAccepts(local, st, id) ==
    Known(st, id) \/ TableAccepts(local, st.table, id)

\* Mutant of SeenRecord: a new record has no first_seen.
SeenRecordUnset(st, c, now) ==
    [contact    |-> c,
     first_seen |-> IF Known(st, c.node_id)
                    THEN st.records[c.node_id].first_seen
                    ELSE NoRecord,
     last_seen  |-> now]

\* The record of a peer that was just seen as contact c.
SeenRecord(st, c, now) ==
    [contact    |-> c,
     first_seen |-> IF Known(st, c.node_id)
                    THEN st.records[c.node_id].first_seen
                    ELSE now,
     last_seen  |-> now]

\* Mutant of add_or_update: the table's refusal of a new peer is ignored.
add_or_update_unchecked(local, st, c, now) ==
    [table   |-> TableAdd(local, st.table, c),
     records |-> [st.records EXCEPT ![c.node_id] = SeenRecord(st, c, now)]]

\* PeerStore.add_or_update, for an identifier other than the local one.  A
\* known peer is recorded whatever the table answers, a new one only if the
\* table accepts it.
add_or_update(local, st, c, now) ==
    [table   |-> TableAdd(local, st.table, c),
     records |-> IF StoreAccepts(local, st, c.node_id)
                 THEN [st.records EXCEPT ![c.node_id] = SeenRecord(st, c, now)]
                 ELSE st.records]

\* Mutant of remove: the contact stays in the table.
remove_record_only(local, st, id) ==
    [st EXCEPT !.records[id] = NoRecord]

\* PeerStore.remove: nothing happens for an unknown peer.
remove(local, st, id) ==
    IF Known(st, id)
    THEN [table   |-> TableRemove(local, st.table, id),
          records |-> [st.records EXCEPT ![id] = NoRecord]]
    ELSE st

\* PeerStore.clear.
clear(st) == EmptyStore

-----------------------------------------------------------------------------
(* What makes a store correct.  Each predicate is about the store st of    *)
(* the node `local'.                                                       *)

\* A bucket never holds more than K contacts.
BucketsBounded(st) == \A i \in BitPositions : Len(st.table[i]) <= K

\* A contact sits in the bucket of the highest bit in which it differs from
\* the local identifier, which itself is in no bucket.
InOwnBucket(local, st) ==
    \A i \in BitPositions : \A n \in DOMAIN st.table[i] :
        /\ st.table[i][n].node_id # local
        /\ bucket_index(local, st.table[i][n].node_id) = i

\* No identifier occurs twice in a bucket.
NoDuplicates(st) ==
    \A i \in BitPositions : \A m, n \in DOMAIN st.table[i] :
        st.table[i][m].node_id = st.table[i][n].node_id => m = n

\* Every contact of the table has a record, and the record is of the very
\* same contact: the two agree on the peer's address.
TableIsRecorded(st) ==
    \A i \in BitPositions : \A n \in DOMAIN st.table[i] :
        /\ Known(st, st.table[i][n].node_id)
        /\ st.records[st.table[i][n].node_id].contact = st.table[i][n]

\* Every record is of a contact in the table.
RecordsAreInTable(local, st) ==
    \A id \in NodeIds : Known(st, id) =>
        /\ id # local
        /\ id \in BucketIds(st.table[bucket_index(local, id)])

\* A bucket lists its contacts in the order they were last seen.
OrderedByLastSeen(st) ==
    \A i \in BitPositions : \A m, n \in DOMAIN st.table[i] :
        m < n => st.records[st.table[i][m].node_id].last_seen
                   <= st.records[st.table[i][n].node_id].last_seen

\* No peer was seen before it was first seen, or in the future.
TimesOrdered(st, now) ==
    \A id \in NodeIds : Known(st, id) =>
        /\ st.records[id].first_seen <= st.records[id].last_seen
        /\ st.records[id].last_seen <= now

\* ans lists the n nearest to the target of the peers that st knows, in
\* ascending order of distance.
ListsNearest(st, target, n, ans) ==
    LET ids   == {ans[i].node_id : i \in DOMAIN ans}
        known == KnownIds(st)
    IN  /\ ids \subseteq known
        /\ Len(ans) = Min({n, Cardinality(known)})
        /\ \A i, j \in DOMAIN ans : i < j =>
              xor_distance(ans[i].node_id, target)
                < xor_distance(ans[j].node_id, target)
        /\ \A x \in ids, y \in known \ ids :
              xor_distance(x, target) < xor_distance(y, target)

\* The conjunction that every operation preserves.
StoreOK(local, st, now) ==
    /\ BucketsBounded(st)
    /\ InOwnBucket(local, st)
    /\ NoDuplicates(st)
    /\ TableIsRecorded(st)
    /\ RecordsAreInTable(local, st)
    /\ OrderedByLastSeen(st)
    /\ TimesOrdered(st, now)

=============================================================================
