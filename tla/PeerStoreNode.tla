--------------------------- MODULE PeerStoreNode ----------------------------
(***************************************************************************)
(* One node's PeerStore under every sequence of calls.  Each call is       *)
(* synchronous code on the event loop, hence atomic.                       *)
(***************************************************************************)
EXTENDS FindNode

CONSTANTS Local,     \* the identifier of the node
          Peers,     \* the identifiers the callers come up with
          Sizes,     \* the k that lookups and FindNodeHandlers are given
          MaxClock   \* bound: the clock stops here

ASSUME LocalAssumption == Local \in NodeIds
ASSUME PeersAssumption == Peers \subseteq NodeIds
ASSUME SizesAssumption == Sizes \subseteq Nat \ {0}
ASSUME MaxClockAssumption == MaxClock \in Nat

VARIABLES store,     \* the PeerStore
          clock,     \* time.time(), assumed not to run backwards
          last       \* the last call and what it returned (ok)

vars == <<store, clock, last>>

Calls ==
    [call : {"none", "clear"}]
        \cup [call : {"add", "remove"}, id : Peers, ok : BOOLEAN]

TypeOK ==
    /\ store \in Store
    /\ clock \in 0 .. MaxClock
    /\ last \in Calls

Init ==
    /\ store = EmptyStore
    /\ clock = 0
    /\ last = [call |-> "none"]

\* The local identifier is refused with a ValueError that changes nothing.
AddPeer ==
    \E c \in [node_id : Peers, addr : Addr] :
        /\ c.node_id # Local
        /\ store' = add_or_update(Local, store, c, clock)
        /\ last' = [call |-> "add", id |-> c.node_id,
                    ok   |-> StoreAccepts(Local, store, c.node_id)]
        /\ UNCHANGED clock

RemovePeer ==
    \E id \in Peers :
        /\ store' = remove(Local, store, id)
        /\ last' = [call |-> "remove", id |-> id, ok |-> Known(store, id)]
        /\ UNCHANGED clock

ClearPeers ==
    /\ store' = clear(store)
    /\ last' = [call |-> "clear"]
    /\ UNCHANGED clock

Tick ==
    /\ clock < MaxClock
    /\ clock' = clock + 1
    /\ UNCHANGED <<store, last>>

Next == AddPeer \/ RemovePeer \/ ClearPeers \/ Tick

Spec == Init /\ [][Next]_vars

-----------------------------------------------------------------------------
(* Properties *)

\* The store is consistent after every sequence of calls: the table and the
\* record dictionary that add_or_update, remove and clear change with
\* separate statements hold the same peers with the same addresses, every
\* contact once, in its own bucket, and no bucket beyond its capacity.
StoreConsistent ==
    /\ BucketsBounded(store)
    /\ InOwnBucket(Local, store)
    /\ NoDuplicates(store)
    /\ TableIsRecorded(store)
    /\ RecordsAreInTable(Local, store)

\* "Contacts are kept in the order they were last seen (tail = most
\* recent)": the position KBucket.add_contact gives a contact agrees with
\* the last_seen that PeerRecord.touch writes independently of it.
BucketOrderIsLastSeen == OrderedByLastSeen(store)

\* "Bucket index i covers peers whose XOR distance to the local node falls in
\* the range [2^i, 2^(i+1))": the bit that _bucket_index looks for and the
\* distance that lookups sort by agree on who is near.
BucketsCoverRanges ==
    \A i \in BitPositions : \A n \in DOMAIN store.table[i] :
        LET d == xor_distance(Local, store.table[i][n].node_id)
        IN  PowerOfTwo[i] <= d /\ d < PowerOfTwo[i + 1]

\* The inductive invariant of the proofs.
StoreInv == StoreOK(Local, store, clock)

\* No step displaces a known peer by another one: whatever leaves the store
\* leaves it by remove (one peer) or clear (all of them), and then nobody
\* enters it.  A full bucket drops the newcomer.
NoEviction ==
    [][LET lost == TableIds(store.table) \ TableIds(store'.table)
           won  == TableIds(store'.table) \ TableIds(store.table)
       IN  lost # {} => /\ won = {}
                        /\ \/ TableIds(store'.table) = {}
                           \/ \E id \in lost : lost = {id}]_vars

\* The bucket that decides on the place of a peer.
BucketOf == [id \in NodeIds \ {Local} |-> bucket_index(Local, id)]

\* The addresses of the peers in the record dictionary.
AddressBook ==
    [id \in KnownIds(store) |-> store.records[id].contact.addr]

Book == INSTANCE PeerBook WITH
            Id <- NodeIds, Self <- Local, Group <- BucketOf, Places <- K,
            book <- AddressBook

\* The store is the dictionary of PeerBook, what its calls return included:
\* add_or_update answers "False if the target k-bucket was full and the peer
\* could not be inserted (only possible for new peers ...)" and changes
\* nothing then, takes everyone else and displaces nobody; remove answers
\* "True if the peer was found and removed".  The k-bucket and the records
\* decide separately, and must agree on who has a place.
ImplementsPeerBook == Book!Spec

\* find_closest answers with the k known peers nearest to any target, in
\* ascending order of distance, as if it had looked through the whole
\* record dictionary.
LookupFindsNearest ==
    \A target \in NodeIds, k \in Sizes :
        ListsNearest(store, target, k, find_closest(store.table, target, k))

\* A FIND_NODE exchange with this node answers as its own lookup would: after
\* the responder's sort and cut and the requester's, whoever asks gets the
\* peers nearest to itself of all that the responder knows, nearest first,
\* and as many as the smaller of their two k allows.
RepliesNearest ==
    \A asker \in NodeIds \ {Local}, its, mine \in Sizes :
        ListsNearest(store, asker, Min({its, mine}),
                     found_nodes(store, asker, its, mine))

=============================================================================
