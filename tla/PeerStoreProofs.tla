-------------------------- MODULE PeerStoreProofs ---------------------------
(***************************************************************************)
(* Proofs about PeerStoreNode and PeerLookup, for every identifier length, *)
(* bucket capacity, set of peers and clock bound.  Each operation of the   *)
(* store preserves StoreOK (PeerStoreLemmas), so TypeOK /\ StoreInv is     *)
(* inductive, and the theorems follow from it.  That the store implements  *)
(* PeerBook needs in addition that a bucket is as long as there are        *)
(* records of peers that belong in it (BucketCountsMembers).               *)
(***************************************************************************)
EXTENDS PeerLookup, PeerStoreLemmas, TLAPS


(* The types and the correctness of the store are inductive together. *)
LEMMA StoreInvInductive ==
    /\ Init => TypeOK /\ StoreInv
    /\ TypeOK /\ StoreInv /\ [Next]_vars => TypeOK' /\ StoreInv'
PROOF
  <1>1. Init => TypeOK /\ StoreInv
    <2> SUFFICES ASSUME Init PROVE TypeOK /\ StoreInv
      OBVIOUS
    <2>1. store = EmptyStore /\ clock = 0 /\ last \in Calls
      BY DEF Init, Calls
    <2>2. 0 \in Nat /\ 0 \in 0 .. MaxClock
      BY MaxClockAssumption
    <2> QED  BY <2>1, <2>2, EmptyStoreOK, LocalAssumption DEF TypeOK, StoreInv
  <1>2. ASSUME TypeOK, StoreInv, [Next]_vars
        PROVE  TypeOK' /\ StoreInv'
    <2>0. /\ store \in Store /\ clock \in 0 .. MaxClock /\ clock \in Nat
          /\ last \in Calls
          /\ StoreOK(Local, store, clock) /\ Local \in NodeIds
      BY <1>2, LocalAssumption, MaxClockAssumption DEF TypeOK, StoreInv
    <2>1. CASE AddPeer
      <3>1. PICK c \in [node_id : Peers, addr : Addr] :
              /\ c.node_id # Local
              /\ store' = add_or_update(Local, store, c, clock)
              /\ clock' = clock
              /\ last' = [call |-> "add", id |-> c.node_id,
                          ok   |-> StoreAccepts(Local, store, c.node_id)]
        BY <2>1 DEF AddPeer
      <3>2. c \in Contact
        BY PeersAssumption DEF Contact
      <3>3. StoreAccepts(Local, store, c.node_id) \in BOOLEAN
        BY DEF StoreAccepts, Known, TableAccepts, BucketAccepts
      <3>4. last' \in Calls
        BY <3>1, <3>3 DEF Calls
      <3> QED  BY <2>0, <3>1, <3>2, <3>4, AddOrUpdateOK DEF TypeOK, StoreInv
    <2>2. CASE RemovePeer
      <3>1. PICK id \in Peers : store' = remove(Local, store, id)
                                /\ clock' = clock
                                /\ last' = [call |-> "remove", id |-> id,
                                            ok |-> Known(store, id)]
        BY <2>2 DEF RemovePeer
      <3>2. last' \in Calls
        BY <3>1 DEF Calls, Known
      <3> QED  BY <2>0, <3>1, <3>2, PeersAssumption, RemoveOK
               DEF TypeOK, StoreInv
    <2>3. CASE ClearPeers
      <3>1. last' \in Calls
        BY <2>3 DEF ClearPeers, Calls
      <3> QED  BY <2>0, <2>3, <3>1, EmptyStoreOK
               DEF ClearPeers, clear, TypeOK, StoreInv
    <2>4. CASE Tick
      <3>1. /\ clock' = clock + 1 /\ clock < MaxClock
            /\ store' = store /\ last' = last
        BY <2>4 DEF Tick
      <3>2. clock' \in 0 .. MaxClock
        BY <2>0, <3>1, MaxClockAssumption
      <3> QED  BY <2>0, <3>1, <3>2, LaterOK DEF TypeOK, StoreInv
    <2>5. CASE UNCHANGED vars
      BY <2>0, <2>5 DEF vars, TypeOK, StoreInv
    <2> QED  BY <1>2, <2>1, <2>2, <2>3, <2>4, <2>5 DEF Next
  <1> QED  BY <1>1, <1>2

(* The store and the clock keep their types under every sequence of calls  *)
(* of add_or_update, remove and clear.                                     *)
THEOREM TypeCorrect == Spec => []TypeOK
PROOF
  <1> QED  BY StoreInvInductive, PTL DEF Spec

(* Whatever the identifiers, the bucket capacity and the sequence of calls *)
(* of add_or_update, remove and clear: table and records hold the same     *)
(* peers with the same addresses, each once, in its own bucket, and no     *)
(* bucket exceeds its capacity.                                            *)
THEOREM StoreStaysConsistent == Spec => []StoreConsistent
PROOF
  <1>1. StoreInv => StoreConsistent
    BY DEF StoreInv, StoreOK, StoreConsistent
  <1> QED  BY <1>1, StoreInvInductive, PTL DEF Spec

(* As long as time.time() does not run backwards, the order of a bucket is *)
(* the order of the last_seen times.                                       *)
THEOREM BucketsStayOrdered == Spec => []BucketOrderIsLastSeen
PROOF
  <1>1. StoreInv => BucketOrderIsLastSeen
    BY DEF StoreInv, StoreOK, BucketOrderIsLastSeen
  <1> QED  BY <1>1, StoreInvInductive, PTL DEF Spec

(* No step of the store displaces a known peer by another one, so a full   *)
(* bucket drops the newcomer: peers leave by remove or clear only.         *)
THEOREM NobodyIsEvicted == Spec => NoEviction
PROOF
  <1> DEFINE old  == TableIds(store.table)
             new  == TableIds(store'.table)
             lost == old \ new
             won  == new \ old
             Kept == lost # {} => /\ won = {}
                                  /\ \/ new = {}
                                     \/ \E id \in lost : lost = {id}
  <1>1. TypeOK /\ StoreInv /\ TypeOK' /\ [Next]_vars => [Kept]_vars
    <2> SUFFICES ASSUME TypeOK, StoreInv, TypeOK', Next PROVE Kept
      OBVIOUS
    <2>1. store \in Store /\ store.table \in Table /\ store'.table \in Table
      BY DEF TypeOK, Store
    <2>2. \A i \in BitPositions : /\ store.table[i] \in Seq(Contact)
                                  /\ Distinct(store.table[i])
                                  /\ Len(store.table[i]) <= K
      BY <2>1 DEF Table, StoreInv, StoreOK, NoDuplicates, Distinct,
                  BucketsBounded
    <2>3. CASE AddPeer
      <3>1. PICK c \in [node_id : Peers, addr : Addr] :
                    /\ c.node_id # Local
                    /\ store' = add_or_update(Local, store, c, clock)
        BY <2>3 DEF AddPeer
      <3>2. c \in Contact /\ c.node_id \in NodeIds
        BY PeersAssumption DEF Contact
      <3> DEFINE i0 == bucket_index(Local, c.node_id)
      <3>3. i0 \in BitPositions
        BY <3>1, <3>2, BucketIndexType, LocalAssumption
      <3>4. store'.table = [store.table EXCEPT ![i0] = BucketAdd(@, c)]
        BY <3>1 DEF add_or_update, TableAdd
      <3>5. BucketIds(store.table[i0]) \subseteq BucketIds(BucketAdd(store.table[i0], c))
        <4>1. CASE BucketAccepts(store.table[i0], c.node_id)
          BY <2>2, <3>2, <3>3, <4>1, BucketAddKeeps
        <4>2. CASE ~BucketAccepts(store.table[i0], c.node_id)
          BY <4>2 DEF BucketAdd
        <4> QED  BY <4>1, <4>2
      <3>6. \A i \in BitPositions :
               BucketIds(store.table[i]) \subseteq BucketIds(store'.table[i])
        <4> HIDE DEF i0
        <4> QED  BY <2>1, <3>3, <3>4, <3>5 DEF Table
      <3> QED  BY <2>1, <3>6, TableIdsByBucket
    <2>4. CASE RemovePeer
      <3>1. PICK id \in Peers : store' = remove(Local, store, id)
        BY <2>4 DEF RemovePeer
      <3>2. id \in NodeIds
        BY PeersAssumption
      <3>3. \A i \in BitPositions :
               /\ BucketIds(store'.table[i]) \subseteq BucketIds(store.table[i])
               /\ BucketIds(store.table[i]) \subseteq
                    BucketIds(store'.table[i]) \cup {id}
        <4>1. CASE ~Known(store, id) \/ id = Local
          BY <2>1, <3>1, <4>1 DEF remove, TableRemove
        <4>2. CASE Known(store, id) /\ id # Local
          <5> DEFINE i0 == bucket_index(Local, id)
          <5>1. i0 \in BitPositions
            BY <3>2, <4>2, BucketIndexType, LocalAssumption
          <5>2. store'.table = [store.table EXCEPT ![i0] = BucketRemove(@, id)]
            BY <3>1, <4>2 DEF remove, TableRemove
          <5>3. BucketIds(BucketRemove(store.table[i0], id))
                  = BucketIds(store.table[i0]) \ {id}
            BY <2>2, <3>2, <5>1, BucketRemoveKeeps
          <5> HIDE DEF i0
          <5> QED  BY <2>1, <5>1, <5>2, <5>3 DEF Table
        <4> QED  BY <4>1, <4>2
      <3>4. new \subseteq old /\ old \subseteq new \cup {id}
        BY <2>1, <3>3, TableIdsByBucket
      <3> QED  BY <3>4
    <2>5. CASE ClearPeers
      <3>1. \A i \in BitPositions : BucketIds(store'.table[i]) = {}
        BY <2>5 DEF ClearPeers, clear, EmptyStore, EmptyTable, BucketIds
      <3>2. new = {}
        BY <2>1, <3>1, TableIdsByBucket
      <3> QED  BY <3>2
    <2>6. CASE Tick
      BY <2>6 DEF Tick
    <2> QED  BY <2>3, <2>4, <2>5, <2>6 DEF Next
  <1>2. Spec => [](TypeOK /\ StoreInv)
    BY StoreInvInductive, PTL DEF Spec
  <1> QED  BY <1>1, <1>2, PTL DEF Spec, NoEviction

(* find_closest answers every lookup with the K known peers nearest to the *)
(* target, in ascending order, whatever calls built the store: the XOR     *)
(* metric tells any two identifiers apart, and the table holds exactly the *)
(* peers of the record dictionary.                                         *)
THEOREM LookupsFindNearest == Spec => []LookupFindsNearest
PROOF
  <1>1. TypeOK /\ StoreInv => LookupFindsNearest
    <2> SUFFICES ASSUME TypeOK, StoreInv, NEW target \in NodeIds, NEW k \in Sizes
                 PROVE  ListsNearest(store, target, k,
                                     find_closest(store.table, target, k))
      BY DEF LookupFindsNearest
    <2>1. /\ store \in Store /\ Local \in NodeIds /\ k \in Nat
          /\ StoreOK(Local, store, clock)
      BY LocalAssumption, SizesAssumption DEF TypeOK, StoreInv
    <2> QED  BY <2>1, FindClosestNearest
  <1> QED  BY <1>1, StoreInvInductive, PTL DEF Spec

(* Whoever asks this node by FIND_NODE gets the nearest of the peers it    *)
(* knows, nearest first, as many as both handlers' k allow: sorting and    *)
(* cutting twice, with two k, is the lookup with the smaller one.          *)
THEOREM RepliesStayNearest == Spec => []RepliesNearest
PROOF
  <1>1. TypeOK /\ StoreInv => RepliesNearest
    <2> SUFFICES ASSUME TypeOK, StoreInv, NEW asker \in NodeIds,
                        NEW its \in Sizes, NEW mine \in Sizes
                 PROVE  ListsNearest(store, asker, Min({its, mine}),
                                     found_nodes(store, asker, its, mine))
      BY DEF RepliesNearest
    <2>1. /\ store \in Store /\ Local \in NodeIds
          /\ StoreOK(Local, store, clock)
          /\ its \in Nat /\ mine \in Nat
      BY LocalAssumption, SizesAssumption DEF TypeOK, StoreInv
    <2>2. Min({its, mine}) \in Nat
      BY <2>1 DEF Min
    <2>3. found_nodes(store, asker, its, mine)
            = find_closest(store.table, asker, Min({its, mine}))
      BY <2>1, FoundNodesAreClosest
    <2> QED  BY <2>1, <2>2, <2>3, FindClosestNearest
  <1> QED  BY <1>1, StoreInvInductive, PTL DEF Spec

(* The bit position that chooses a bucket and the distance that orders a   *)
(* lookup agree: bucket i holds peers at distances from 2^i to 2^(i+1)-1,  *)
(* for every identifier length.                                            *)
THEOREM BucketsKeepRanges == Spec => []BucketsCoverRanges
PROOF
  <1>1. TypeOK /\ StoreInv => BucketsCoverRanges
    <2> SUFFICES ASSUME TypeOK, StoreInv, NEW i \in BitPositions,
                        NEW n \in DOMAIN store.table[i]
                 PROVE  LET d == xor_distance(Local, store.table[i][n].node_id)
                        IN  PowerOfTwo[i] <= d /\ d < PowerOfTwo[i + 1]
      BY DEF BucketsCoverRanges
    <2> DEFINE id == store.table[i][n].node_id
    <2>1. store.table[i] \in Seq(Contact)
      BY DEF TypeOK, Store, Table
    <2>2. store.table[i][n] \in Contact
      BY <2>1
    <2>3. id \in NodeIds /\ id # Local /\ bucket_index(Local, id) = i
      BY <2>2 DEF Contact, StoreInv, StoreOK, InOwnBucket
    <2> HIDE DEF id
    <2>4. /\ PowerOfTwo[i] <= xor_distance(Local, id)
          /\ xor_distance(Local, id) < PowerOfTwo[i + 1]
      BY <2>3, BucketRange, LocalAssumption
    <2> QED  BY <2>4 DEF id
  <1> QED  BY <1>1, StoreInvInductive, PTL DEF Spec

-----------------------------------------------------------------------------
(* The store as a dictionary *)

(* A bucket is as long as there are known peers that belong in it: no      *)
(* place is taken by a contact without a record or by one that is there    *)
(* twice.                                                                  *)
LEMMA BucketCountsMembers ==
    ASSUME NEW st \in Store, NEW now, StoreOK(Local, st, now),
           NEW i \in BitPositions
    PROVE  LET M == {id \in KnownIds(st) : BucketOf[id] = i}
           IN  /\ M = BucketIds(st.table[i])
               /\ Cardinality(M) = Len(st.table[i])
PROOF
  <1> DEFINE M == {id \in KnownIds(st) : BucketOf[id] = i}
             b == st.table[i]
             f == [n \in 1 .. Len(b) |-> b[n].node_id]
  <1>1. /\ b \in Seq(Contact)
        /\ \A n \in DOMAIN b :
              /\ b[n].node_id # Local
              /\ bucket_index(Local, b[n].node_id) = i
              /\ Known(st, b[n].node_id)
        /\ \A m, n \in DOMAIN b : b[m].node_id = b[n].node_id => m = n
        /\ \A id \in KnownIds(st) :
              /\ id \in NodeIds \ {Local}
              /\ id \in BucketIds(st.table[bucket_index(Local, id)])
    BY DEF Store, Table, StoreOK, InOwnBucket, NoDuplicates, TableIsRecorded,
           RecordsAreInTable, KnownIds
  <1> HIDE DEF b
  <1>2. Len(b) \in Nat /\ DOMAIN b = 1 .. Len(b)
        /\ \A n \in 1 .. Len(b) : b[n] \in Contact /\ b[n].node_id \in NodeIds
    <2>1. Len(b) \in Nat /\ DOMAIN b = 1 .. Len(b)
      BY <1>1
    <2>2. \A n \in 1 .. Len(b) : b[n] \in Contact
      BY <1>1
    <2> QED  BY <2>1, <2>2 DEF Contact
  <1>3. M \subseteq BucketIds(b)
    BY <1>1 DEF BucketOf, b
  <1>4. BucketIds(b) \subseteq M
    BY <1>1, <1>2 DEF BucketIds, BucketOf, KnownIds
  <1>5. f \in Bijection(1 .. Len(b), BucketIds(b))
    <2>1. f \in [1 .. Len(b) -> BucketIds(b)]
      BY <1>2 DEF BucketIds
    <2>2. \A m, n \in 1 .. Len(b) : f[m] = f[n] => m = n
      BY <1>1, <1>2
    <2>3. \A x \in BucketIds(b) : \E n \in 1 .. Len(b) : f[n] = x
      BY <1>2 DEF BucketIds
    <2> HIDE DEF f
    <2>4. f \in Injection(1 .. Len(b), BucketIds(b))
      BY <2>1, <2>2 DEF Injection, IsInjective
    <2>5. f \in Surjection(1 .. Len(b), BucketIds(b))
      BY <2>1, <2>3 DEF Surjection
    <2> QED  BY <2>4, <2>5 DEF Bijection
  <1>6. Cardinality(BucketIds(b)) = Cardinality(1 .. Len(b))
    BY <1>2, <1>5, FS_Interval, FS_Bijection DEF ExistsBijection
  <1>7. Cardinality(1 .. Len(b)) = Len(b)
    <2> DEFINE L == Len(b)
    <2>1. L \in Nat /\ 1 \in Int /\ L \in Int
      BY <1>2
    <2> HIDE DEF L
    <2>2. Cardinality(1 .. L) = IF 1 > L THEN 0 ELSE L - 1 + 1
      BY <2>1, FS_Interval
    <2>3. Cardinality(1 .. L) = L
      BY <2>1, <2>2
    <2> QED  BY <2>3 DEF L
  <1> QED  BY <1>3, <1>4, <1>6, <1>7 DEF b

(* add_or_update finds room exactly when the dictionary has a place.       *)
LEMMA AcceptsIsHasPlace ==
    ASSUME TypeOK, StoreInv, NEW id \in NodeIds \ {Local}
    PROVE  StoreAccepts(Local, store, id) = Book!HasPlace(id)
PROOF
  <1> DEFINE i == bucket_index(Local, id)
             M == {x \in KnownIds(store) : BucketOf[x] = i}
             b == store.table[i]
  <1>1. store \in Store /\ StoreOK(Local, store, clock) /\ i \in BitPositions
    BY BucketIndexType, LocalAssumption DEF TypeOK, StoreInv
  <1>2. DOMAIN AddressBook = KnownIds(store) /\ BucketOf[id] = i
    BY DEF AddressBook, BucketOf
  <1>3. Book!Members(BucketOf[id]) = M
        /\ Book!Cardinality(M) = Cardinality(M)
    BY <1>2 DEF Book!Members, Cardinality, Book!Cardinality
  <1>4. M = BucketIds(b) /\ Cardinality(M) = Len(b)
    BY <1>1, BucketCountsMembers
  <1>5. Len(b) \in Nat /\ K \in Nat
    BY <1>1, KAssumption DEF Store, Table
  <1>6. Book!HasPlace(id) = (id \in KnownIds(store) \/ Len(b) < K)
    <2> HIDE DEF M
    <2> QED  BY <1>2, <1>3, <1>4 DEF Book!HasPlace
  <1>7. id \in BucketIds(b) => Known(store, id)
    BY <1>4 DEF KnownIds
  <1>8. StoreAccepts(Local, store, id)
          = (Known(store, id) \/ id \in BucketIds(b) \/ ~(Len(b) >= K))
    BY DEF StoreAccepts, TableAccepts, BucketAccepts, is_full
  <1>9. (Len(b) < K) = ~(Len(b) >= K)
    BY <1>5
  <1>10. (id \in KnownIds(store)) = Known(store, id)
    BY DEF KnownIds, Known
  <1> HIDE DEF b
  <1> QED  BY <1>6, <1>7, <1>8, <1>9, <1>10

(* The store implements PeerBook, for every identifier length, bucket      *)
(* capacity and sequence of calls: nobody is displaced, a newcomer is      *)
(* refused exactly when its bucket has no place left, and every call       *)
(* returns what the dictionary's would.                                    *)
THEOREM StoreImplementsPeerBook == Spec => ImplementsPeerBook
PROOF
  <1>1. Init => Book!Init
    <2> SUFFICES ASSUME Init PROVE Book!Init
      OBVIOUS
    <2>1. KnownIds(store) = {}
      BY DEF Init, EmptyStore, KnownIds, Known
    <2>2. AddressBook = Book!Empty
      BY <2>1 DEF AddressBook, Book!Empty
    <2> QED  BY <2>2 DEF Init, Book!Init
  <1>2. ASSUME TypeOK, StoreInv, [Next]_vars
        PROVE  [Book!Next]_<<AddressBook, last>>
    <2>0. /\ store \in Store /\ store.records \in [NodeIds -> Record \cup {NoRecord}]
          /\ DOMAIN AddressBook = KnownIds(store)
          /\ KnownIds(store) \subseteq NodeIds
      BY <1>2 DEF TypeOK, Store, AddressBook, KnownIds
    <2>1. CASE AddPeer
      <3>1. PICK c \in [node_id : Peers, addr : Addr] :
              /\ c.node_id # Local
              /\ store' = add_or_update(Local, store, c, clock)
              /\ last' = [call |-> "add", id |-> c.node_id,
                          ok   |-> StoreAccepts(Local, store, c.node_id)]
        BY <2>1 DEF AddPeer
      <3> DEFINE id == c.node_id
      <3>2. /\ c \in Contact /\ c.addr \in Addr
            /\ id \in NodeIds \ {Local}
        BY <3>1, PeersAssumption DEF Contact
      <3>3. StoreAccepts(Local, store, id) = Book!HasPlace(id)
        BY <1>2, <3>2, AcceptsIsHasPlace
      <3> DEFINE rec == SeenRecord(store, c, clock)
      <3>4. rec # NoRecord /\ rec.contact = c
        <4>1. rec \in Record
          <5>1. clock \in Nat
            BY <1>2, MaxClockAssumption DEF TypeOK
          <5>2. Known(store, id) => store.records[id].first_seen \in Nat
            BY <2>0, <3>2 DEF Known, Record
          <5> QED  BY <3>2, <5>1, <5>2 DEF SeenRecord, Record
        <4> QED  BY <4>1, NoRecordAssumption DEF SeenRecord
      <3> HIDE DEF rec
      <3>5. AddressBook' = IF Book!HasPlace(id)
                           THEN [x \in DOMAIN AddressBook \cup {id} |->
                                   IF x = id THEN c.addr ELSE AddressBook[x]]
                           ELSE AddressBook
        <4>1. CASE Book!HasPlace(id)
          <5>1. store'.records = [store.records EXCEPT ![id] = rec]
            BY <3>1, <3>3, <4>1 DEF add_or_update, rec
          <5>2. KnownIds(store)' = KnownIds(store) \cup {id}
            BY <2>0, <3>2, <3>4, <5>1 DEF KnownIds, Known
          <5>3. \A x \in KnownIds(store) \cup {id} :
                   store'.records[x].contact.addr
                      = IF x = id THEN c.addr
                        ELSE store.records[x].contact.addr
            BY <2>0, <3>2, <3>4, <5>1
          <5>4. AddressBook' = [x \in KnownIds(store) \cup {id} |->
                                  store'.records[x].contact.addr]
            BY <5>2 DEF AddressBook
          <5> QED  BY <2>0, <4>1, <5>3, <5>4 DEF AddressBook
        <4>2. CASE ~Book!HasPlace(id)
          <5>1. store'.records = store.records
            BY <3>1, <3>3, <4>2 DEF add_or_update
          <5> QED  BY <4>2, <5>1 DEF AddressBook, KnownIds, Known
        <4> QED  BY <4>1, <4>2
      <3>6. Book!Add(id, c.addr)
        BY <3>1, <3>3, <3>5 DEF Book!Add
      <3> QED  BY <3>2, <3>6 DEF Book!Next
    <2>2. CASE RemovePeer
      <3>1. PICK id \in Peers :
              /\ store' = remove(Local, store, id)
              /\ last' = [call |-> "remove", id |-> id,
                          ok |-> Known(store, id)]
        BY <2>2 DEF RemovePeer
      <3>2. id \in NodeIds
        BY PeersAssumption
      <3>3. store'.records = [store.records EXCEPT ![id] = NoRecord]
        BY <2>0, <3>1, <3>2 DEF remove, Known
      <3>4. KnownIds(store)' = KnownIds(store) \ {id}
        BY <2>0, <3>2, <3>3 DEF KnownIds, Known
      <3>5. \A x \in KnownIds(store) \ {id} :
               store'.records[x] = store.records[x]
        BY <2>0, <3>3
      <3>6. AddressBook' = [x \in DOMAIN AddressBook \ {id} |-> AddressBook[x]]
        BY <2>0, <3>4, <3>5 DEF AddressBook
      <3>7. Known(store, id) = (id \in DOMAIN AddressBook)
        BY <2>0, <3>2 DEF KnownIds, Known
      <3>8. Book!Remove(id)
        BY <3>1, <3>6, <3>7 DEF Book!Remove
      <3> QED  BY <3>2, <3>8 DEF Book!Next
    <2>3. CASE ClearPeers
      <3>1. KnownIds(store)' = {}
        BY <2>3 DEF ClearPeers, clear, EmptyStore, KnownIds, Known
      <3>2. AddressBook' = Book!Empty
        BY <3>1 DEF AddressBook, Book!Empty
      <3>3. Book!Clear
        BY <2>3, <3>2 DEF ClearPeers, Book!Clear
      <3> QED  BY <3>3 DEF Book!Next
    <2>4. CASE Tick \/ UNCHANGED vars
      <3>1. store' = store /\ last' = last
        BY <2>4 DEF Tick, vars
      <3> QED  BY <3>1 DEF AddressBook, KnownIds, Known
    <2> QED  BY <1>2, <2>1, <2>2, <2>3, <2>4 DEF Next
  <1>3. Spec => [](TypeOK /\ StoreInv)
    BY StoreInvInductive, PTL DEF Spec
  <1> QED  BY <1>1, <1>2, <1>3, PTL DEF Spec, ImplementsPeerBook, Book!Spec

-----------------------------------------------------------------------------
(* A lookup beside the store *)

(* A PeerLookup finds every peer the store knows and none that it has      *)
(* dropped for as long as it holds the store's own table: the calls of     *)
(* add_or_update and remove in between do no harm, clear alone does.       *)
THEOREM AttachedLookupSeesTheStore ==
    LookupSpec => [](lookup.attached => LookupSeesTheStore)
PROOF
  <1>1. LookupInit => TypeOK /\ StoreInv
    BY StoreInvInductive DEF LookupInit
  <1>2. TypeOK /\ StoreInv /\ [LookupNext]_lookupVars => TypeOK' /\ StoreInv'
    <2>1. [LookupNext]_lookupVars => [Next]_vars
      BY DEF LookupNext, lookupVars, vars, Next, ClearUnderLookup, NewLookup
    <2> QED  BY <2>1, StoreInvInductive
  <1>3. TypeOK /\ StoreInv => (lookup.attached => LookupSeesTheStore)
    <2> SUFFICES ASSUME TypeOK, StoreInv, lookup.attached
                 PROVE  LookupSeesTheStore
      OBVIOUS
    <2>1. TableIds(store.table) = KnownIds(store)
      BY ContactsOfStore, LocalAssumption DEF TypeOK, StoreInv
    <2> QED  BY <2>1 DEF LookupSeesTheStore, LookupTable
  <1> QED  BY <1>1, <1>2, <1>3, PTL DEF LookupSpec

=============================================================================
