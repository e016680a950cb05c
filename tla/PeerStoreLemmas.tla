--------------------------- MODULE PeerStoreLemmas --------------------------
(***************************************************************************)
(* What the operators of NodeId, RoutingTable and PeerStore do, for every  *)
(* identifier length, bucket capacity and store: the lemmas that the       *)
(* proofs about one store (PeerStoreProofs) and about the stores of many   *)
(* nodes (OverlayProofs) rest on.                                          *)
(*                                                                         *)
(* The bucket operations keep a bucket distinct, ordered and bounded       *)
(* (BucketRemoveKeeps, BucketAddKeeps); hence each operation of the store  *)
(* preserves StoreOK (AddOrUpdateOK, RemoveOK, EmptyStoreOK, LaterOK).     *)
(* The distance to a target is a number that tells identifiers apart       *)
(* (DistanceType, DistanceInjective), so that SortByDistance lists every   *)
(* contact once, nearest first (SortByDistanceSorts), and find_closest     *)
(* answers with the nearest ones (FindClosestNearest), in an order that    *)
(* another sort does not change (SortedStays).  The distances of bucket i  *)
(* lie between two powers of two (BucketRange).  The distance is a metric  *)
(* (DistanceIsMetric).                                                     *)
(***************************************************************************)
EXTENDS FindNode, SequenceTheorems, FiniteSetTheorems, WellFoundedInduction,
        TLAPS

(* A nonempty set of bit positions has a greatest element. *)
LEMMA MaxPosition ==
    ASSUME NEW S \in SUBSET BitPositions, S # {}
    PROVE  Max(S) \in S /\ \A y \in S : y <= Max(S)
PROOF
  <1> DEFINE T == {n \in Nat : ID_BITS - n \in S}
             R == {ss \in Nat \X Nat : ss[1] < ss[2]}
  <1>1. S \subseteq Int /\ \A y \in S : 0 <= y /\ y < ID_BITS
    BY IdBitsAssumption DEF BitPositions
  <1>2. \A y \in S : ID_BITS - y \in T
    <2> TAKE y \in S
    <2>1. ID_BITS - (ID_BITS - y) = y /\ ID_BITS - y \in Nat
      BY <1>1, IdBitsAssumption
    <2> QED  BY <2>1
  <1>3. IsWellFoundedOn(R, Nat)
    BY NatLessThanWellFounded DEF OpToRel
  <1>4. PICK x \in T : \A y \in T : ~(<<y, x>> \in R)
    <2>1. T # {} /\ T \subseteq Nat
      BY <1>2
    <2> HIDE DEF R, T
    <2> QED  BY <1>3, <2>1, WFMin
  <1>5. ASSUME NEW y \in S PROVE y <= ID_BITS - x
    <2>1. ~(<<ID_BITS - y, x>> \in R)
      BY <1>2, <1>4
    <2>2. ID_BITS - y \in Nat /\ x \in Nat
      BY <1>2
    <2>3. ~(ID_BITS - y < x)
      BY <2>1, <2>2
    <2> QED  BY <1>1, <2>2, <2>3, IdBitsAssumption
  <1> QED  BY <1>1, <1>5 DEF Max

-----------------------------------------------------------------------------
(* Buckets *)

(* Every identifier but the local one has a bucket. *)
LEMMA BucketIndexType ==
    ASSUME NEW local \in NodeIds, NEW id \in NodeIds, id # local
    PROVE  bucket_index(local, id) \in BitPositions
PROOF
  <1>1. Xor(local, id) \in SUBSET BitPositions /\ Xor(local, id) # {}
    BY DEF NodeIds, Xor
  <1> QED  BY <1>1, MaxPosition DEF bucket_index

(* A bucket without duplicates, and what BucketRemove leaves of it: the    *)
(* other contacts, in the same order.  The function g tells where each of  *)
(* them was.                                                               *)
Distinct(b) == \A m, n \in DOMAIN b : b[m].node_id = b[n].node_id => m = n

\* The elements of r are elements of b, in the same order.
Subsequence(r, b) ==
    \E g \in [1 .. Len(r) -> 1 .. Len(b)] :
        /\ \A m \in 1 .. Len(r) : r[m] = b[g[m]]
        /\ \A m, n \in 1 .. Len(r) : m < n => g[m] < g[n]

LEMMA BucketRemoveKeeps ==
    ASSUME NEW b \in Seq(Contact), Distinct(b), NEW id \in NodeIds,
           NEW r, r = BucketRemove(b, id)
    PROVE  /\ r \in Seq(Contact)
           /\ Len(r) = IF id \in BucketIds(b) THEN Len(b) - 1 ELSE Len(b)
           /\ Subsequence(r, b)
           /\ BucketIds(r) = BucketIds(b) \ {id}
PROOF
  <1>0. DOMAIN b = 1 .. Len(b) /\ Len(b) \in Nat
    BY LenProperties
  <1>1. CASE id \notin BucketIds(b)
    <2>1. r = b
      BY <1>1 DEF BucketRemove
    <2>3. Subsequence(r, b)
      <3>1. \E g \in [1 .. Len(b) -> 1 .. Len(b)] :
              /\ \A m \in 1 .. Len(b) : b[m] = b[g[m]]
              /\ \A m, n \in 1 .. Len(b) : m < n => g[m] < g[n]
        <4> WITNESS [i \in 1 .. Len(b) |-> i] \in [1 .. Len(b) -> 1 .. Len(b)]
        <4> QED  OBVIOUS
      <3> QED  BY <2>1, <3>1 DEF Subsequence
    <2>4. BucketIds(r) = BucketIds(b) \ {id}
      BY <1>1, <2>1
    <2> QED  BY <1>1, <2>1, <2>3, <2>4
  <1>2. CASE id \in BucketIds(b)
    <2> DEFINE p == Position(b, id)
               g == [j \in 1 .. Len(b) - 1 |-> IF j < p THEN j ELSE j + 1]
    <2>1. p \in 1 .. Len(b) /\ b[p].node_id = id
      <3>1. PICK i \in DOMAIN b : b[i].node_id = id
        BY <1>2 DEF BucketIds
      <3>2. \A j \in DOMAIN b : b[j].node_id = id => i <= j
        BY <1>0, <3>1 DEF Distinct
      <3> QED  BY <1>0, <3>1, <3>2 DEF Position
    <2> HIDE DEF p
    <2>2. r = SubSeq(b, 1, p - 1) \o SubSeq(b, p + 1, Len(b))
      BY <1>2 DEF BucketRemove, RemoveAt, p
    <2> DEFINE front == SubSeq(b, 1, p - 1)
               back  == SubSeq(b, p + 1, Len(b))
    <2>a. \A i \in 1 .. Len(b) : b[i] \in Contact
      BY <1>0
    <2>3. /\ front \in Seq(Contact)
          /\ Len(front) = p - 1
          /\ \A i \in 1 .. p - 1 : front[i] = b[i]
      <3>1. \A i \in 1 .. p - 1 : b[i] \in Contact
        BY <1>0, <2>1, <2>a
      <3> QED  BY <1>0, <2>1, <3>1, SubSeqProperties
    <2>4. /\ back \in Seq(Contact)
          /\ Len(back) = Len(b) - p
          /\ \A i \in 1 .. Len(b) - p : back[i] = b[p + i]
      <3>1. \A i \in p + 1 .. Len(b) : b[i] \in Contact
        BY <1>0, <2>1, <2>a
      <3>2. \A i \in 1 .. Len(b) - (p + 1) + 1 : back[i] = b[(p + 1) + i - 1]
        BY <1>0, <2>1, <3>1, SubSeqProperties
      <3>3. /\ back \in Seq(Contact)
            /\ Len(back) = IF p + 1 <= Len(b) THEN Len(b) - (p + 1) + 1 ELSE 0
        BY <1>0, <2>1, <3>1, SubSeqProperties
      <3>4. ASSUME NEW i \in 1 .. Len(b) - p PROVE back[i] = b[p + i]
        <4>1. (p + 1) + i - 1 = p + i /\ i \in 1 .. Len(b) - (p + 1) + 1
          BY <1>0, <2>1
        <4> HIDE DEF back
        <4> QED  BY <3>2, <4>1
      <3> HIDE DEF back
      <3>5. Len(back) = Len(b) - p
        <4>1. CASE p + 1 <= Len(b)
          BY <1>0, <2>1, <3>3, <4>1
        <4>2. CASE p = Len(b)
          BY <1>0, <2>1, <3>3, <4>2
        <4>3. \A l \in Nat : \A q \in 1 .. l : q + 1 <= l \/ q = l
          OBVIOUS
        <4> QED  BY <1>0, <2>1, <4>1, <4>2, <4>3
      <3> QED  BY <3>3, <3>4, <3>5
    <2> HIDE DEF front, back
    <2>5. /\ r \in Seq(Contact)
          /\ Len(r) = Len(b) - 1
          /\ \A i \in 1 .. Len(b) - 1 :
                r[i] = IF i <= p - 1 THEN front[i] ELSE back[i - (p - 1)]
      <3>1. r = front \o back
        BY <2>2 DEF front, back
      <3>2. (p - 1) + (Len(b) - p) = Len(b) - 1
        BY <1>0, <2>1
      <3> QED  BY <2>3, <2>4, <3>1, <3>2, ConcatProperties
    <2>6. \A i \in 1 .. Len(b) - 1 : r[i] = b[IF i < p THEN i ELSE i + 1]
      <3> SUFFICES ASSUME NEW i \in 1 .. Len(b) - 1
                   PROVE  r[i] = b[IF i < p THEN i ELSE i + 1]
        OBVIOUS
      <3>1. CASE i < p
        BY <1>0, <2>1, <2>3, <2>5, <3>1
      <3>2. CASE ~(i < p)
        <4>1. i - (p - 1) \in 1 .. Len(b) - p /\ p + (i - (p - 1)) = i + 1
          BY <1>0, <2>1, <3>2
        <4>2. r[i] = back[i - (p - 1)]
          BY <1>0, <2>1, <2>5, <3>2
        <4> QED  BY <2>4, <3>2, <4>1, <4>2
      <3> QED  BY <3>1, <3>2
    <2>7. /\ g \in [1 .. Len(r) -> 1 .. Len(b)]
          /\ \A m \in 1 .. Len(r) : r[m] = b[g[m]]
          /\ \A m, n \in 1 .. Len(r) : m < n => g[m] < g[n]
      BY <1>0, <2>1, <2>5, <2>6
    <2>8. BucketIds(r) = BucketIds(b) \ {id}
      <3>1. DOMAIN r = 1 .. Len(b) - 1
        BY <2>5
      <3>2. ASSUME NEW i \in DOMAIN r
            PROVE  r[i].node_id \in BucketIds(b) \ {id}
        <4>1. g[i] \in DOMAIN b /\ g[i] # p /\ r[i] = b[g[i]]
          BY <1>0, <2>1, <2>5, <2>7, <3>1
        <4> QED  BY <1>0, <2>1, <4>1 DEF BucketIds, Distinct
      <3>3. ASSUME NEW i \in DOMAIN b, b[i].node_id # id
            PROVE  b[i].node_id \in BucketIds(r)
        <4>1. i # p /\ i \in 1 .. Len(b)
          BY <1>0, <2>1, <3>3
        <4>2. CASE i < p
          BY <2>1, <2>6, <3>1, <4>1, <4>2 DEF BucketIds
        <4>3. CASE p < i
          <5>1. i - 1 \in DOMAIN r /\ r[i - 1] = b[i]
            BY <1>0, <2>1, <2>6, <3>1, <4>1, <4>3
          <5> QED  BY <5>1 DEF BucketIds
        <4> QED  BY <1>0, <2>1, <4>1, <4>2, <4>3
      <3> QED  BY <3>2, <3>3 DEF BucketIds
    <2>9. Subsequence(r, b)
      BY <2>7 DEF Subsequence
    <2> QED  BY <1>2, <2>5, <2>8, <2>9
  <1> QED  BY <1>1, <1>2

(* What BucketAdd makes of a bucket that accepts the contact: the new      *)
(* contact at the tail, before it the others in their old order.           *)
LEMMA BucketAddKeeps ==
    ASSUME NEW b \in Seq(Contact), Distinct(b), Len(b) <= K,
           NEW c \in Contact, BucketAccepts(b, c.node_id),
           NEW r, r = BucketAdd(b, c)
    PROVE  /\ r \in Seq(Contact)
           /\ Len(r) \in 1 .. K
           /\ r[Len(r)] = c
           /\ Distinct(r)
           /\ BucketIds(r) = BucketIds(b) \cup {c.node_id}
           /\ \E g \in [1 .. Len(r) - 1 -> 1 .. Len(b)] :
                 /\ \A m \in 1 .. Len(r) - 1 :
                       r[m] = b[g[m]] /\ r[m].node_id # c.node_id
                 /\ \A m, n \in 1 .. Len(r) - 1 : m < n => g[m] < g[n]
PROOF
  <1> DEFINE x == BucketRemove(b, c.node_id)
  <1>1. c.node_id \in NodeIds
    BY DEF Contact
  <1>2. /\ x \in Seq(Contact)
        /\ Len(x) = IF c.node_id \in BucketIds(b) THEN Len(b) - 1 ELSE Len(b)
        /\ BucketIds(x) = BucketIds(b) \ {c.node_id}
    BY <1>1, BucketRemoveKeeps
  <1>3. PICK g \in [1 .. Len(x) -> 1 .. Len(b)] :
          /\ \A m \in 1 .. Len(x) : x[m] = b[g[m]]
          /\ \A m, n \in 1 .. Len(x) : m < n => g[m] < g[n]
    <2>1. Subsequence(x, b)
      BY <1>1, BucketRemoveKeeps
    <2> QED  BY <2>1 DEF Subsequence
  <1>4. r = Append(x, c)
    BY DEF BucketAdd
  <1> HIDE DEF x
  <1>5. Len(x) \in Nat /\ Len(b) \in Nat /\ K \in Nat /\ Len(x) < K
    <2>1. c.node_id \in BucketIds(b) => Len(b) > 0
      BY DEF BucketIds
    <2> QED  BY <1>2, <2>1, KAssumption DEF BucketAccepts, is_full
  <1>6. /\ r \in Seq(Contact)
        /\ Len(r) = Len(x) + 1
        /\ \A m \in 1 .. Len(x) : r[m] = x[m]
        /\ r[Len(x) + 1] = c
    BY <1>2, <1>4, AppendProperties
  <1>7. \A m \in 1 .. Len(x) : r[m] = b[g[m]] /\ r[m].node_id # c.node_id
    <2> TAKE m \in 1 .. Len(x)
    <2>1. x[m].node_id \in BucketIds(x)
      BY <1>2 DEF BucketIds
    <2> QED  BY <1>2, <1>3, <1>6, <2>1
  <1>8. Len(r) - 1 = Len(x)
    BY <1>5, <1>6
  <1>9. Distinct(r)
    <2> SUFFICES ASSUME NEW m \in 1 .. Len(r), NEW n \in 1 .. Len(r), m < n,
                        r[m].node_id = r[n].node_id
                 PROVE  FALSE
      BY <1>6 DEF Distinct
    <2>1. m \in 1 .. Len(x)
      BY <1>5, <1>6
    <2>2. n # Len(x) + 1
      BY <1>6, <1>7, <2>1
    <2>3. n \in 1 .. Len(x)
      <3>1. n \in 1 .. Len(x) + 1
        BY <1>6
      <3>2. \A l \in Nat : \A q \in 1 .. l + 1 : q # l + 1 => q \in 1 .. l
        OBVIOUS
      <3> QED  BY <1>5, <2>2, <3>1, <3>2
    <2>4. g[m] < g[n] /\ g[m] \in 1 .. Len(b) /\ g[n] \in 1 .. Len(b)
      BY <1>3, <2>1, <2>3
    <2>5. b[g[m]].node_id = b[g[n]].node_id
      BY <1>7, <2>1, <2>3
    <2>6. g[m] = g[n]
      BY <2>4, <2>5 DEF Distinct
    <2> QED  BY <2>4, <2>6
  <1>10. BucketIds(r) = BucketIds(b) \cup {c.node_id}
    <2>1. DOMAIN r = 1 .. Len(x) + 1 /\ DOMAIN x = 1 .. Len(x)
      BY <1>2, <1>6
    <2>2. BucketIds(r) = BucketIds(x) \cup {c.node_id}
      BY <1>5, <1>6, <2>1 DEF BucketIds
    <2> QED  BY <1>2, <2>2
  <1>11. g \in [1 .. Len(r) - 1 -> 1 .. Len(b)]
    BY <1>8
  <1> QED  BY <1>3, <1>5, <1>6, <1>7, <1>8, <1>9, <1>10, <1>11

-----------------------------------------------------------------------------
(* Stores *)

(* add_or_update keeps a correct store correct.  A known peer is in its     *)
(* bucket, so the table accepts it: the record written whatever the table   *)
(* answers is never a record without a contact.                             *)
LEMMA AddOrUpdateOK ==
    ASSUME NEW local \in NodeIds, NEW st \in Store, NEW now \in Nat,
           StoreOK(local, st, now),
           NEW c \in Contact, c.node_id # local
    PROVE  /\ add_or_update(local, st, c, now) \in Store
           /\ StoreOK(local, add_or_update(local, st, c, now), now)
PROOF
  <1> DEFINE id == c.node_id
             i0 == bucket_index(local, id)
             b  == st.table[i0]
             r  == BucketAdd(b, c)
             s2 == add_or_update(local, st, c, now)
  <1>1. id \in NodeIds /\ i0 \in BitPositions
    BY BucketIndexType DEF Contact
  <1>2. /\ st.table \in [BitPositions -> Seq(Contact)]
        /\ st.records \in [NodeIds -> Record \cup {NoRecord}]
        /\ b \in Seq(Contact)
    BY <1>1 DEF Store, Table
  <1>3. StoreAccepts(local, st, id) <=> BucketAccepts(b, id)
    BY <1>1 DEF StoreAccepts, TableAccepts, StoreOK, RecordsAreInTable,
                BucketAccepts
  <1>4. s2.table = [st.table EXCEPT ![i0] = r]
    BY DEF add_or_update, TableAdd
  <1>5. CASE ~BucketAccepts(b, id)
    <2>1. r = b
      BY <1>5 DEF BucketAdd
    <2>2. s2.table = st.table
      BY <1>1, <1>2, <1>4, <2>1
    <2>3. s2.records = st.records
      BY <1>3, <1>5 DEF add_or_update
    <2>4. s2 = [table |-> s2.table, records |-> s2.records]
      BY DEF add_or_update
    <2>5. st = [table |-> st.table, records |-> st.records]
      BY DEF Store
    <2>6. s2 = st
      BY <2>2, <2>3, <2>4, <2>5
    <2> QED  BY <2>6
  <1>6. CASE BucketAccepts(b, id)
    <2> DEFINE rec == SeenRecord(st, c, now)
    <2>1. Distinct(b) /\ Len(b) <= K
      BY <1>1 DEF StoreOK, NoDuplicates, BucketsBounded, Distinct
    <2>2. /\ r \in Seq(Contact)
          /\ Len(r) \in 1 .. K
          /\ r[Len(r)] = c
          /\ Distinct(r)
          /\ BucketIds(r) = BucketIds(b) \cup {id}
      BY <1>2, <1>6, <2>1, BucketAddKeeps
    <2>3. PICK g \in [1 .. Len(r) - 1 -> 1 .. Len(b)] :
            /\ \A m \in 1 .. Len(r) - 1 : r[m] = b[g[m]] /\ r[m].node_id # id
            /\ \A m, n \in 1 .. Len(r) - 1 : m < n => g[m] < g[n]
      <3>1. r = BucketAdd(b, c)
        OBVIOUS
      <3> HIDE DEF r, b
      <3> QED  BY <1>2, <1>6, <2>1, <3>1, BucketAddKeeps
    <2>4. /\ s2.table \in [BitPositions -> Seq(Contact)]
          /\ s2.table[i0] = r
          /\ \A i \in BitPositions : i # i0 => s2.table[i] = st.table[i]
      BY <1>1, <1>2, <1>4, <2>2
    <2>5. /\ rec \in Record
          /\ rec.contact = c
          /\ rec.last_seen = now
          /\ rec.first_seen <= now
      <3>1. CASE Known(st, id)
        <4>1. st.records[id] \in Record
          BY <1>1, <1>2, <3>1 DEF Known
        <4>2. /\ st.records[id].first_seen <= st.records[id].last_seen
              /\ st.records[id].last_seen <= now
          BY <1>1, <3>1 DEF StoreOK, TimesOrdered
        <4> QED  BY <3>1, <4>1, <4>2 DEF SeenRecord, Record
      <3>2. CASE ~Known(st, id)
        BY <3>2 DEF SeenRecord, Record
      <3> QED  BY <3>1, <3>2
    <2>6. /\ s2.records \in [NodeIds -> Record \cup {NoRecord}]
          /\ s2.records[id] = rec
          /\ \A x \in NodeIds : x # id => s2.records[x] = st.records[x]
      <3>1. s2.records = [st.records EXCEPT ![id] = rec]
        BY <1>3, <1>6 DEF add_or_update
      <3> HIDE DEF s2, rec
      <3> QED  BY <1>1, <1>2, <2>5, <3>1
    <2>7. s2 \in Store
      <3>1. s2 = [table |-> s2.table, records |-> s2.records]
        BY DEF add_or_update
      <3> HIDE DEF s2
      <3> QED  BY <2>4, <2>6, <3>1 DEF Store, Table
    <2>8. rec # NoRecord
      BY <2>5, NoRecordAssumption
    <2>9. \A i \in BitPositions : \A n \in DOMAIN st.table[i] :
             /\ st.table[i][n].node_id \in NodeIds
             /\ i # i0 => st.table[i][n].node_id # id
      <3> TAKE i \in BitPositions
      <3> TAKE n \in DOMAIN st.table[i]
      <3>1. st.table[i] \in Seq(Contact)
        BY <1>2
      <3>2. st.table[i][n] \in Contact
        BY <3>1
      <3>3. bucket_index(local, st.table[i][n].node_id) = i
        BY DEF StoreOK, InOwnBucket
      <3> QED  BY <3>2, <3>3 DEF Contact
    \* The contacts of the changed bucket: c last, the others from b.
    <2>10. ASSUME NEW m \in DOMAIN r
           PROVE  \/ m = Len(r) /\ r[m] = c
                  \/ /\ m \in 1 .. Len(r) - 1
                     /\ g[m] \in DOMAIN b
                     /\ r[m] = b[g[m]]
                     /\ r[m].node_id \in NodeIds \ {id}
      <3> HIDE DEF r, b, id
      <3>1. Len(r) \in Nat /\ DOMAIN r = 1 .. Len(r) /\ DOMAIN b = 1 .. Len(b)
        BY <1>2, <2>2
      <3>2. \A l \in Nat : \A q \in 1 .. l : q = l \/ q \in 1 .. l - 1
        OBVIOUS
      <3>3. m = Len(r) \/ m \in 1 .. Len(r) - 1
        BY <3>1, <3>2
      <3>4. CASE m = Len(r)
        BY <2>2, <3>4
      <3>5. CASE m \in 1 .. Len(r) - 1
        <4>1. r[m] \in Contact
          BY <2>2
        <4> QED  BY <2>3, <3>1, <3>5, <4>1 DEF Contact
      <3> QED  BY <3>3, <3>4, <3>5
    <2> HIDE DEF s2, rec, r, b, i0
    <2>11. BucketsBounded(s2)
      BY <2>2, <2>4 DEF BucketsBounded, StoreOK
    <2>12. InOwnBucket(local, s2)
      <3> SUFFICES ASSUME NEW i \in BitPositions, NEW n \in DOMAIN s2.table[i]
                   PROVE  /\ s2.table[i][n].node_id # local
                          /\ bucket_index(local, s2.table[i][n].node_id) = i
        BY DEF InOwnBucket
      <3>1. CASE i # i0
        BY <2>4, <3>1 DEF StoreOK, InOwnBucket
      <3>2. CASE i = i0
        BY <1>1, <2>4, <2>10, <3>2 DEF StoreOK, InOwnBucket, b, i0
      <3> QED  BY <3>1, <3>2
    <2>13. NoDuplicates(s2)
      BY <2>2, <2>4 DEF StoreOK, NoDuplicates, Distinct
    <2>14. TableIsRecorded(s2)
      <3> SUFFICES ASSUME NEW i \in BitPositions, NEW n \in DOMAIN s2.table[i]
                   PROVE  /\ s2.records[s2.table[i][n].node_id] # NoRecord
                          /\ s2.records[s2.table[i][n].node_id].contact
                               = s2.table[i][n]
        BY DEF TableIsRecorded, Known
      <3>1. CASE i # i0
        BY <2>4, <2>6, <2>9, <3>1 DEF StoreOK, TableIsRecorded, Known
      <3>2. CASE i = i0
        <4>1. CASE s2.table[i][n] = c
          BY <2>5, <2>6, <2>8, <4>1
        <4>2. CASE s2.table[i][n] # c
          <5>1. PICK m \in DOMAIN b : s2.table[i][n] = b[m]
                                     /\ b[m].node_id \in NodeIds \ {id}
            BY <2>4, <2>10, <3>2, <4>2
          <5> QED  BY <1>1, <2>6, <5>1 DEF StoreOK, TableIsRecorded, Known, b
        <4> QED  BY <4>1, <4>2
      <3> QED  BY <3>1, <3>2
    <2>15. RecordsAreInTable(local, s2)
      <3> SUFFICES ASSUME NEW x \in NodeIds, s2.records[x] # NoRecord
                   PROVE  /\ x # local
                          /\ x \in BucketIds(s2.table[bucket_index(local, x)])
        BY DEF RecordsAreInTable, Known
      <3>1. CASE x = id
        BY <1>1, <2>2, <2>4, <3>1 DEF i0
      <3>2. CASE x # id
        <4>1. x # local /\ x \in BucketIds(st.table[bucket_index(local, x)])
          BY <2>6, <3>2 DEF StoreOK, RecordsAreInTable, Known
        <4>2. bucket_index(local, x) \in BitPositions
          BY <4>1, BucketIndexType
        <4> QED  BY <2>2, <2>4, <4>1, <4>2 DEF b
      <3> QED  BY <3>1, <3>2
    <2>16. TimesOrdered(s2, now)
      <3> SUFFICES ASSUME NEW x \in NodeIds, s2.records[x] # NoRecord
                   PROVE  /\ s2.records[x].first_seen <= s2.records[x].last_seen
                          /\ s2.records[x].last_seen <= now
        BY DEF TimesOrdered, Known
      <3>1. CASE x = id
        BY <2>5, <2>6, <3>1
      <3>2. CASE x # id
        BY <2>6, <3>2 DEF StoreOK, TimesOrdered, Known
      <3> QED  BY <3>1, <3>2
    <2>17. OrderedByLastSeen(s2)
      <3> SUFFICES ASSUME NEW i \in BitPositions,
                          NEW m \in DOMAIN s2.table[i],
                          NEW n \in DOMAIN s2.table[i], m < n
                   PROVE  s2.records[s2.table[i][m].node_id].last_seen
                            <= s2.records[s2.table[i][n].node_id].last_seen
        BY DEF OrderedByLastSeen
      <3>1. CASE i # i0
        <4>1. s2.table[i] = st.table[i]
          BY <2>4, <3>1
        <4>2. /\ s2.records[st.table[i][m].node_id]
                   = st.records[st.table[i][m].node_id]
              /\ s2.records[st.table[i][n].node_id]
                   = st.records[st.table[i][n].node_id]
          BY <2>6, <2>9, <3>1, <4>1
        <4>3. OrderedByLastSeen(st)
          BY DEF StoreOK
        <4> QED  BY <4>1, <4>2, <4>3 DEF OrderedByLastSeen
      <3>2. CASE i = i0
        <4>1. /\ s2.table[i] = r /\ DOMAIN r = 1 .. Len(r)
              /\ m \in 1 .. Len(r) /\ n \in 1 .. Len(r)
          BY <2>2, <2>4, <3>2
        <4>2. m # Len(r)
          BY <2>2, <4>1
        <4>3. /\ m \in 1 .. Len(r) - 1
              /\ g[m] \in DOMAIN b
              /\ r[m] = b[g[m]]
              /\ r[m].node_id \in NodeIds \ {id}
          BY <2>10, <4>1, <4>2
        <4>4. s2.records[r[m].node_id] = st.records[b[g[m]].node_id]
          BY <2>6, <4>3
        <4>5. CASE n = Len(r)
          <5>1. s2.records[r[n].node_id].last_seen = now
            BY <2>2, <2>5, <2>6, <4>5
          <5>2. Known(st, b[g[m]].node_id)
            BY <1>1, <4>3 DEF StoreOK, TableIsRecorded, b
          <5>3. st.records[b[g[m]].node_id].last_seen <= now
            BY <4>3, <5>2 DEF StoreOK, TimesOrdered
          <5> QED  BY <4>1, <4>4, <5>1, <5>3
        <4>6. CASE n # Len(r)
          <5>1. /\ n \in 1 .. Len(r) - 1
                /\ g[n] \in DOMAIN b
                /\ r[n] = b[g[n]]
                /\ r[n].node_id \in NodeIds \ {id}
            BY <2>10, <4>1, <4>6
          <5>2. s2.records[r[n].node_id] = st.records[b[g[n]].node_id]
            BY <2>6, <5>1
          <5>3. g[m] < g[n]
            BY <2>3, <4>3, <5>1
          <5>4. st.records[b[g[m]].node_id].last_seen
                  <= st.records[b[g[n]].node_id].last_seen
            BY <1>1, <4>3, <5>1, <5>3 DEF StoreOK, OrderedByLastSeen, b
          <5> QED  BY <4>1, <4>4, <5>2, <5>4
        <4> QED  BY <4>5, <4>6
      <3> QED  BY <3>1, <3>2
    <2> QED  BY <2>7, <2>11, <2>12, <2>13, <2>14, <2>15, <2>16, <2>17 DEF StoreOK, s2
  <1> QED  BY <1>5, <1>6

(* remove keeps a correct store correct. *)
LEMMA RemoveOK ==
    ASSUME NEW local \in NodeIds, NEW st \in Store, NEW now \in Nat,
           StoreOK(local, st, now), NEW id \in NodeIds
    PROVE  /\ remove(local, st, id) \in Store
           /\ StoreOK(local, remove(local, st, id), now)
PROOF
  <1> DEFINE i0 == bucket_index(local, id)
             b  == st.table[i0]
             r  == BucketRemove(b, id)
             s2 == remove(local, st, id)
  <1>1. CASE ~Known(st, id)
    BY <1>1 DEF remove
  <1>2. CASE Known(st, id)
    <2>1. id # local /\ i0 \in BitPositions
      BY <1>2, BucketIndexType DEF StoreOK, RecordsAreInTable
    <2>2. /\ st.table \in [BitPositions -> Seq(Contact)]
          /\ st.records \in [NodeIds -> Record \cup {NoRecord}]
          /\ b \in Seq(Contact)
      BY <2>1 DEF Store, Table
    <2>3. Distinct(b) /\ Len(b) <= K
      BY <2>1 DEF StoreOK, NoDuplicates, BucketsBounded, Distinct
    <2>4. r = BucketRemove(b, id)
      OBVIOUS
    <2>5. /\ r \in Seq(Contact)
          /\ Len(r) = IF id \in BucketIds(b) THEN Len(b) - 1 ELSE Len(b)
          /\ Subsequence(r, b)
          /\ BucketIds(r) = BucketIds(b) \ {id}
      <3> HIDE DEF r, b, i0, s2
      <3>1. b \in Seq(Contact) /\ Distinct(b) /\ r = BucketRemove(b, id)
        BY <2>2, <2>3, <2>4
      <3> QED  BY <3>1, BucketRemoveKeeps
    <2>6. PICK g \in [1 .. Len(r) -> 1 .. Len(b)] :
            /\ \A m \in 1 .. Len(r) : r[m] = b[g[m]]
            /\ \A m, n \in 1 .. Len(r) : m < n => g[m] < g[n]
      <3> HIDE DEF r, b
      <3> QED  BY <2>5 DEF Subsequence
    <2>7. /\ s2 = [table |-> s2.table, records |-> s2.records]
          /\ s2.table = [st.table EXCEPT ![i0] = r]
          /\ s2.records = [st.records EXCEPT ![id] = NoRecord]
      BY <1>2, <2>1 DEF remove, TableRemove
    <2> HIDE DEF s2, r, b, i0
    <2>8. /\ s2.table \in [BitPositions -> Seq(Contact)]
          /\ s2.table[i0] = r
          /\ \A i \in BitPositions : i # i0 => s2.table[i] = st.table[i]
      BY <2>1, <2>2, <2>5, <2>7
    <2>9. /\ s2.records \in [NodeIds -> Record \cup {NoRecord}]
          /\ s2.records[id] = NoRecord
          /\ \A x \in NodeIds : x # id => s2.records[x] = st.records[x]
      BY <2>2, <2>7
    <2>10. s2 \in Store
      BY <2>7, <2>8, <2>9 DEF Store, Table
    \* Every contact that is left was there before, and is not id.
    <2>11. ASSUME NEW m \in DOMAIN r
           PROVE  /\ m \in 1 .. Len(r)
                  /\ g[m] \in DOMAIN b
                  /\ r[m] = b[g[m]]
                  /\ r[m].node_id \in NodeIds \ {id}
      <3>1. DOMAIN r = 1 .. Len(r) /\ DOMAIN b = 1 .. Len(b)
        BY <2>2, <2>5
      <3>2. r[m] \in Contact /\ r[m].node_id \in BucketIds(r)
        BY <2>5 DEF BucketIds
      <3> QED  BY <2>5, <2>6, <3>1, <3>2 DEF Contact
    <2>12. \A i \in BitPositions : \A n \in DOMAIN st.table[i] :
             /\ st.table[i][n].node_id \in NodeIds
             /\ i # i0 => st.table[i][n].node_id # id
      <3> TAKE i \in BitPositions
      <3> TAKE n \in DOMAIN st.table[i]
      <3>1. st.table[i] \in Seq(Contact)
        BY <2>2
      <3>2. st.table[i][n] \in Contact
        BY <3>1
      <3>3. bucket_index(local, st.table[i][n].node_id) = i
        BY DEF StoreOK, InOwnBucket
      <3> QED  BY <3>2, <3>3 DEF Contact, i0
    \* Every contact of the new table was in the same bucket of the old one,
    \* in the same order, and its record is unchanged.
    <2>13. ASSUME NEW i \in BitPositions, NEW n \in DOMAIN s2.table[i]
           PROVE  \E q \in DOMAIN st.table[i] :
                    /\ s2.table[i][n] = st.table[i][q]
                    /\ s2.table[i][n].node_id \in NodeIds \ {id}
                    /\ s2.records[st.table[i][q].node_id]
                         = st.records[st.table[i][q].node_id]
      <3>1. CASE i # i0
        <4>1. n \in DOMAIN st.table[i] /\ s2.table[i] = st.table[i]
          BY <2>8, <3>1
        <4>2. st.table[i][n].node_id \in NodeIds \ {id}
          BY <2>12, <3>1, <4>1
        <4> QED  BY <2>9, <4>1, <4>2
      <3>2. CASE i = i0
        <4>1. s2.table[i] = r /\ n \in DOMAIN r
          BY <2>8, <3>2
        <4>2. /\ g[n] \in DOMAIN st.table[i]
              /\ s2.table[i][n] = st.table[i][g[n]]
              /\ s2.table[i][n].node_id \in NodeIds \ {id}
          BY <2>11, <3>2, <4>1 DEF b
        <4> QED  BY <2>9, <4>2
      <3> QED  BY <3>1, <3>2
    <2>14. BucketsBounded(s2)
      <3>1. Len(r) <= K
        BY <2>2, <2>3, <2>5, KAssumption
      <3> QED  BY <2>8, <3>1 DEF BucketsBounded, StoreOK
    <2>15. InOwnBucket(local, s2)
      BY <2>13 DEF InOwnBucket, StoreOK
    <2>16. NoDuplicates(s2)
      <3> SUFFICES ASSUME NEW i \in BitPositions,
                          NEW m \in DOMAIN s2.table[i],
                          NEW n \in DOMAIN s2.table[i],
                          s2.table[i][m].node_id = s2.table[i][n].node_id
                   PROVE  m = n
        BY DEF NoDuplicates
      <3>1. CASE i # i0
        BY <2>8, <3>1 DEF StoreOK, NoDuplicates
      <3>2. CASE i = i0
        <4>1. /\ m \in 1 .. Len(r) /\ n \in 1 .. Len(r)
              /\ g[m] \in DOMAIN b /\ g[n] \in DOMAIN b
              /\ b[g[m]].node_id = b[g[n]].node_id
          BY <2>8, <2>11, <3>2
        <4>2. g[m] = g[n] /\ g[m] \in Int /\ Len(r) \in Int
          BY <2>3, <2>5, <2>6, <4>1 DEF Distinct
        <4>3. ~(m < n) /\ ~(n < m)
          BY <2>6, <4>1, <4>2
        <4> QED  BY <4>1, <4>2, <4>3
      <3> QED  BY <3>1, <3>2
    <2>17. TableIsRecorded(s2)
      BY <2>13 DEF TableIsRecorded, StoreOK, Known
    <2>18. RecordsAreInTable(local, s2)
      <3> SUFFICES ASSUME NEW x \in NodeIds, s2.records[x] # NoRecord
                   PROVE  /\ x # local
                          /\ x \in BucketIds(s2.table[bucket_index(local, x)])
        BY DEF RecordsAreInTable, Known
      <3>1. x # id
        BY <2>9
      <3>2. x # local /\ x \in BucketIds(st.table[bucket_index(local, x)])
        BY <2>9, <3>1 DEF StoreOK, RecordsAreInTable, Known
      <3>3. bucket_index(local, x) \in BitPositions
        BY <3>2, BucketIndexType
      <3> QED  BY <2>5, <2>8, <3>1, <3>2, <3>3 DEF b
    <2>19. OrderedByLastSeen(s2)
      <3> SUFFICES ASSUME NEW i \in BitPositions,
                          NEW m \in DOMAIN s2.table[i],
                          NEW n \in DOMAIN s2.table[i], m < n
                   PROVE  s2.records[s2.table[i][m].node_id].last_seen
                            <= s2.records[s2.table[i][n].node_id].last_seen
        BY DEF OrderedByLastSeen
      <3>1. \E p, q \in DOMAIN st.table[i] :
              /\ p < q
              /\ s2.table[i][m] = st.table[i][p]
              /\ s2.table[i][n] = st.table[i][q]
        <4>1. CASE i # i0
          BY <2>8, <4>1
        <4>2. CASE i = i0
          <5>1. /\ m \in 1 .. Len(r) /\ n \in 1 .. Len(r)
                /\ g[m] \in DOMAIN b /\ g[n] \in DOMAIN b
                /\ s2.table[i][m] = b[g[m]] /\ s2.table[i][n] = b[g[n]]
            BY <2>8, <2>11, <4>2
          <5>2. g[m] < g[n]
            BY <2>6, <5>1
          <5> QED  BY <4>2, <5>1, <5>2 DEF b
        <4> QED  BY <4>1, <4>2
      <3>2. PICK p \in DOMAIN st.table[i], q \in DOMAIN st.table[i] :
              /\ p < q
              /\ s2.table[i][m] = st.table[i][p]
              /\ s2.table[i][n] = st.table[i][q]
        BY <3>1
      <3>3. /\ s2.records[s2.table[i][m].node_id]
                 = st.records[st.table[i][p].node_id]
            /\ s2.records[s2.table[i][n].node_id]
                 = st.records[st.table[i][q].node_id]
        BY <2>13, <3>2
      <3>4. OrderedByLastSeen(st)
        BY DEF StoreOK
      <3> QED  BY <3>2, <3>3, <3>4 DEF OrderedByLastSeen
    <2>20. TimesOrdered(s2, now)
      BY <2>9 DEF TimesOrdered, StoreOK, Known
    <2> QED  BY <2>10, <2>14, <2>15, <2>16, <2>17, <2>18, <2>19, <2>20
             DEF StoreOK, s2
  <1> QED  BY <1>1, <1>2

(* A store without peers is correct. *)
LEMMA EmptyStoreOK ==
    ASSUME NEW local \in NodeIds, NEW now \in Nat
    PROVE  EmptyStore \in Store /\ StoreOK(local, EmptyStore, now)
PROOF
  <1>1. << >> \in Seq(Contact) /\ Len(<< >>) = 0 /\ DOMAIN << >> = {}
    OBVIOUS
  <1>2. EmptyStore \in Store
    BY <1>1 DEF EmptyStore, EmptyTable, Store, Table
  <1>3. /\ \A i \in BitPositions : EmptyStore.table[i] = << >>
        /\ \A id \in NodeIds : EmptyStore.records[id] = NoRecord
    BY DEF EmptyStore, EmptyTable
  <1> HIDE DEF EmptyStore
  <1>4. /\ BucketsBounded(EmptyStore)
        /\ InOwnBucket(local, EmptyStore)
        /\ NoDuplicates(EmptyStore)
        /\ TableIsRecorded(EmptyStore)
        /\ OrderedByLastSeen(EmptyStore)
    BY <1>1, <1>3, KAssumption
       DEF BucketsBounded, InOwnBucket, NoDuplicates, TableIsRecorded,
           OrderedByLastSeen
  <1>5. RecordsAreInTable(local, EmptyStore) /\ TimesOrdered(EmptyStore, now)
    BY <1>3 DEF RecordsAreInTable, TimesOrdered, Known
  <1> QED  BY <1>2, <1>4, <1>5 DEF StoreOK

(* Time passing keeps a correct store correct. *)
LEMMA LaterOK ==
    ASSUME NEW local \in NodeIds, NEW st \in Store, NEW now \in Nat,
           StoreOK(local, st, now)
    PROVE  StoreOK(local, st, now + 1)
PROOF
  <1>1. TimesOrdered(st, now + 1)
    <2> SUFFICES ASSUME NEW x \in NodeIds, Known(st, x)
                 PROVE  /\ st.records[x].first_seen <= st.records[x].last_seen
                        /\ st.records[x].last_seen <= now + 1
      BY DEF TimesOrdered
    <2>1. st.records[x].last_seen \in Nat
      BY DEF Store, Record, Known
    <2>2. /\ st.records[x].first_seen <= st.records[x].last_seen
          /\ st.records[x].last_seen <= now
      BY DEF StoreOK, TimesOrdered
    <2> QED  BY <2>1, <2>2
  <1> QED  BY <1>1 DEF StoreOK


(* The identifiers of a table are those of its buckets. *)
LEMMA TableIdsByBucket ==
    ASSUME NEW tbl \in Table, NEW x
    PROVE  x \in TableIds(tbl) <=> \E i \in BitPositions : x \in BucketIds(tbl[i])
PROOF
  BY DEF TableIds, get_all_contacts, BucketIds, Range

-----------------------------------------------------------------------------
(* Induction and recursion *)

(* Induction over the naturals, for a set instead of a predicate. *)
LEMMA SetInduction ==
    ASSUME NEW S, 0 \in S, \A i \in Nat : i \in S => i + 1 \in S
    PROVE  Nat \subseteq S
PROOF
  <1> DEFINE T == Nat \ S
             R == {ss \in Nat \X Nat : ss[1] < ss[2]}
  <1> SUFFICES ASSUME T # {} PROVE FALSE
    OBVIOUS
  <1>1. IsWellFoundedOn(R, Nat)
    BY NatLessThanWellFounded DEF OpToRel
  <1>2. PICK x \in T : \A y \in T : ~(<<y, x>> \in R)
    <2>1. T # {} /\ T \subseteq Nat
      OBVIOUS
    <2> HIDE DEF R, T
    <2> QED  BY <1>1, <2>1, WFMin
  <1>3. x \in Nat /\ x - 1 \in Nat /\ x - 1 < x /\ (x - 1) + 1 = x
    BY <1>2
  <1>4. x - 1 \notin T
    BY <1>2, <1>3
  <1> QED  BY <1>2, <1>3, <1>4

(* A sequence of values can be built from a first one and a function that  *)
(* tells the i-th from the one before it.                                  *)
Iterates(V, v0, step, N, g) ==
    /\ g \in [0 .. N -> V]
    /\ g[0] = v0
    /\ \A i \in 1 .. N : g[i] = step[<<i, g[i - 1]>>]

LEMMA RecursionExists ==
    ASSUME NEW V, NEW v0 \in V, NEW N \in Nat, NEW step \in [Nat \X V -> V]
    PROVE  \E g : Iterates(V, v0, step, N, g)
PROOF
  <1> DEFINE Built(n, g) == Iterates(V, v0, step, n, g)
             S == {n \in Nat : \E g : Built(n, g)}
  <1>1. 0 \in S
    <2>1. Built(0, [i \in 0 .. 0 |-> v0])
      BY DEF Iterates
    <2> QED  BY <2>1
  <1>2. ASSUME NEW n \in Nat, n \in S PROVE n + 1 \in S
    <2>1. PICK g : /\ Built(n, g)
                   /\ g \in [0 .. n -> V] /\ g[0] = v0
                   /\ \A i \in 1 .. n : g[i] = step[<<i, g[i - 1]>>]
      BY <1>2 DEF Iterates
    <2> DEFINE h == [i \in 0 .. n + 1 |->
                       IF i <= n THEN g[i] ELSE step[<<n + 1, g[n]>>]]
    <2>2. g[n] \in V /\ <<n + 1, g[n]>> \in Nat \X V
      BY <2>1
    <2>3. h \in [0 .. n + 1 -> V] /\ h[0] = v0
      BY <2>1, <2>2
    <2>4. \A i \in 1 .. n + 1 : h[i] = step[<<i, h[i - 1]>>]
      <3> SUFFICES ASSUME NEW i \in 1 .. n + 1
                   PROVE  h[i] = step[<<i, h[i - 1]>>]
        OBVIOUS
      <3>1. i - 1 \in 0 .. n + 1 /\ i - 1 <= n /\ h[i - 1] = g[i - 1]
        OBVIOUS
      <3>2. CASE i <= n
        BY <2>1, <3>1, <3>2
      <3>3. CASE ~(i <= n)
        <4>1. i = n + 1 /\ i - 1 = n
          BY <3>3
        <4> QED  BY <3>1, <4>1
      <3> QED  BY <3>2, <3>3
    <2>5. Built(n + 1, h)
      BY <2>3, <2>4 DEF Iterates
    <2> HIDE DEF Built, h
    <2> QED  BY <2>5
  <1> HIDE DEF Built
  <1>3. N \in S
    <2> HIDE DEF S
    <2> QED  BY <1>1, <1>2, SetInduction
  <1> QED  BY <1>3 DEF Built

-----------------------------------------------------------------------------
(* Distances *)

(* from_bytes reads an identifier bit by bit, from the highest one: it is  *)
(* the last of a sequence of naturals, each made of the one before and of  *)
(* the next bit.                                                           *)
LEMMA FromBytesReads ==
    ASSUME NEW id
    PROVE  \E f \in [0 .. ID_BITS -> Nat] :
              /\ from_bytes(id) = f[ID_BITS]
              /\ f[0] = 0
              /\ \A i \in 1 .. ID_BITS :
                    f[i] = 2 * f[i - 1] + (IF ID_BITS - i \in id THEN 1 ELSE 0)
PROOF
  <1> DEFINE Bit(i) == IF ID_BITS - i \in id THEN 1 ELSE 0
             Reads(f) == f = [i \in 0 .. ID_BITS |->
                                IF i = 0 THEN 0
                                ELSE 2 * f[i - 1]
                                       + (IF ID_BITS - i \in id THEN 1 ELSE 0)]
             step == [x \in Nat \X Nat |-> 2 * x[2] + Bit(x[1])]
             f == CHOOSE h : Reads(h)
  <1>0. ID_BITS \in Nat
    BY IdBitsAssumption
  <1>1. step \in [Nat \X Nat -> Nat]
    OBVIOUS
  <1>2. PICK g \in [0 .. ID_BITS -> Nat] :
               /\ g[0] = 0
               /\ \A i \in 1 .. ID_BITS : g[i] = step[<<i, g[i - 1]>>]
    <2>1. 0 \in Nat
      OBVIOUS
    <2> HIDE DEF step
    <2>2. \E g : Iterates(Nat, 0, step, ID_BITS, g)
      BY <1>0, <1>1, <2>1, RecursionExists
    <2> QED  BY <2>2 DEF Iterates
  <1>3. Reads(g)
    <2>1. ASSUME NEW i \in 0 .. ID_BITS
          PROVE  g[i] = IF i = 0 THEN 0 ELSE 2 * g[i - 1] + Bit(i)
      <3>1. CASE i # 0
        <4>1. i \in 1 .. ID_BITS /\ i - 1 \in 0 .. ID_BITS /\ i \in Nat
          BY <1>0, <3>1
        <4>2. g[i - 1] \in Nat
          BY <4>1
        <4> QED  BY <1>2, <3>1, <4>1, <4>2
      <3> QED  BY <1>2, <3>1
    <2> QED  BY <2>1
  <1>4. Reads(f)
    BY <1>3
  <1>5. from_bytes(id) = f[ID_BITS]
    BY DEF from_bytes
  <1> HIDE DEF f
  <1>6. f[0] = 0 /\ \A i \in 1 .. ID_BITS : f[i] = 2 * f[i - 1] + Bit(i)
    BY <1>0, <1>4
  <1>7. f \in [0 .. ID_BITS -> Nat]
    <2> DEFINE S == {i \in Nat : i \in 0 .. ID_BITS => f[i] \in Nat}
    <2>1. 0 \in S
      BY <1>6
    <2>2. ASSUME NEW i \in Nat, i \in S PROVE i + 1 \in S
      <3>1. CASE i + 1 \in 0 .. ID_BITS
        <4>1. i \in 0 .. ID_BITS /\ i + 1 \in 1 .. ID_BITS /\ (i + 1) - 1 = i
          BY <1>0, <3>1
        <4>2. f[i] \in Nat
          BY <2>2, <4>1
        <4>3. f[i + 1] = 2 * f[i] + Bit(i + 1)
          BY <1>6, <4>1
        <4> QED  BY <4>2, <4>3
      <3> QED  BY <3>1
    <2>3. Nat \subseteq S
      <3> HIDE DEF S
      <3> QED  BY <2>1, <2>2, SetInduction
    <2>4. \A i \in 0 .. ID_BITS : f[i] \in Nat
      BY <1>0, <2>3
    <2> HIDE DEF S
    <2> QED  BY <1>4, <2>4
  <1> QED  BY <1>5, <1>6, <1>7

(* The number of an identifier is a natural. *)
LEMMA FromBytesType ==
    ASSUME NEW id
    PROVE  from_bytes(id) \in Nat
PROOF
  <1>1. ID_BITS \in 0 .. ID_BITS
    BY IdBitsAssumption
  <1> QED  BY <1>1, FromBytesReads

(* Different identifiers have different numbers: the last bit and the      *)
(* number of the others can be told from 2 * x + bit, so two sequences of  *)
(* FromBytesReads with the same end agree all the way back.                *)
LEMMA FromBytesInjective ==
    ASSUME NEW a \in NodeIds, NEW b \in NodeIds, from_bytes(a) = from_bytes(b)
    PROVE  a = b
PROOF
  <1> DEFINE N == ID_BITS
  <1>0. N \in Nat
    BY IdBitsAssumption
  <1>1. PICK f \in [0 .. N -> Nat] :
              /\ from_bytes(a) = f[N]
              /\ \A i \in 1 .. N :
                    f[i] = 2 * f[i - 1] + (IF N - i \in a THEN 1 ELSE 0)
    BY FromBytesReads
  <1>2. PICK g \in [0 .. N -> Nat] :
              /\ from_bytes(b) = g[N]
              /\ \A i \in 1 .. N :
                    g[i] = 2 * g[i - 1] + (IF N - i \in b THEN 1 ELSE 0)
    BY FromBytesReads
  <1> HIDE DEF N
  <1>3. ASSUME NEW i \in 1 .. N, f[i] = g[i]
        PROVE  f[i - 1] = g[i - 1] /\ (N - i \in a <=> N - i \in b)
    <2>1. i - 1 \in 0 .. N
      BY <1>0
    <2>2. f[i - 1] \in Nat /\ g[i - 1] \in Nat
      BY <2>1
    <2>3. \A x, y \in Nat : \A p, q \in {0, 1} :
             2 * x + p = 2 * y + q => x = y /\ p = q
      OBVIOUS
    <2>4. 2 * f[i - 1] + (IF N - i \in a THEN 1 ELSE 0)
            = 2 * g[i - 1] + (IF N - i \in b THEN 1 ELSE 0)
      BY <1>1, <1>2, <1>3
    <2> QED  BY <2>2, <2>3, <2>4
  <1> DEFINE S == {k \in Nat : k \in 0 .. N => f[N - k] = g[N - k]}
  <1>4. 0 \in S
    <2>1. N - 0 = N
      BY <1>0
    <2>2. f[N] = g[N]
      BY <1>1, <1>2, Zenon
    <2> QED  BY <2>1, <2>2
  <1>5. ASSUME NEW k \in Nat, k \in S PROVE k + 1 \in S
    <2>1. CASE k + 1 \in 0 .. N
      <3>1. k \in 0 .. N /\ N - k \in 1 .. N /\ (N - k) - 1 = N - (k + 1)
        BY <1>0, <2>1
      <3> QED  BY <1>3, <1>5, <3>1
    <2> QED  BY <2>1
  <1>6. Nat \subseteq S
    <2> HIDE DEF S
    <2> QED  BY <1>4, <1>5, SetInduction
  <1>7. ASSUME NEW p \in 0 .. N - 1 PROVE p \in a <=> p \in b
    <2>1. N - p \in 1 .. N /\ p \in Nat /\ p \in 0 .. N /\ N - (N - p) = p
      BY <1>0
    <2>2. f[N - p] = g[N - p]
      BY <1>6, <2>1
    <2> QED  BY <1>3, <2>1, <2>2
  <1>8. a \subseteq 0 .. N - 1 /\ b \subseteq 0 .. N - 1
    BY DEF NodeIds, BitPositions, N
  <1> QED  BY <1>7, <1>8

(* Distances are naturals, and no two identifiers are equally far from a   *)
(* target.                                                                 *)
LEMMA DistanceType ==
    ASSUME NEW a, NEW b
    PROVE  xor_distance(a, b) \in Nat
PROOF
  BY FromBytesType DEF xor_distance

LEMMA DistanceInjective ==
    ASSUME NEW a \in NodeIds, NEW b \in NodeIds, NEW target \in NodeIds,
           xor_distance(a, target) = xor_distance(b, target)
    PROVE  a = b
PROOF
  <1>1. Xor(a, target) \in NodeIds /\ Xor(b, target) \in NodeIds
    BY DEF Xor, NodeIds
  <1>2. Xor(a, target) = Xor(b, target)
    BY <1>1, FromBytesInjective DEF xor_distance
  <1>3. \A x : x \in a <=> x \in b
    BY <1>2 DEF Xor
  <1> QED  BY <1>3 DEF NodeIds

-----------------------------------------------------------------------------
(* Lookups *)

(* Contacts that their identifiers tell apart. *)
OnePerId(S) == \A c, d \in S : c.node_id = d.node_id => c = d

(* Sorting lists every contact once, the nearest first.  The rank of a     *)
(* contact, one more than the number of nearer ones, grows with the        *)
(* distance; so it is injective, and as there are as many ranks as         *)
(* contacts, every rank is taken.                                          *)
LEMMA SortByDistanceSorts ==
    ASSUME NEW S, IsFiniteSet(S), S \subseteq Contact, OnePerId(S),
           NEW target \in NodeIds, NEW s, s = SortByDistance(S, target)
    PROVE  /\ s \in Seq(S)
           /\ Len(s) = Cardinality(S)
           /\ Range(s) = S
           /\ \A i, j \in DOMAIN s : i < j =>
                 xor_distance(s[i].node_id, target)
                   < xor_distance(s[j].node_id, target)
PROOF
  <1> DEFINE N == Cardinality(S)
             near(c) == Nearer(S, target, c)
             dist(c) == xor_distance(c.node_id, target)
             rank == [c \in S |-> Cardinality(near(c)) + 1]
  <1>1. N \in Nat
    BY FS_CardinalityType
  <1>2. \A c \in S : dist(c) \in Nat
    BY DistanceType
  <1>3. ASSUME NEW c \in S, NEW d \in S, dist(c) = dist(d) PROVE c = d
    <2>1. c.node_id \in NodeIds /\ d.node_id \in NodeIds
      BY DEF Contact
    <2>2. c.node_id = d.node_id
      BY <1>3, <2>1, DistanceInjective
    <2> QED  BY <2>2 DEF OnePerId
  <1>4. ASSUME NEW c \in S
        PROVE  /\ near(c) \subseteq S
               /\ c \notin near(c)
               /\ IsFiniteSet(near(c))
               /\ Cardinality(near(c)) \in 0 .. N - 1
    <2>1. near(c) \subseteq S /\ c \notin near(c)
      BY <1>2 DEF Nearer
    <2> HIDE DEF near
    <2>2. IsFiniteSet(S \ {c}) /\ Cardinality(S \ {c}) = N - 1
      BY FS_RemoveElement
    <2>3. near(c) \in SUBSET (S \ {c})
      BY <2>1
    <2>4. IsFiniteSet(near(c)) /\ Cardinality(near(c)) <= N - 1
      BY <2>2, <2>3, FS_Subset
    <2> QED  BY <1>1, <2>1, <2>4, FS_CardinalityType
  <1>5. ASSUME NEW c \in S, NEW d \in S, dist(c) < dist(d)
        PROVE  Cardinality(near(c)) < Cardinality(near(d))
    <2>1. near(c) \cup {c} \in SUBSET near(d)
      BY <1>2, <1>5 DEF Nearer
    <2>2. IsFiniteSet(near(c)) /\ IsFiniteSet(near(d)) /\ c \notin near(c)
      BY <1>4
    <2> HIDE DEF near
    <2>3. Cardinality(near(c) \cup {c}) = Cardinality(near(c)) + 1
      BY <2>2, FS_AddElement
    <2>4. Cardinality(near(c) \cup {c}) <= Cardinality(near(d))
      BY <2>1, <2>2, FS_Subset
    <2>5. Cardinality(near(c)) \in Nat /\ Cardinality(near(d)) \in Nat
      BY <2>2, FS_CardinalityType
    <2> QED  BY <2>3, <2>4, <2>5
  <1> HIDE DEF near
  <1>6. ASSUME NEW c \in S, NEW d \in S,
               Cardinality(near(c)) = Cardinality(near(d))
        PROVE  c = d
    <2>1. ~(dist(c) < dist(d)) /\ ~(dist(d) < dist(c))
      BY <1>4, <1>5, <1>6
    <2>2. dist(c) = dist(d)
      BY <1>2, <2>1
    <2> QED  BY <1>3, <2>2
  <1>7. rank \in Injection(S, 1 .. N)
    <2>1. \A c \in S : Cardinality(near(c)) + 1 \in 1 .. N
      BY <1>1, <1>4
    <2>2. \A c, d \in S : rank[c] = rank[d] => c = d
      BY <1>4, <1>6
    <2>3. rank \in [S -> 1 .. N]
      BY <2>1
    <2> HIDE DEF rank
    <2> QED  BY <2>2, <2>3 DEF Injection, IsInjective
  <1>8. rank \in Surjection(S, 1 .. N)
    <2>1. IsFiniteSet(1 .. N) /\ Cardinality(1 .. N) = N
      BY <1>1, FS_Interval
    <2> HIDE DEF rank
    <2> QED  BY <1>7, <2>1, FS_Injection
  <1>9. ASSUME NEW i \in 1 .. N
        PROVE  s[i] \in S /\ Cardinality(near(s[i])) = i - 1
    <2>1. PICK c \in S : rank[c] = i
      <3> HIDE DEF rank
      <3> QED  BY <1>8 DEF Surjection
    <2>2. Cardinality(near(c)) = i - 1
      BY <1>4, <2>1
    <2>3. s[i] = CHOOSE x \in S : Cardinality(near(x)) = i - 1
      BY DEF SortByDistance, near
    <2> QED  BY <2>2, <2>3
  <1>10. s \in Seq(S) /\ Len(s) = N /\ DOMAIN s = 1 .. N
    <2>1. s = [i \in 1 .. N |-> s[i]]
      BY DEF SortByDistance
    <2>2. \A i \in 1 .. N : s[i] \in S
      BY <1>9
    <2> QED  BY <1>1, <2>1, <2>2
  <1>11. Range(s) = S
    <2>1. Range(s) \subseteq S
      BY <1>9, <1>10 DEF Range
    <2>2. ASSUME NEW c \in S PROVE c \in Range(s)
      <3> DEFINE i == Cardinality(near(c)) + 1
      <3>1. i \in 1 .. N /\ i - 1 = Cardinality(near(c))
        BY <1>1, <1>4
      <3> HIDE DEF i
      <3>2. s[i] = c
        BY <1>6, <1>9, <3>1
      <3> QED  BY <1>10, <3>1, <3>2 DEF Range
    <2> QED  BY <2>1, <2>2
  <1>12. ASSUME NEW i \in 1 .. N, NEW j \in 1 .. N, i < j
         PROVE  dist(s[i]) < dist(s[j])
    <2>1. /\ s[i] \in S /\ Cardinality(near(s[i])) = i - 1
          /\ s[j] \in S /\ Cardinality(near(s[j])) = j - 1
      BY <1>9
    <2>2. s[i] # s[j] /\ ~(j - 1 < i - 1)
      BY <1>12, <2>1
    <2>3. ~(dist(s[j]) < dist(s[i]))
      BY <1>5, <2>1, <2>2
    <2>4. dist(s[i]) # dist(s[j])
      BY <1>3, <2>1, <2>2
    <2> QED  BY <1>2, <2>1, <2>3, <2>4
  <1> QED  BY <1>10, <1>11, <1>12

(* What the slice [: n] keeps: the first contacts, in their order. *)
LEMMA TruncateKeeps ==
    ASSUME NEW S, NEW s \in Seq(S), NEW n \in Nat
    PROVE  /\ Truncate(s, n) \in Seq(S)
           /\ Len(Truncate(s, n)) = IF Len(s) < n THEN Len(s) ELSE n
           /\ \A i \in 1 .. Len(Truncate(s, n)) :
                 i \in 1 .. Len(s) /\ Truncate(s, n)[i] = s[i]
PROOF
  <1> DEFINE l == IF Len(s) < n THEN Len(s) ELSE n
  <1>1. l \in 0 .. Len(s) /\ 1 \in 1 .. Len(s) + 1
    OBVIOUS
  <1>2. Truncate(s, n) = SubSeq(s, 1, l)
    BY DEF Truncate
  <1> HIDE DEF l
  <1>3. /\ SubSeq(s, 1, l) \in Seq(S)
        /\ Len(SubSeq(s, 1, l)) = l
        /\ \A i \in 1 .. l : SubSeq(s, 1, l)[i] = s[i]
    BY <1>1
  <1>4. \A i \in 1 .. l : i \in 1 .. Len(s)
    BY <1>1
  <1> QED  BY <1>2, <1>3, <1>4 DEF l

(* Contacts that are listed nearest first stay where they are when they    *)
(* are sorted and cut again.                                               *)
FirstOf(s, k) == {s[j] : j \in 1 .. k}

LEMMA FirstOfSize ==
    ASSUME NEW S, NEW s \in Seq(S), NEW k \in 0 .. Len(s),
           \A i, j \in 1 .. Len(s) : s[i] = s[j] => i = j
    PROVE  Cardinality(FirstOf(s, k)) = k
PROOF
  <1> DEFINE T == {s[j] : j \in 1 .. k}
             h == [j \in 1 .. k |-> s[j]]
  <1>1. k \in Nat /\ \A j \in 1 .. k : j \in 1 .. Len(s)
    OBVIOUS
  <1>2. h \in [1 .. k -> T] /\ \A x \in T : \E j \in 1 .. k : h[j] = x
    OBVIOUS
  <1>3. \A i, j \in 1 .. k : h[i] = h[j] => i = j
    BY <1>1
  <1> HIDE DEF h, T
  <1>4. h \in Bijection(1 .. k, T)
    BY <1>2, <1>3 DEF Bijection, Injection, Surjection, IsInjective
  <1>5. ExistsBijection(1 .. k, T)
    BY <1>4 DEF ExistsBijection
  <1>6. IsFiniteSet(1 .. k) /\ Cardinality(1 .. k) = k
    BY <1>1, FS_Interval
  <1> QED  BY <1>5, <1>6, FS_Bijection DEF T, FirstOf

LEMMA SortedStays ==
    ASSUME NEW S, NEW s \in Seq(S), NEW target, NEW n \in Nat, Len(s) <= n,
           \A i, j \in DOMAIN s : i < j =>
              xor_distance(s[i].node_id, target)
                < xor_distance(s[j].node_id, target)
    PROVE  Truncate(SortByDistance(Range(s), target), n) = s
PROOF
  <1> DEFINE L == Len(s)
             R == Range(s)
             dist(i) == xor_distance(s[i].node_id, target)
             near(c) == Nearer(R, target, c)
  <1>1. /\ L \in Nat /\ DOMAIN s = 1 .. L
        /\ s \in [1 .. L -> S] /\ R = {s[j] : j \in 1 .. L}
    BY DEF Range
  <1>2. \A i \in 1 .. L : dist(i) \in Nat
    BY DistanceType
  <1>3. \A i, j \in 1 .. L : i < j <=> dist(i) < dist(j)
    <2> SUFFICES ASSUME NEW i \in 1 .. L, NEW j \in 1 .. L
                 PROVE  i < j <=> dist(i) < dist(j)
      OBVIOUS
    <2>1. (i < j => dist(i) < dist(j)) /\ (j < i => dist(j) < dist(i))
      BY <1>1
    <2>2. i = j => dist(i) = dist(j)
      OBVIOUS
    <2> HIDE DEF dist
    <2> QED  BY <1>1, <1>2, <2>1, <2>2
  <1>4. \A i, j \in 1 .. L : s[i] = s[j] => i = j
    <2> SUFFICES ASSUME NEW i \in 1 .. L, NEW j \in 1 .. L, s[i] = s[j]
                 PROVE  i = j
      OBVIOUS
    <2>1. dist(i) = dist(j)
      OBVIOUS
    <2> HIDE DEF dist
    <2> QED  BY <1>1, <1>2, <1>3, <2>1
  <1>5. Cardinality(R) = L
    <2>1. R = FirstOf(s, L) /\ L \in 0 .. Len(s)
      BY <1>1 DEF FirstOf
    <2> QED  BY <1>4, <2>1, FirstOfSize
  <1>6. ASSUME NEW i \in 1 .. L
        PROVE  Cardinality(near(s[i])) = i - 1
    <2>1. near(s[i]) = {s[j] : j \in 1 .. i - 1}
      <3>1. near(s[i]) = {d \in R : xor_distance(d.node_id, target) < dist(i)}
        BY DEF Nearer
      <3>2. ASSUME NEW d \in near(s[i]) PROVE d \in {s[j] : j \in 1 .. i - 1}
        <4>1. PICK j \in 1 .. L : d = s[j]
          BY <1>1, <3>1, <3>2
        <4>2. dist(j) < dist(i)
          BY <3>1, <3>2, <4>1
        <4>3. j \in 1 .. i - 1
          BY <1>1, <1>3, <4>2
        <4> QED  BY <4>1, <4>3
      <3>3. ASSUME NEW j \in 1 .. i - 1 PROVE s[j] \in near(s[i])
        <4>1. j \in 1 .. L /\ j < i
          BY <1>1
        <4>2. dist(j) < dist(i) /\ s[j] \in R
          BY <1>1, <1>3, <4>1
        <4> QED  BY <3>1, <4>2
      <3> HIDE DEF near
      <3> QED  BY <3>2, <3>3
    <2>2. i - 1 \in 0 .. L
      BY <1>1
    <2>3. near(s[i]) = FirstOf(s, i - 1)
      BY <2>1 DEF FirstOf
    <2> QED  BY <1>4, <2>2, <2>3, FirstOfSize
  <1> DEFINE q == SortByDistance(R, target)
  <1>7. q = [i \in 1 .. L |-> CHOOSE c \in R : Cardinality(near(c)) = i - 1]
    BY <1>5 DEF SortByDistance
  <1> HIDE DEF near
  <1>8. ASSUME NEW i \in 1 .. L PROVE q[i] = s[i]
    <2>1. s[i] \in R /\ Cardinality(near(s[i])) = i - 1
      BY <1>1, <1>6
    <2>2. ASSUME NEW c \in R, Cardinality(near(c)) = i - 1 PROVE c = s[i]
      <3>1. PICK j \in 1 .. L : c = s[j]
        BY <1>1
      <3>2. j - 1 = i - 1
        BY <1>6, <2>2, <3>1
      <3>3. j = i
        BY <1>1, <3>2
      <3> QED  BY <3>1, <3>3
    <2>3. q[i] = CHOOSE c \in R : Cardinality(near(c)) = i - 1
      BY <1>7
    <2> HIDE DEF q, R
    <2> QED  BY <2>1, <2>2, <2>3
  <1>9. q = s
    <2>1. q = [i \in 1 .. L |-> q[i]] /\ s = [i \in 1 .. L |-> s[i]]
      BY <1>1, <1>7
    <2> HIDE DEF q
    <2> QED  BY <1>8, <2>1
  <1> HIDE DEF q
  <1>10. Truncate(s, n) = s
    <2>1. /\ Truncate(s, n) \in Seq(S) /\ Len(Truncate(s, n)) = L
          /\ \A i \in 1 .. L : Truncate(s, n)[i] = s[i]
      <3>1. \A a, b \in Nat : a <= b /\ ~(a < b) => a = b
        OBVIOUS
      <3>2. ~(L < n) => L = n
        BY <1>1, <3>1
      <3> QED  BY <3>2, TruncateKeeps
    <2> QED  BY <2>1
  <1> QED  BY <1>9, <1>10 DEF q

(* The contacts of a correct table: finitely many, one per known peer. *)
LEMMA ContactsOfStore ==
    ASSUME NEW local \in NodeIds, NEW st \in Store, NEW now,
           StoreOK(local, st, now)
    PROVE  LET S == get_all_contacts(st.table)
           IN  /\ IsFiniteSet(S)
               /\ S \subseteq Contact
               /\ OnePerId(S)
               /\ TableIds(st.table) = KnownIds(st)
               /\ IsFiniteSet(KnownIds(st))
               /\ Cardinality(KnownIds(st)) = Cardinality(S)
PROOF
  <1> DEFINE S == get_all_contacts(st.table)
             B == [i \in BitPositions |-> Range(st.table[i])]
             id == [c \in S |-> c.node_id]
  <1>1. /\ st.table \in [BitPositions -> Seq(Contact)]
        /\ st.records \in [NodeIds -> Record \cup {NoRecord}]
    BY DEF Store, Table
  <1>2. ASSUME NEW i \in BitPositions
        PROVE  IsFiniteSet(Range(st.table[i])) /\ Range(st.table[i]) \subseteq Contact
    <2> DEFINE b == st.table[i]
    <2>1. b \in Seq(Contact)
      BY <1>1
    <2> HIDE DEF b
    <2>2. Len(b) \in Nat /\ DOMAIN b = 1 .. Len(b) /\ b \in [1 .. Len(b) -> Contact]
      BY <2>1
    <2>3. IsFiniteSet(1 .. Len(b))
      BY <2>2, FS_Interval
    <2>4. b \in Surjection(1 .. Len(b), Range(b)) /\ Range(b) \subseteq Contact
      BY <2>2 DEF Surjection, Range
    <2>5. IsFiniteSet(Range(b))
      BY <2>3, <2>4, FS_Surjection
    <2> QED  BY <2>4, <2>5 DEF b
  <1>3. IsFiniteSet({B[i] : i \in BitPositions})
    <2>1. IsFiniteSet(BitPositions)
      BY IdBitsAssumption, FS_Interval DEF BitPositions
    <2>2. B \in Surjection(BitPositions, {B[i] : i \in BitPositions})
      BY DEF Surjection
    <2> HIDE DEF B
    <2> QED  BY <2>1, <2>2, FS_Surjection
  <1>4. IsFiniteSet(S)
    <2>1. S = UNION {B[i] : i \in BitPositions}
      BY DEF get_all_contacts
    <2>2. \A T \in {B[i] : i \in BitPositions} : IsFiniteSet(T)
      BY <1>2
    <2> HIDE DEF B, S
    <2> QED  BY <1>3, <2>1, <2>2, FS_UNION
  <1>5. S \subseteq Contact
    BY <1>2 DEF get_all_contacts
  <1>6. ASSUME NEW c \in S
        PROVE  /\ c.node_id \in NodeIds
               /\ Known(st, c.node_id)
               /\ st.records[c.node_id].contact = c
    <2>1. PICK i \in BitPositions : \E n \in DOMAIN st.table[i] : c = st.table[i][n]
      BY DEF get_all_contacts, Range
    <2>2. c.node_id \in NodeIds
      BY <1>5 DEF Contact
    <2> QED  BY <2>1, <2>2 DEF StoreOK, TableIsRecorded
  <1>7. OnePerId(S)
    BY <1>6 DEF OnePerId
  <1>8. TableIds(st.table) = KnownIds(st)
    <2>1. TableIds(st.table) \subseteq KnownIds(st)
      BY <1>6 DEF TableIds, KnownIds
    <2>2. ASSUME NEW x \in KnownIds(st) PROVE x \in TableIds(st.table)
      <3>1. /\ x \in NodeIds /\ x # local
            /\ x \in BucketIds(st.table[bucket_index(local, x)])
        BY DEF KnownIds, StoreOK, RecordsAreInTable
      <3>2. bucket_index(local, x) \in BitPositions /\ st.table \in Table
        BY <3>1, BucketIndexType DEF Store
      <3> QED  BY <3>1, <3>2, TableIdsByBucket
    <2> QED  BY <2>1, <2>2
  <1>9. id \in Surjection(S, KnownIds(st)) /\ id \in Injection(S, KnownIds(st))
    <2>1. \A c \in S : id[c] = c.node_id
      OBVIOUS
    <2>2. KnownIds(st) = {c.node_id : c \in S}
      BY <1>8 DEF TableIds
    <2>3. id \in [S -> KnownIds(st)]
      BY <2>2
    <2>4. \A x \in KnownIds(st) : \E c \in S : id[c] = x
      BY <2>1, <2>2
    <2>5. \A c, d \in S : id[c] = id[d] => c = d
      BY <1>7, <2>1 DEF OnePerId
    <2> HIDE DEF id, S
    <2> QED  BY <2>3, <2>4, <2>5 DEF Surjection, Injection, IsInjective
  <1>10. /\ IsFiniteSet(KnownIds(st))
         /\ Cardinality(KnownIds(st)) = Cardinality(S)
    <2> HIDE DEF id, S
    <2> QED  BY <1>4, <1>9, FS_Surjection
  <1> QED  BY <1>4, <1>5, <1>7, <1>8, <1>10

(* find_closest answers with the n nearest contacts of the table, sorted. *)
LEMMA FindClosestNearest ==
    ASSUME NEW local \in NodeIds, NEW st \in Store, NEW now,
           StoreOK(local, st, now), NEW target \in NodeIds, NEW n \in Nat
    PROVE  /\ find_closest(st.table, target, n) \in Seq(get_all_contacts(st.table))
           /\ ListsNearest(st, target, n, find_closest(st.table, target, n))
PROOF
  <1> DEFINE S == get_all_contacts(st.table)
             s == SortByDistance(S, target)
             ans == find_closest(st.table, target, n)
             ids == {ans[i].node_id : i \in DOMAIN ans}
             dist(x) == xor_distance(x, target)
  <1>1. /\ IsFiniteSet(S) /\ S \subseteq Contact /\ OnePerId(S)
        /\ KnownIds(st) = {c.node_id : c \in S}
        /\ Cardinality(KnownIds(st)) = Cardinality(S)
    BY ContactsOfStore DEF TableIds
  <1>2. ans = Truncate(s, n)
    BY DEF find_closest
  <1> HIDE DEF S, s, ans
  <1>3. /\ s \in Seq(S)
        /\ Len(s) = Cardinality(S)
        /\ Range(s) = S
        /\ \A i, j \in DOMAIN s : i < j => dist(s[i].node_id) < dist(s[j].node_id)
    BY <1>1, SortByDistanceSorts DEF s
  <1>4. /\ ans \in Seq(S)
        /\ Len(ans) = IF Len(s) < n THEN Len(s) ELSE n
        /\ \A i \in 1 .. Len(ans) : i \in 1 .. Len(s) /\ ans[i] = s[i]
    BY <1>2, <1>3, TruncateKeeps
  <1>5. DOMAIN s = 1 .. Len(s) /\ DOMAIN ans = 1 .. Len(ans) /\ Len(s) \in Nat
    BY <1>3, <1>4
  <1>6. ids \subseteq KnownIds(st)
    BY <1>1, <1>4, <1>5
  <1>7. \A i, j \in DOMAIN ans : i < j => dist(ans[i].node_id) < dist(ans[j].node_id)
    <2> HIDE DEF dist
    <2> QED  BY <1>3, <1>4, <1>5
  <1>8. ASSUME NEW x \in ids, NEW y \in KnownIds(st) \ ids
        PROVE  dist(x) < dist(y)
    <2>1. PICK i \in 1 .. Len(ans) : x = ans[i].node_id
      BY <1>5
    <2>2. PICK j \in 1 .. Len(s) : y = s[j].node_id
      BY <1>1, <1>3, <1>5 DEF Range
    <2>3. j \notin 1 .. Len(ans)
      BY <1>4, <1>5, <2>2
    <2>4. i \in 1 .. Len(s) /\ i < j
      BY <1>4, <1>5, <2>3
    <2>5. x = s[i].node_id
      BY <1>4, <2>1
    <2> HIDE DEF dist
    <2> QED  BY <1>3, <1>5, <2>2, <2>4, <2>5
  <1>9. Len(ans) = Min({n, Cardinality(KnownIds(st))})
    <2> DEFINE l == Cardinality(KnownIds(st))
    <2>1. l \in Nat /\ Len(ans) = IF l < n THEN l ELSE n
      BY <1>1, <1>3, <1>4, <1>5
    <2> HIDE DEF l
    <2>2. Min({n, l}) = IF l < n THEN l ELSE n
      BY <2>1 DEF Min
    <2> QED  BY <2>1, <2>2 DEF l
  <1>10. ListsNearest(st, target, n, ans)
    BY <1>6, <1>7, <1>8, <1>9 DEF ListsNearest
  <1> QED  BY <1>4, <1>10 DEF S, ans

(* A FIND_NODE exchange gives what one lookup at the responder with the    *)
(* smaller k would: the list that arrives is sorted already, so that the   *)
(* requester's sort leaves it as it is and its cut shortens it once more.  *)
LEMMA FoundNodesAreClosest ==
    ASSUME NEW local \in NodeIds, NEW st \in Store, NEW now,
           StoreOK(local, st, now), NEW target \in NodeIds,
           NEW its \in Nat, NEW mine \in Nat
    PROVE  found_nodes(st, target, its, mine)
             = find_closest(st.table, target, Min({its, mine}))
PROOF
  <1> DEFINE S == get_all_contacts(st.table)
             all == SortByDistance(S, target)
             ans == find_closest(st.table, target, its)
             again == SortByDistance(Range(ans), target)
             k == Min({its, mine})
  <1>1. k \in Nat /\ k = IF its < mine THEN its ELSE mine
    BY DEF Min
  <1>2. all \in Seq(S)
    BY ContactsOfStore, SortByDistanceSorts
  <1>3. /\ ans \in Seq(S) /\ ans = Truncate(all, its)
        /\ \A i, j \in DOMAIN ans : i < j =>
              xor_distance(ans[i].node_id, target)
                < xor_distance(ans[j].node_id, target)
    BY FindClosestNearest DEF find_closest, ListsNearest
  <1>4. again \in Seq(Range(ans))
    <2>1. IsFiniteSet(S) /\ S \subseteq Contact /\ OnePerId(S)
      BY ContactsOfStore
    <2>2. Range(ans) \subseteq S
      BY <1>3 DEF Range
    <2>3. IsFiniteSet(Range(ans)) /\ Range(ans) \subseteq Contact
      BY <2>1, <2>2, FS_Subset
    <2>4. OnePerId(Range(ans))
      BY <2>1, <2>2 DEF OnePerId
    <2> QED  BY <2>3, <2>4, SortByDistanceSorts
  <1>5. /\ found_nodes(st, target, its, mine) = Truncate(again, mine)
        /\ find_closest(st.table, target, k) = Truncate(all, k)
    BY DEF found_nodes, parse_response, handle_request, find_closest
  <1> HIDE DEF all, ans, again, k
  <1>6. again = ans
    <2> DEFINE n == Len(again) + Len(ans)
    <2>1. n \in Nat /\ Len(ans) <= n /\ Len(again) <= n
      BY <1>3, <1>4
    <2>2. Truncate(SortByDistance(Range(ans), target), n) = ans
      BY <1>3, <2>1, SortedStays
    <2>3. Truncate(again, n) = again
      <3>1. /\ Truncate(again, n) \in Seq(Range(ans))
            /\ Len(Truncate(again, n)) = Len(again)
            /\ \A i \in 1 .. Len(Truncate(again, n)) :
                  Truncate(again, n)[i] = again[i]
        BY <1>4, <2>1, TruncateKeeps
      <3> QED  BY <1>4, <3>1
    <2> QED  BY <2>2, <2>3 DEF again
  <1>7. Truncate(ans, mine) = Truncate(all, k)
    <2>1. /\ Truncate(ans, mine) \in Seq(S)
          /\ Len(Truncate(ans, mine)) = IF Len(ans) < mine THEN Len(ans) ELSE mine
          /\ \A i \in 1 .. Len(Truncate(ans, mine)) :
                i \in 1 .. Len(ans) /\ Truncate(ans, mine)[i] = ans[i]
      BY <1>3, TruncateKeeps
    <2>2. /\ Len(ans) = IF Len(all) < its THEN Len(all) ELSE its
          /\ \A i \in 1 .. Len(ans) : ans[i] = all[i]
      BY <1>2, <1>3, TruncateKeeps
    <2>3. /\ Truncate(all, k) \in Seq(S)
          /\ Len(Truncate(all, k)) = IF Len(all) < k THEN Len(all) ELSE k
          /\ \A i \in 1 .. Len(Truncate(all, k)) : Truncate(all, k)[i] = all[i]
      BY <1>1, <1>2, TruncateKeeps
    <2>4. Len(Truncate(ans, mine)) = Len(Truncate(all, k))
      BY <1>1, <1>2, <2>1, <2>2, <2>3
    <2> DEFINE a == Truncate(ans, mine)
               b == Truncate(all, k)
    <2>5. /\ a \in Seq(S) /\ b \in Seq(S) /\ Len(a) = Len(b)
          /\ \A i \in 1 .. Len(a) : a[i] = b[i]
      BY <2>1, <2>2, <2>3, <2>4
    <2> HIDE DEF a, b
    <2>6. a = b
      BY <2>5
    <2> QED  BY <2>6 DEF a, b
  <1> QED  BY <1>5, <1>6, <1>7 DEF k

-----------------------------------------------------------------------------
(* What add_or_update changes *)

(* The peers a correct store knows after add_or_update are the ones it     *)
(* knew and, if it was accepted, the new one; and its table holds no       *)
(* contact but its old ones and the new one.                               *)
LEMMA AddOrUpdateEffect ==
    ASSUME NEW local \in NodeIds, NEW st \in Store, NEW now \in Nat,
           StoreOK(local, st, now),
           NEW c \in Contact, c.node_id # local
    PROVE  /\ KnownIds(add_or_update(local, st, c, now))
                = IF StoreAccepts(local, st, c.node_id)
                  THEN KnownIds(st) \cup {c.node_id} ELSE KnownIds(st)
           /\ get_all_contacts(add_or_update(local, st, c, now).table)
                \subseteq get_all_contacts(st.table) \cup {c}
PROOF
  <1> DEFINE s2 == add_or_update(local, st, c, now)
             id == c.node_id
             i0 == bucket_index(local, id)
             b  == st.table[i0]
             r  == BucketAdd(b, c)
  <1>1. id \in NodeIds /\ i0 \in BitPositions
    BY BucketIndexType DEF Contact
  <1>2. /\ st.table \in [BitPositions -> Seq(Contact)]
        /\ st.records \in [NodeIds -> Record \cup {NoRecord}]
        /\ b \in Seq(Contact)
    BY <1>1 DEF Store, Table
  <1>3. s2.table = [st.table EXCEPT ![i0] = r]
    BY DEF add_or_update, TableAdd
  <1>4. SeenRecord(st, c, now) # NoRecord
    <2>1. SeenRecord(st, c, now) \in Record
      BY <1>1, <1>2 DEF SeenRecord, Known, Record
    <2> QED  BY <2>1, NoRecordAssumption
  <1>5. KnownIds(s2) = IF StoreAccepts(local, st, id)
                       THEN KnownIds(st) \cup {id} ELSE KnownIds(st)
    <2>1. s2.records = IF StoreAccepts(local, st, id)
                       THEN [st.records EXCEPT ![id] = SeenRecord(st, c, now)]
                       ELSE st.records
      BY DEF add_or_update
    <2> QED  BY <1>1, <1>2, <1>4, <2>1 DEF KnownIds, Known
  <1>6. ASSUME NEW m \in DOMAIN r
        PROVE  r[m] = c \/ \E n \in DOMAIN b : r[m] = b[n]
    <2>1. CASE ~BucketAccepts(b, id)
      <3>1. r = b
        BY <2>1 DEF BucketAdd
      <3> QED  BY <1>6, <3>1
    <2>2. CASE BucketAccepts(b, id)
      <3>1. Distinct(b) /\ Len(b) <= K
        BY <1>1 DEF StoreOK, NoDuplicates, BucketsBounded, Distinct
      <3>2. /\ r \in Seq(Contact)
            /\ Len(r) \in 1 .. K
            /\ r[Len(r)] = c
            /\ \E g \in [1 .. Len(r) - 1 -> 1 .. Len(b)] :
                  \A l \in 1 .. Len(r) - 1 : r[l] = b[g[l]]
        <4> HIDE DEF r, b
        <4>1. r = BucketAdd(b, c)
          BY DEF r
        <4> QED  BY <1>2, <2>2, <3>1, <4>1, BucketAddKeeps
      <3> HIDE DEF r, b
      <3>3. m \in 1 .. Len(r) /\ DOMAIN b = 1 .. Len(b)
        BY <1>2, <1>6, <3>2
      <3>4. CASE m = Len(r)
        BY <3>2, <3>4
      <3>5. CASE m # Len(r)
        <4>1. m \in 1 .. Len(r) - 1
          BY <3>2, <3>3, <3>5
        <4> QED  BY <3>2, <3>3, <4>1
      <3> QED  BY <3>4, <3>5
    <2> QED  BY <2>1, <2>2
  <1>7. ASSUME NEW d \in get_all_contacts(s2.table)
        PROVE  d \in get_all_contacts(st.table) \cup {c}
    <2>1. PICK i \in BitPositions : \E m \in DOMAIN s2.table[i] : d = s2.table[i][m]
      BY DEF get_all_contacts, Range
    <2>2. PICK m \in DOMAIN s2.table[i] : d = s2.table[i][m]
      BY <2>1
    <2>3. CASE i # i0
      <3>1. s2.table[i] = st.table[i]
        BY <1>2, <1>3, <2>3
      <3> QED  BY <2>2, <3>1 DEF get_all_contacts, Range
    <2>4. CASE i = i0
      <3>1. s2.table[i] = r
        BY <1>1, <1>2, <1>3, <2>4
      <3>2. d = c \/ \E n \in DOMAIN b : d = b[n]
        BY <1>6, <2>2, <3>1
      <3> HIDE DEF r, i0
      <3> QED  BY <1>1, <3>2 DEF get_all_contacts, Range
    <2> QED  BY <2>3, <2>4
  <1> QED  BY <1>5, <1>7

-----------------------------------------------------------------------------
(* Buckets and distances *)

(* What the recursion of PowerOfTwo computes. *)
LEMMA PowerOfTwoDoubles ==
    /\ PowerOfTwo[0] = 1
    /\ \A i \in 1 .. ID_BITS : PowerOfTwo[i] = 2 * PowerOfTwo[i - 1]
    /\ \A i \in 0 .. ID_BITS : PowerOfTwo[i] \in Nat
PROOF
  <1> DEFINE Doubles(f) == f = [i \in 0 .. ID_BITS |->
                                  IF i = 0 THEN 1 ELSE 2 * f[i - 1]]
             step == [x \in Nat \X Nat |-> 2 * x[2]]
             f == PowerOfTwo
  <1>0. ID_BITS \in Nat /\ 1 \in Nat
    BY IdBitsAssumption
  <1>1. step \in [Nat \X Nat -> Nat]
    OBVIOUS
  <1>2. PICK g : Iterates(Nat, 1, step, ID_BITS, g)
    <2> HIDE DEF step
    <2> QED  BY <1>0, <1>1, RecursionExists
  <1>3. Doubles(g)
    <2>1. ASSUME NEW i \in 0 .. ID_BITS
          PROVE  g[i] = IF i = 0 THEN 1 ELSE 2 * g[i - 1]
      <3>1. CASE i # 0
        <4>1. i \in 1 .. ID_BITS /\ i - 1 \in 0 .. ID_BITS /\ i \in Nat
          BY <1>0, <3>1
        <4>2. g[i - 1] \in Nat /\ g[i] = step[<<i, g[i - 1]>>]
          BY <1>2, <4>1 DEF Iterates
        <4> QED  BY <3>1, <4>1, <4>2
      <3> QED  BY <1>2, <3>1 DEF Iterates
    <2>2. g \in [0 .. ID_BITS -> Nat]
      BY <1>2 DEF Iterates
    <2> QED  BY <2>1, <2>2
  <1>4. Doubles(f)
    <2>1. f = CHOOSE h : Doubles(h)
      BY DEF PowerOfTwo
    <2> HIDE DEF f
    <2> QED  BY <1>3, <2>1
  <1> HIDE DEF f
  <1>5. f[0] = 1 /\ \A i \in 1 .. ID_BITS : f[i] = 2 * f[i - 1]
    BY <1>0, <1>4
  <1> DEFINE S == {i \in Nat : i \in 0 .. ID_BITS => f[i] \in Nat}
  <1>6. 0 \in S
    BY <1>5
  <1>7. ASSUME NEW i \in Nat, i \in S PROVE i + 1 \in S
    <2>1. CASE i + 1 \in 0 .. ID_BITS
      <3>1. i \in 0 .. ID_BITS /\ i + 1 \in 1 .. ID_BITS /\ (i + 1) - 1 = i
        BY <1>0, <2>1
      <3>2. f[i] \in Nat /\ f[i + 1] = 2 * f[i]
        BY <1>5, <1>7, <3>1
      <3> QED  BY <3>2
    <2> QED  BY <2>1
  <1>8. Nat \subseteq S
    <2> HIDE DEF S
    <2> QED  BY <1>6, <1>7, SetInduction
  <1>9. \A i \in 0 .. ID_BITS : f[i] \in Nat
    BY <1>0, <1>8
  <1> QED  BY <1>5, <1>9 DEF f

(* The highest bit of an identifier bounds its number: reading the bits    *)
(* gives 0 up to that bit, 1 with it, and from there on doubles the value  *)
(* as it doubles the bounds.                                               *)
LEMMA HighestBitBounds ==
    ASSUME NEW X \in NodeIds, X # {}
    PROVE  /\ Max(X) \in BitPositions
           /\ PowerOfTwo[Max(X)] <= from_bytes(X)
           /\ from_bytes(X) < PowerOfTwo[Max(X) + 1]
PROOF
  <1> DEFINE N == ID_BITS
             m == Max(X)
  <1>0. N \in Nat
    BY IdBitsAssumption
  <1>1. m \in X /\ m \in BitPositions /\ \A y \in X : y <= m
    BY MaxPosition DEF NodeIds
  <1>2. m \in 0 .. N - 1 /\ X \subseteq 0 .. N - 1
    BY <1>1 DEF BitPositions, NodeIds
  <1>3. PICK f \in [0 .. N -> Nat] :
              /\ from_bytes(X) = f[N]
              /\ f[0] = 0
              /\ \A i \in 1 .. N :
                    f[i] = 2 * f[i - 1] + (IF N - i \in X THEN 1 ELSE 0)
    BY FromBytesReads
  <1> HIDE DEF N, m
  <1> DEFINE P == PowerOfTwo
  <1>4. /\ P[0] = 1
        /\ \A i \in 1 .. N : P[i] = 2 * P[i - 1]
        /\ \A i \in 0 .. N : P[i] \in Nat
    BY PowerOfTwoDoubles DEF N
  <1> HIDE DEF P
  <1> DEFINE S == {i \in Nat : i < N - m => f[i] = 0}
  <1>5. 0 \in S
    BY <1>3
  <1>6. ASSUME NEW i \in Nat, i \in S PROVE i + 1 \in S
    <2>1. CASE i + 1 < N - m
      <3>1. i < N - m /\ i + 1 \in 1 .. N /\ (i + 1) - 1 = i
            /\ N - (i + 1) > m
        BY <1>0, <1>2, <2>1
      <3>2. N - (i + 1) \notin X
        <4>1. N - (i + 1) \in Int /\ m \in Int /\ ~(N - (i + 1) <= m)
          BY <1>0, <1>2, <3>1
        <4> QED  BY <1>1, <4>1
      <3>3. f[i] = 0
        BY <1>6, <3>1
      <3>4. f[i + 1] = 2 * f[i] + 0
        BY <1>3, <3>1, <3>2
      <3> QED  BY <3>3, <3>4
    <2> QED  BY <2>1
  <1>7. Nat \subseteq S
    <2> HIDE DEF S
    <2> QED  BY <1>5, <1>6, SetInduction
  <1>8. f[N - m] = 1
    <2>1. /\ N - m \in 1 .. N /\ (N - m) - 1 \in Nat /\ (N - m) - 1 < N - m
          /\ N - (N - m) = m
      BY <1>0, <1>2
    <2>2. f[(N - m) - 1] = 0
      BY <1>7, <2>1
    <2>3. f[N - m] = 2 * f[(N - m) - 1] + 1
      BY <1>1, <1>3, <2>1
    <2> QED  BY <2>2, <2>3
  <1> DEFINE B == {k \in Nat : k <= m =>
                     P[k] <= f[N - m + k] /\ f[N - m + k] < P[k + 1]}
  <1>9. 0 \in B
    <2>1. 1 \in 1 .. N /\ P[1] = 2 * P[1 - 1] /\ 1 - 1 = 0 /\ 0 + 1 = 1
          /\ N - m + 0 = N - m
      BY <1>0, <1>2, <1>4
    <2>2. P[0] = 1 /\ P[0 + 1] = 2 /\ f[N - m + 0] = 1
      BY <1>4, <1>8, <2>1
    <2> QED  BY <2>2
  <1>10. ASSUME NEW k \in Nat, k \in B PROVE k + 1 \in B
    <2>1. CASE k + 1 <= m
      <3> DEFINE i == N - m + k
      <3>1. /\ k <= m /\ i \in 0 .. N /\ i + 1 \in 1 .. N /\ (i + 1) - 1 = i
            /\ N - m + (k + 1) = i + 1
            /\ k + 1 \in 1 .. N /\ (k + 1) + 1 \in 1 .. N
            /\ (k + 1) - 1 = k /\ ((k + 1) + 1) - 1 = k + 1
            /\ k \in 0 .. N
        BY <1>0, <1>2, <2>1
      <3>2. P[k] <= f[i] /\ f[i] < P[k + 1]
        BY <1>10, <3>1
      <3> HIDE DEF i
      <3>3. P[k + 1] = 2 * P[k] /\ P[(k + 1) + 1] = 2 * P[k + 1]
        BY <1>4, <3>1
      <3>4. f[i + 1] = 2 * f[i] \/ f[i + 1] = 2 * f[i] + 1
        <4>1. f[i] \in Nat
          BY <3>1
        <4>2. f[i + 1] = 2 * f[i] + (IF N - (i + 1) \in X THEN 1 ELSE 0)
          BY <1>3, <3>1
        <4> QED  BY <4>1, <4>2
      <3>5. P[k] \in Nat /\ P[k + 1] \in Nat /\ f[i] \in Nat
        <4>1. k + 1 \in 0 .. N
          BY <3>1
        <4> QED  BY <1>4, <3>1, <4>1
      <3>6. P[k + 1] <= f[i + 1] /\ f[i + 1] < P[(k + 1) + 1]
        BY <3>2, <3>3, <3>4, <3>5
      <3> QED  BY <3>1, <3>6
    <2> QED  BY <2>1
  <1>11. Nat \subseteq B
    <2> HIDE DEF B
    <2> QED  BY <1>9, <1>10, SetInduction
  <1>12. P[m] <= f[N] /\ f[N] < P[m + 1]
    <2>1. m \in Nat /\ m <= m /\ N - m + m = N
      BY <1>0, <1>2
    <2>2. m \in B
      BY <1>11, <2>1
    <2> QED  BY <2>1, <2>2
  <1> QED  BY <1>1, <1>3, <1>12 DEF m, P

(* Bucket i covers the distances from 2^i to 2^(i+1) - 1. *)
LEMMA BucketRange ==
    ASSUME NEW local \in NodeIds, NEW id \in NodeIds, id # local
    PROVE  /\ PowerOfTwo[bucket_index(local, id)] <= xor_distance(local, id)
           /\ xor_distance(local, id) < PowerOfTwo[bucket_index(local, id) + 1]
PROOF
  <1>1. Xor(local, id) \in NodeIds /\ Xor(local, id) # {}
    BY DEF Xor, NodeIds
  <1> QED  BY <1>1, HighestBitBounds DEF bucket_index, xor_distance

-----------------------------------------------------------------------------
(* The metric *)

(* The number of the empty set is 0, and no number needs more than ID_BITS *)
(* bits.                                                                   *)
LEMMA FromBytesRange ==
    ASSUME NEW X
    PROVE  /\ from_bytes(X) < PowerOfTwo[ID_BITS]
           /\ X = {} => from_bytes(X) = 0
PROOF
  <1> DEFINE N == ID_BITS
             P == PowerOfTwo
  <1>0. N \in Nat
    BY IdBitsAssumption
  <1>1. PICK f \in [0 .. N -> Nat] :
              /\ from_bytes(X) = f[N]
              /\ f[0] = 0
              /\ \A i \in 1 .. N :
                    f[i] = 2 * f[i - 1] + (IF N - i \in X THEN 1 ELSE 0)
    BY FromBytesReads
  <1>2. /\ P[0] = 1
        /\ \A i \in 1 .. N : P[i] = 2 * P[i - 1]
        /\ \A i \in 0 .. N : P[i] \in Nat
    BY PowerOfTwoDoubles
  <1> HIDE DEF N, P
  <1> DEFINE S == {i \in Nat : i \in 0 .. N =>
                     f[i] < P[i] /\ (X = {} => f[i] = 0)}
  <1>3. 0 \in S
    BY <1>1, <1>2
  <1>4. ASSUME NEW i \in Nat, i \in S PROVE i + 1 \in S
    <2>1. CASE i + 1 \in 0 .. N
      <3>1. i \in 0 .. N /\ i + 1 \in 1 .. N /\ (i + 1) - 1 = i
        BY <1>0, <2>1
      <3>2. f[i] \in Nat /\ P[i] \in Nat /\ f[i] < P[i]
            /\ (X = {} => f[i] = 0)
        BY <1>2, <1>4, <3>1
      <3>3. /\ P[i + 1] = 2 * P[i]
            /\ f[i + 1] = 2 * f[i] + (IF N - (i + 1) \in X THEN 1 ELSE 0)
        BY <1>1, <1>2, <3>1
      <3>4. CASE N - (i + 1) \in X
        <4>1. f[i + 1] = 2 * f[i] + 1 /\ X # {}
          BY <3>3, <3>4
        <4> QED  BY <3>2, <3>3, <4>1
      <3>5. CASE N - (i + 1) \notin X
        <4>1. f[i + 1] = 2 * f[i] + 0
          BY <3>3, <3>5
        <4> QED  BY <3>2, <3>3, <4>1
      <3> QED  BY <3>4, <3>5
    <2> QED  BY <2>1
  <1>5. Nat \subseteq S
    <2> HIDE DEF S
    <2> QED  BY <1>3, <1>4, SetInduction
  <1>6. N \in S
    BY <1>0, <1>5
  <1> QED  BY <1>0, <1>1, <1>6 DEF N, P

(* Bits that are all in x or in y make a number no greater than the sum of *)
(* those of x and y: no bit of it is without a counterpart.                *)
LEMMA FromBytesSubadditive ==
    ASSUME NEW x, NEW y, NEW z, z \subseteq x \cup y
    PROVE  from_bytes(z) <= from_bytes(x) + from_bytes(y)
PROOF
  <1> DEFINE N == ID_BITS
             Bit(id, i) == IF N - i \in id THEN 1 ELSE 0
             Reads(id, f) == /\ f \in [0 .. N -> Nat]
                             /\ from_bytes(id) = f[N]
                             /\ f[0] = 0
                             /\ \A i \in 1 .. N : f[i] = 2 * f[i - 1] + Bit(id, i)
  <1>0. N \in Nat
    BY IdBitsAssumption
  <1>1. /\ \E f : Reads(x, f)
        /\ \E f : Reads(y, f)
        /\ \E f : Reads(z, f)
    <2>1. ASSUME NEW id PROVE \E f : Reads(id, f)
      <3>1. PICK f \in [0 .. N -> Nat] :
                  /\ from_bytes(id) = f[N]
                  /\ f[0] = 0
                  /\ \A i \in 1 .. N :
                        f[i] = 2 * f[i - 1] + (IF N - i \in id THEN 1 ELSE 0)
        BY FromBytesReads
      <3>2. Reads(id, f)
        BY <3>1
      <3> HIDE DEF Reads
      <3> QED  BY <3>2
    <2> HIDE DEF Reads
    <2> QED  BY <2>1
  <1>2. PICK f : Reads(x, f)
    BY <1>1
  <1>3. PICK g : Reads(y, g)
    BY <1>1
  <1>4. PICK h : Reads(z, h)
    BY <1>1
  <1>5. ASSUME NEW i \in 1 .. N
        PROVE  /\ Bit(z, i) \in Nat /\ Bit(x, i) \in Nat /\ Bit(y, i) \in Nat
               /\ Bit(z, i) <= Bit(x, i) + Bit(y, i)
    <2>1. CASE N - i \in z
      <3>1. Bit(z, i) = 1 /\ (Bit(x, i) = 1 \/ Bit(y, i) = 1)
        BY <2>1
      <3>2. Bit(x, i) \in {0, 1} /\ Bit(y, i) \in {0, 1}
        OBVIOUS
      <3> HIDE DEF Bit
      <3> QED  BY <3>1, <3>2
    <2>2. CASE N - i \notin z
      <3>1. Bit(z, i) = 0
        BY <2>2
      <3>2. Bit(x, i) \in {0, 1} /\ Bit(y, i) \in {0, 1}
        OBVIOUS
      <3> HIDE DEF Bit
      <3> QED  BY <3>1, <3>2
    <2> QED  BY <2>1, <2>2
  <1> HIDE DEF N, Bit
  <1> DEFINE S == {i \in Nat : i \in 0 .. N => h[i] <= f[i] + g[i]}
  <1>6. 0 \in S
    BY <1>2, <1>3, <1>4
  <1>7. ASSUME NEW i \in Nat, i \in S PROVE i + 1 \in S
    <2>1. CASE i + 1 \in 0 .. N
      <3>1. i \in 0 .. N /\ i + 1 \in 1 .. N /\ (i + 1) - 1 = i
        BY <1>0, <2>1
      <3>2. f[i] \in Nat /\ g[i] \in Nat /\ h[i] \in Nat /\ h[i] <= f[i] + g[i]
        BY <1>2, <1>3, <1>4, <1>7, <3>1
      <3>3. /\ f[i + 1] = 2 * f[i] + Bit(x, i + 1)
            /\ g[i + 1] = 2 * g[i] + Bit(y, i + 1)
            /\ h[i + 1] = 2 * h[i] + Bit(z, i + 1)
        BY <1>2, <1>3, <1>4, <3>1
      <3>4. /\ Bit(z, i + 1) \in Nat /\ Bit(x, i + 1) \in Nat
            /\ Bit(y, i + 1) \in Nat
            /\ Bit(z, i + 1) <= Bit(x, i + 1) + Bit(y, i + 1)
        BY <1>5, <3>1
      <3> QED  BY <3>2, <3>3, <3>4
    <2> QED  BY <2>1
  <1>8. Nat \subseteq S
    <2> HIDE DEF S
    <2> QED  BY <1>6, <1>7, SetInduction
  <1>9. h[N] <= f[N] + g[N]
    BY <1>0, <1>8
  <1> QED  BY <1>2, <1>3, <1>4, <1>9

(* xor_distance is what its docstring says, for every identifier length:   *)
(* a number of [0, 2^ID_BITS) that is 0 for identical identifiers only,    *)
(* symmetric, and obeying the triangle inequality.                         *)
THEOREM DistanceIsMetric ==
    ASSUME NEW a \in NodeIds, NEW b \in NodeIds, NEW c \in NodeIds
    PROVE  /\ xor_distance(a, b) \in Nat
           /\ xor_distance(a, b) < PowerOfTwo[ID_BITS]
           /\ xor_distance(a, b) = 0 <=> a = b
           /\ xor_distance(a, b) = xor_distance(b, a)
           /\ xor_distance(a, c) <= xor_distance(a, b) + xor_distance(b, c)
PROOF
  <1>1. xor_distance(a, b) \in Nat /\ xor_distance(a, b) < PowerOfTwo[ID_BITS]
    BY DistanceType, FromBytesRange DEF xor_distance
  <1>2. xor_distance(b, b) = 0
    <2>1. Xor(b, b) = {}
      BY DEF Xor
    <2> QED  BY <2>1, FromBytesRange DEF xor_distance
  <1>3. xor_distance(a, b) = 0 => a = b
    BY <1>2, DistanceInjective
  <1>4. xor_distance(a, b) = xor_distance(b, a)
    <2>1. Xor(a, b) = Xor(b, a)
      BY DEF Xor
    <2> QED  BY <2>1 DEF xor_distance
  <1>5. xor_distance(a, c) <= xor_distance(a, b) + xor_distance(b, c)
    <2>1. Xor(a, c) \subseteq Xor(a, b) \cup Xor(b, c)
      BY DEF Xor
    <2> QED  BY <2>1, FromBytesSubadditive DEF xor_distance
  <1> QED  BY <1>1, <1>2, <1>3, <1>4, <1>5

(* The distance is no ultrametric, although tests/test_node_id.py 247 says *)
(* so: with two bits or more there are identifiers that are farther from   *)
(* each other than either is from a third one.                             *)
THEOREM DistanceNotUltrametric ==
    ASSUME ID_BITS >= 2
    PROVE  \E a, b, c \in NodeIds :
              /\ xor_distance(a, c) > xor_distance(a, b)
              /\ xor_distance(a, c) > xor_distance(b, c)
PROOF
  <1> DEFINE a == {}
             b == {0}
             c == {0, 1}
  <1>1. 0 \in BitPositions /\ 1 \in BitPositions
    BY IdBitsAssumption DEF BitPositions
  <1>2. a \in NodeIds /\ b \in NodeIds /\ c \in NodeIds /\ {1} \in NodeIds
    BY <1>1 DEF NodeIds
  <1>3. Xor(a, b) = {0} /\ Xor(b, c) = {1} /\ Xor(a, c) = {0, 1}
    BY DEF Xor
  <1>4. ASSUME NEW x \in NodeIds, x \subseteq c, x # c
        PROVE  from_bytes(c) > from_bytes(x)
    <2>1. x \subseteq c \cup {}
      BY <1>4
    <2> HIDE DEF c
    <2>2. from_bytes(x) <= from_bytes(c) + from_bytes({})
      BY <2>1, FromBytesSubadditive
    <2>3. from_bytes({}) = 0 /\ from_bytes(x) \in Nat /\ from_bytes(c) \in Nat
      BY FromBytesRange, FromBytesType
    <2>4. from_bytes(x) # from_bytes(c)
      BY <1>2, <1>4, FromBytesInjective
    <2> QED  BY <2>2, <2>3, <2>4
  <1>5. /\ xor_distance(a, c) > xor_distance(a, b)
        /\ xor_distance(a, c) > xor_distance(b, c)
    <2>1. from_bytes({0, 1}) > from_bytes({0}) /\ from_bytes({0, 1}) > from_bytes({1})
      BY <1>2, <1>4
    <2> HIDE DEF a, b, c
    <2> QED  BY <1>3, <2>1 DEF xor_distance
  <1> HIDE DEF a, b, c
  <1> QED  BY <1>2, <1>5

(* What is ultrametric is the choice of the bucket: seen from a, c is in   *)
(* no higher bucket than b is, or than c is seen from b.                   *)
THEOREM BucketsAreUltrametric ==
    ASSUME NEW a \in NodeIds, NEW b \in NodeIds, NEW c \in NodeIds,
           a # b, b # c, a # c
    PROVE  \/ bucket_index(a, c) <= bucket_index(a, b)
           \/ bucket_index(a, c) <= bucket_index(b, c)
PROOF
  <1> DEFINE X(p, q) == Xor(p, q)
  <1>1. ASSUME NEW p \in NodeIds, NEW q \in NodeIds, p # q
        PROVE  X(p, q) \in SUBSET BitPositions /\ X(p, q) # {}
    BY <1>1 DEF Xor, NodeIds
  <1>2. X(a, c) \subseteq X(a, b) \cup X(b, c)
    BY DEF Xor
  <1> HIDE DEF X
  <1>3. Max(X(a, c)) \in X(a, c)
    BY <1>1, MaxPosition
  <1>4. /\ \A y \in X(a, b) : y <= Max(X(a, b))
        /\ \A y \in X(b, c) : y <= Max(X(b, c))
    BY <1>1, MaxPosition
  <1> QED  BY <1>2, <1>3, <1>4 DEF bucket_index, X

=============================================================================
