---------------------------- MODULE OverlayProofs ---------------------------
(***************************************************************************)
(* Proofs about Overlay, for any number of nodes and addresses, every      *)
(* identifier length and bucket capacity, and whatever bounds on starts    *)
(* and calls.                                                              *)
(*                                                                         *)
(* AddAllAdds says what the loops of join and discover do with a list of   *)
(* contacts, however long; FoundNodesFromTable that a reply holds nothing  *)
(* but contacts of the responder's table.  The inductive invariant adds to *)
(* the properties what a node in the middle of a call relies on: which     *)
(* contacts its arguments and replies hold (OpGenuine), and how the list   *)
(* that discover builds relates to the store (DiscoverSound).              *)
(***************************************************************************)
EXTENDS Overlay, PeerStoreLemmas, TLAPS

GenuineAll(s) == \A i \in DOMAIN s : Genuine(s[i])

\* What an operation of n learned or was told, and will store or ask.
OpGenuine(n) ==
    /\ op[n] \in JoinOps =>
          /\ GenuineAll(op[n].reply)
          /\ op[n].boot.id # NoId => op[n].boot.addr \in been[op[n].boot.id]
    /\ op[n] \in JoinedOps => GenuineAll(op[n].out)
    /\ op[n] \in DiscoverOps =>
          GenuineAll(op[n].seeds) /\ GenuineAll(op[n].reply)

\* The list of a discovery, at every moment: it holds peers that are known
\* now and were not when the call began, each once, and all of them but seeds
\* that replied; and only these seeds' addresses may have changed.  While the
\* call runs there is a seed to ask.
DiscoverSound(n) ==
    op[n] \in DiscoverOps =>
        /\ KnownBefore(n) \subseteq KnownIds(store[n])
        /\ BucketIds(op[n].out) \subseteq KnownIds(store[n]) \ KnownBefore(n)
        /\ KnownIds(store[n]) \ KnownBefore(n)
              \subseteq BucketIds(op[n].out) \cup op[n].replied
        /\ Distinct(op[n].out)
        /\ \A c \in op[n].before :
              \/ c \in get_all_contacts(store[n].table)
              \/ c.node_id \in op[n].replied
        /\ op[n].step # "done" => op[n].seeds # << >>

StoreSound(n) ==
    /\ StoreOK(n, store[n], 0)
    /\ \A c \in get_all_contacts(store[n].table) : Genuine(c)

NodeInv(n) == StoreSound(n) /\ OpGenuine(n) /\ DiscoverSound(n)

OverlayInv == TypeOK /\ \A n \in Node : NodeInv(n)

-----------------------------------------------------------------------------
(* The loops of join and discover *)

(* What the store st and the list out may have become, as r.store and      *)
(* r.out, once contacts have been dealt with: nobody is forgotten, nobody  *)
(* but the contacts is learned, whoever is learned is listed, whoever is   *)
(* listed is known.  If only new ones are wanted, whoever is listed was    *)
(* not known before and is listed once, and the contacts that were there   *)
(* stay as they are; otherwise only those of the peers in the list change. *)
Added(n, st, out, contacts, onlyNew, r) ==
    /\ StoreOK(n, r.store, 0)
    /\ get_all_contacts(r.store.table)
          \subseteq get_all_contacts(st.table) \cup Range(contacts)
    /\ KnownIds(st) \subseteq KnownIds(r.store)
    /\ KnownIds(r.store) \subseteq KnownIds(st) \cup BucketIds(contacts)
    /\ Range(out) \subseteq Range(r.out)
    /\ Range(r.out) \subseteq Range(out) \cup Range(contacts)
    /\ KnownIds(r.store) \ KnownIds(st) \subseteq BucketIds(r.out)
    /\ BucketIds(r.out) \subseteq BucketIds(out) \cup KnownIds(r.store)
    /\ onlyNew => BucketIds(r.out) \subseteq
                     BucketIds(out) \cup (KnownIds(r.store) \ KnownIds(st))
    /\ onlyNew /\ Distinct(out) /\ BucketIds(out) \subseteq KnownIds(st)
          => Distinct(r.out)
    /\ \A d \in get_all_contacts(st.table) :
          \/ d \in get_all_contacts(r.store.table)
          \/ ~onlyNew /\ d.node_id \in BucketIds(contacts)

Accumulators == [store : Store, out : Seq(Contact)]

(* Appending a contact appends its identifier. *)
LEMMA AppendIds ==
    ASSUME NEW s \in Seq(Contact), NEW c \in Contact
    PROVE  /\ Append(s, c) \in Seq(Contact)
           /\ Range(Append(s, c)) = Range(s) \cup {c}
           /\ BucketIds(Append(s, c)) = BucketIds(s) \cup {c.node_id}
           /\ Distinct(s) /\ c.node_id \notin BucketIds(s)
                 => Distinct(Append(s, c))
PROOF
  <1> DEFINE t == Append(s, c)
  <1>1. /\ t \in Seq(Contact)
        /\ Len(t) = Len(s) + 1
        /\ \A i \in 1 .. Len(s) : t[i] = s[i]
        /\ t[Len(s) + 1] = c
        /\ DOMAIN t = 1 .. Len(s) + 1 /\ DOMAIN s = 1 .. Len(s)
        /\ Len(s) \in Nat
    BY AppendProperties
  <1> HIDE DEF t
  <1>2. \A i \in 1 .. Len(s) + 1 : i \in 1 .. Len(s) \/ i = Len(s) + 1
    BY <1>1
  <1>3. Len(s) + 1 \in 1 .. Len(s) + 1
        /\ \A i \in 1 .. Len(s) : i \in 1 .. Len(s) + 1
    BY <1>1
  <1>4. Range(t) = Range(s) \cup {c}
    BY <1>1, <1>2, <1>3 DEF Range
  <1>5. BucketIds(t) = BucketIds(s) \cup {c.node_id}
    BY <1>1, <1>2, <1>3 DEF BucketIds
  <1>6. ASSUME Distinct(s), c.node_id \notin BucketIds(s) PROVE Distinct(t)
    <2>1. \A i \in 1 .. Len(s) : s[i].node_id # c.node_id
      BY <1>1, <1>6 DEF BucketIds
    <2> SUFFICES ASSUME NEW i \in DOMAIN t, NEW j \in DOMAIN t,
                        t[i].node_id = t[j].node_id
                 PROVE  i = j
      BY DEF Distinct
    <2>2. CASE i \in 1 .. Len(s) /\ j \in 1 .. Len(s)
      BY <1>1, <1>6, <2>2 DEF Distinct
    <2>3. CASE i = Len(s) + 1 \/ j = Len(s) + 1
      BY <1>1, <1>2, <2>1, <2>3
    <2> QED  BY <1>1, <1>2, <2>2, <2>3
  <1> QED  BY <1>1, <1>4, <1>5, <1>6 DEF t

(* add_or_update leaves the contacts of all other peers as they are.  The  *)
(* records show it: those of the others stay, and the table agrees with    *)
(* the records before and after.                                           *)
LEMMA OtherContactsStay ==
    ASSUME NEW n \in NodeIds, NEW st \in Store, StoreOK(n, st, 0),
           NEW c \in Contact, c.node_id # n,
           NEW d \in get_all_contacts(st.table), d.node_id # c.node_id
    PROVE  d \in get_all_contacts(add_or_update(n, st, c, 0).table)
PROOF
  <1> DEFINE s2 == add_or_update(n, st, c, 0)
             id == d.node_id
  <1>1. PICK i \in BitPositions : \E m \in DOMAIN st.table[i] : d = st.table[i][m]
    BY DEF get_all_contacts, Range
  <1>2. Known(st, id) /\ st.records[id].contact = d
    BY <1>1 DEF StoreOK, TableIsRecorded
  <1>3. d \in Contact /\ id \in NodeIds
    <2>1. d \in Contact
      BY ContactsOfStore
    <2> QED  BY <2>1 DEF Contact
  <1>4. s2.records[id] = st.records[id]
    BY <1>3 DEF add_or_update, Store
  <1>5. s2 \in Store /\ StoreOK(n, s2, 0)
    <2>1. 0 \in Nat
      OBVIOUS
    <2> QED  BY <2>1, AddOrUpdateOK
  <1> HIDE DEF s2
  <1> DEFINE k == bucket_index(n, id)
  <1>6. id \in BucketIds(s2.table[k]) /\ id # n
    BY <1>2, <1>3, <1>4, <1>5 DEF StoreOK, RecordsAreInTable, Known
  <1>7. k \in BitPositions
    BY <1>3, <1>6, BucketIndexType
  <1>8. PICK q \in DOMAIN s2.table[k] : s2.table[k][q].node_id = id
    BY <1>6 DEF BucketIds
  <1>9. s2.table[k][q] = d
    BY <1>2, <1>4, <1>5, <1>7, <1>8 DEF StoreOK, TableIsRecorded
  <1> QED  BY <1>7, <1>8, <1>9 DEF get_all_contacts, Range, s2

(* One round of the loop keeps what the rounds before it did. *)
LEMMA AddOneAdds ==
    ASSUME NEW n \in NodeIds, NEW st \in Store, NEW out \in Seq(Contact),
           NEW contacts \in Seq(Contact), NEW onlyNew \in BOOLEAN,
           NEW acc \in Accumulators,
           Added(n, st, out, contacts, onlyNew, acc),
           NEW i \in 1 .. Len(contacts)
    PROVE  LET r == AddOne(n, acc, contacts[i], onlyNew)
           IN  r \in Accumulators /\ Added(n, st, out, contacts, onlyNew, r)
PROOF
  <1> DEFINE c == contacts[i]
             r == AddOne(n, acc, c, onlyNew)
             s2 == add_or_update(n, acc.store, c, 0)
  <1>1. /\ c \in Contact /\ c \in Range(contacts)
        /\ c.node_id \in BucketIds(contacts) /\ c.node_id \in NodeIds
    <2>1. i \in DOMAIN contacts /\ c \in Contact
      OBVIOUS
    <2>2. c \in Range(contacts)
      BY <2>1 DEF Range
    <2>3. c.node_id \in BucketIds(contacts)
      BY <2>1 DEF BucketIds
    <2> QED  BY <2>1, <2>2, <2>3 DEF Contact
  <1> HIDE DEF c
  <1>2. acc.store \in Store /\ acc.out \in Seq(Contact)
        /\ StoreOK(n, acc.store, 0) /\ 0 \in Nat
    BY DEF Accumulators, Added
  <1>3. CASE c.node_id = n \/ (onlyNew /\ Known(acc.store, c.node_id))
    <2>1. r = acc
      BY <1>3 DEF AddOne
    <2> QED  BY <2>1 DEF c
  <1>4. CASE ~(c.node_id = n \/ (onlyNew /\ Known(acc.store, c.node_id)))
    <2>1. r = [store |-> s2,
               out   |-> IF StoreAccepts(n, acc.store, c.node_id)
                         THEN Append(acc.out, c) ELSE acc.out]
      BY <1>4 DEF AddOne
    <2>2. s2 \in Store /\ StoreOK(n, s2, 0)
      BY <1>1, <1>2, <1>4, AddOrUpdateOK
    <2>3. /\ KnownIds(s2) = IF StoreAccepts(n, acc.store, c.node_id)
                            THEN KnownIds(acc.store) \cup {c.node_id}
                            ELSE KnownIds(acc.store)
          /\ get_all_contacts(s2.table)
               \subseteq get_all_contacts(acc.store.table) \cup {c}
      <3>1. c.node_id # n
        BY <1>4
      <3> QED  BY <1>1, <1>2, <3>1, AddOrUpdateEffect
    <2>4. /\ Append(acc.out, c) \in Seq(Contact)
          /\ Range(Append(acc.out, c)) = Range(acc.out) \cup {c}
          /\ BucketIds(Append(acc.out, c)) = BucketIds(acc.out) \cup {c.node_id}
          /\ Distinct(acc.out) /\ c.node_id \notin BucketIds(acc.out)
                => Distinct(Append(acc.out, c))
      BY <1>1, <1>2, AppendIds
    <2>5. onlyNew => c.node_id \notin KnownIds(acc.store)
      BY <1>4 DEF KnownIds
    <2>9. \A d \in get_all_contacts(acc.store.table) :
             \/ d \in get_all_contacts(s2.table)
             \/ ~onlyNew /\ d.node_id \in BucketIds(contacts)
      <3> SUFFICES ASSUME NEW d \in get_all_contacts(acc.store.table)
                   PROVE  \/ d \in get_all_contacts(s2.table)
                          \/ ~onlyNew /\ d.node_id \in BucketIds(contacts)
        OBVIOUS
      <3>1. d.node_id \in KnownIds(acc.store)
        <4>1. TableIds(acc.store.table) = KnownIds(acc.store)
          BY <1>2, ContactsOfStore
        <4> QED  BY <4>1 DEF TableIds
      <3>2. CASE d.node_id = c.node_id
        BY <1>1, <2>5, <3>1, <3>2
      <3>3. CASE d.node_id # c.node_id
        BY <1>1, <1>2, <1>4, <3>3, OtherContactsStay
      <3> QED  BY <3>2, <3>3
    <2> HIDE DEF s2, r
    <2>6. r \in Accumulators
      BY <1>2, <2>1, <2>2, <2>4 DEF Accumulators
    <2>7. /\ r.store = s2
          /\ r.out = IF StoreAccepts(n, acc.store, c.node_id)
                     THEN Append(acc.out, c) ELSE acc.out
      BY <2>1
    <2>8. Added(n, st, out, contacts, onlyNew, r)
      <3>0. \A d \in get_all_contacts(st.table) :
               \/ d \in get_all_contacts(r.store.table)
               \/ ~onlyNew /\ d.node_id \in BucketIds(contacts)
        BY <2>7, <2>9 DEF Added
      <3>1. CASE StoreAccepts(n, acc.store, c.node_id)
        <4>1. ASSUME onlyNew, Distinct(out), BucketIds(out) \subseteq KnownIds(st)
              PROVE  Distinct(r.out)
          <5>1. BucketIds(acc.out) \subseteq KnownIds(acc.store)
                /\ Distinct(acc.out)
            BY <4>1 DEF Added
          <5> QED  BY <2>4, <2>5, <2>7, <3>1, <4>1, <5>1
        <4> QED  BY <1>1, <2>2, <2>3, <2>4, <2>5, <2>7, <3>0, <3>1, <4>1
                 DEF Added
      <3>2. CASE ~StoreAccepts(n, acc.store, c.node_id)
        BY <1>1, <2>2, <2>3, <2>7, <3>0, <3>2 DEF Added
      <3> QED  BY <3>1, <3>2
    <2> QED  BY <2>6, <2>8 DEF r, c
  <1> QED  BY <1>3, <1>4

(* The whole loop, by induction over its rounds. *)
LEMMA AddAllAdds ==
    ASSUME NEW n \in NodeIds, NEW st \in Store, StoreOK(n, st, 0),
           NEW out \in Seq(Contact), NEW contacts \in Seq(Contact),
           NEW onlyNew \in BOOLEAN
    PROVE  LET r == AddAll(n, st, out, contacts, onlyNew)
           IN  r \in Accumulators /\ Added(n, st, out, contacts, onlyNew, r)
PROOF
  <1> DEFINE N == Len(contacts)
             V == {r \in Accumulators : Added(n, st, out, contacts, onlyNew, r)}
             v0 == [store |-> st, out |-> out]
             step == [x \in Nat \X V |->
                        IF x[1] \in 1 .. N
                        THEN AddOne(n, x[2], contacts[x[1]], onlyNew) ELSE x[2]]
             Runs(f) == f = [i \in 0 .. N |->
                               IF i = 0 THEN v0
                               ELSE AddOne(n, f[i - 1], contacts[i], onlyNew)]
             f == CHOOSE h : Runs(h)
  <1>0. N \in Nat
    OBVIOUS
  <1>1. v0 \in V
    BY DEF Accumulators, Added
  <1>2. \A v \in V : \A i \in 1 .. N : AddOne(n, v, contacts[i], onlyNew) \in V
    BY AddOneAdds
  <1>3. AddAll(n, st, out, contacts, onlyNew) = f[N]
    BY DEF AddAll
  <1> HIDE DEF V, N, v0
  <1>4. step \in [Nat \X V -> V]
    BY <1>2
  <1>5. PICK g : Iterates(V, v0, step, N, g)
    <2> HIDE DEF step
    <2> QED  BY <1>0, <1>1, <1>4, RecursionExists
  <1>6. Runs(g)
    <2>1. ASSUME NEW i \in 0 .. N
          PROVE  g[i] = IF i = 0 THEN v0
                        ELSE AddOne(n, g[i - 1], contacts[i], onlyNew)
      <3>1. CASE i # 0
        <4>1. i \in 1 .. N /\ i - 1 \in 0 .. N /\ i \in Nat
          BY <1>0, <3>1
        <4>2. g[i - 1] \in V /\ g[i] = step[<<i, g[i - 1]>>]
          BY <1>5, <4>1 DEF Iterates
        <4> QED  BY <3>1, <4>1, <4>2
      <3> QED  BY <1>5, <3>1 DEF Iterates
    <2>2. g \in [0 .. N -> V]
      BY <1>5 DEF Iterates
    <2> QED  BY <2>1, <2>2
  <1>7. Runs(f)
    BY <1>6
  <1> HIDE DEF f
  <1>8. f[0] = v0
        /\ \A i \in 1 .. N : f[i] = AddOne(n, f[i - 1], contacts[i], onlyNew)
    BY <1>0, <1>7
  <1> DEFINE S == {i \in Nat : i \in 0 .. N => f[i] \in V}
  <1>9. 0 \in S
    BY <1>1, <1>8
  <1>10. ASSUME NEW i \in Nat, i \in S PROVE i + 1 \in S
    <2>1. CASE i + 1 \in 0 .. N
      <3>1. i \in 0 .. N /\ i + 1 \in 1 .. N /\ (i + 1) - 1 = i
        BY <1>0, <2>1
      <3>2. f[i] \in V
        BY <1>10, <3>1
      <3>3. f[i + 1] = AddOne(n, f[i], contacts[i + 1], onlyNew)
        BY <1>8, <3>1
      <3> QED  BY <1>2, <3>1, <3>2, <3>3
    <2> QED  BY <2>1
  <1>11. Nat \subseteq S
    <2> HIDE DEF S
    <2> QED  BY <1>9, <1>10, SetInduction
  <1>12. f[N] \in V
    BY <1>0, <1>11
  <1> QED  BY <1>3, <1>12 DEF V

-----------------------------------------------------------------------------
(* Replies *)

(* A FOUND_NODES reply holds contacts of the responder's table, also after *)
(* the requester has sorted and cut it again.                              *)
LEMMA FoundNodesFromTable ==
    ASSUME NEW p \in Node, NEW n \in Node, store[p] \in Store,
           StoreOK(p, store[p], 0)
    PROVE  /\ FoundNodes(p, n) \in Seq(Contact)
           /\ Range(FoundNodes(p, n)) \subseteq get_all_contacts(store[p].table)
PROOF
  <1> DEFINE S == get_all_contacts(store[p].table)
             r == FoundNodes(p, n)
             k == Min({AnswerK[p], AnswerK[n]})
  <1>1. /\ p \in NodeIds /\ n \in NodeIds
        /\ AnswerK[p] \in Nat /\ AnswerK[n] \in Nat
    BY NodeAssumption, AnswerKAssumption
  <1>2. k \in Nat
    BY <1>1 DEF Min
  <1>3. r = find_closest(store[p].table, n, k)
    BY <1>1, FoundNodesAreClosest DEF FoundNodes
  <1>4. r \in Seq(S) /\ S \subseteq Contact
    BY <1>1, <1>2, <1>3, FindClosestNearest, ContactsOfStore
  <1> HIDE DEF r, S
  <1>5. r \in Seq(Contact) /\ Range(r) \subseteq S
    BY <1>4 DEF Range
  <1> QED  BY <1>5 DEF r, S

-----------------------------------------------------------------------------
(* The invariant *)

(* An operation is told by its kind and step. *)
LEMMA OpKinds ==
    ASSUME NEW o \in Ops
    PROVE  /\ o \in JoinOps <=> o.kind = "join" /\ o.step # "done"
           /\ o \in JoinedOps <=> o.kind = "join" /\ o.step = "done"
           /\ o \in DiscoverOps <=> o.kind = "discover"
           /\ o.kind = "none" => o.step \in {"done", "failed"}
PROOF
  <1>1. CASE o \in {NoOp, FailedOp}
    BY <1>1 DEF NoOp, FailedOp, JoinOps, JoinedOps, DiscoverOps
  <1>2. CASE o \in JoinOps
    BY <1>2 DEF JoinOps, JoinedOps, DiscoverOps
  <1>3. CASE o \in JoinedOps
    BY <1>3 DEF JoinOps, JoinedOps, DiscoverOps
  <1>4. CASE o \in DiscoverOps
    BY <1>4 DEF JoinOps, JoinedOps, DiscoverOps
  <1> QED  BY <1>1, <1>2, <1>3, <1>4 DEF Ops

(* A node that does not move keeps its invariant: what was an address of a *)
(* peer stays one.                                                         *)
LEMMA OthersKeep ==
    ASSUME NEW m \in Node, NodeInv(m), op'[m] = op[m], store'[m] = store[m],
           \A p \in Node : been[p] \subseteq been'[p]
    PROVE  NodeInv(m)'
PROOF
  <1>1. \A c : Genuine(c) => Genuine(c)'
    BY DEF Genuine
  <1>2. StoreSound(m)'
    BY <1>1 DEF NodeInv, StoreSound
  <1>3. DiscoverSound(m)'
    BY DEF NodeInv, DiscoverSound, KnownBefore
  <1>4. \A s : GenuineAll(s) => GenuineAll(s)'
    BY <1>1 DEF GenuineAll
  <1>5. OpGenuine(m)'
    <2>1. CASE op[m] \in JoinOps
      <3>1. op[m].boot.id # NoId => op[m].boot.id \in Node
        BY <2>1 DEF JoinOps
      <3>2. op'[m] \notin JoinedOps /\ op'[m] \notin DiscoverOps
        BY <2>1 DEF JoinOps, JoinedOps, DiscoverOps
      <3> QED  BY <1>4, <2>1, <3>1, <3>2 DEF NodeInv, OpGenuine
    <2>2. CASE op[m] \notin JoinOps
      BY <1>4, <2>2 DEF NodeInv, OpGenuine
    <2> QED  BY <2>1, <2>2
  <1> QED  BY <1>2, <1>3, <1>5 DEF NodeInv

(* So only the node that moves has to be looked at. *)
LEMMA OneNodeMoves ==
    ASSUME OverlayInv, NEW n \in Node, TypeOK', NodeInv(n)',
           \A p \in Node : been[p] \subseteq been'[p],
           \A m \in Node \ {n} : op'[m] = op[m] /\ store'[m] = store[m]
    PROVE  OverlayInv'
PROOF
  <1> SUFFICES ASSUME NEW m \in Node, m # n PROVE NodeInv(m)'
    BY DEF OverlayInv
  <1> QED  BY OthersKeep DEF OverlayInv

(* The case of an action that only changes the operation of n ... *)
LEMMA OpMoves ==
    ASSUME OverlayInv, NEW n \in Node, NEW o \in Ops,
           op' = [op EXCEPT ![n] = o],
           where' = where, been' = been, store' = store,
           starts' = starts, calls' \in 0 .. MaxCalls,
           OpGenuine(n)', DiscoverSound(n)'
    PROVE  OverlayInv'
PROOF
  <1>1. op' \in [Node -> Ops] /\ \A m \in Node \ {n} : op'[m] = op[m]
    BY DEF OverlayInv, TypeOK
  <1>2. TypeOK'
    BY <1>1 DEF OverlayInv, TypeOK
  <1>3. StoreSound(n)'
    BY DEF OverlayInv, NodeInv, StoreSound, Genuine
  <1>4. NodeInv(n)'
    BY <1>3 DEF NodeInv
  <1> QED  BY <1>1, <1>2, <1>4, OneNodeMoves

(* ... and of one that changes its store as well. *)
LEMMA StoreMoves ==
    ASSUME OverlayInv, NEW n \in Node, NEW o \in Ops, NEW s \in Store,
           op' = [op EXCEPT ![n] = o],
           store' = [store EXCEPT ![n] = s],
           where' \in [Node -> Addr \cup {Down}], been' = been,
           starts' = starts, calls' = calls,
           StoreSound(n)', OpGenuine(n)', DiscoverSound(n)'
    PROVE  OverlayInv'
PROOF
  <1>1. /\ op' \in [Node -> Ops] /\ store' \in [Node -> Store]
        /\ \A m \in Node \ {n} : op'[m] = op[m] /\ store'[m] = store[m]
    BY DEF OverlayInv, TypeOK
  <1>2. TypeOK'
    BY <1>1 DEF OverlayInv, TypeOK
  <1>3. NodeInv(n)'
    BY DEF NodeInv
  <1> QED  BY <1>1, <1>2, <1>3, OneNodeMoves

(* The initial states: nobody runs and nobody knows anybody. *)
LEMMA EmptyStoreSound ==
    ASSUME NEW n \in Node
    PROVE  /\ EmptyStore \in Store /\ StoreOK(n, EmptyStore, 0)
           /\ get_all_contacts(EmptyStore.table) = {}
PROOF
  <1>1. n \in NodeIds /\ 0 \in Nat
    BY NodeAssumption
  <1>2. get_all_contacts(EmptyStore.table) = {}
    BY DEF get_all_contacts, EmptyStore, EmptyTable, Range
  <1> QED  BY <1>1, <1>2, EmptyStoreOK

LEMMA NoOpSound ==
    /\ {NoOp, FailedOp} \subseteq Ops
    /\ \A o \in {NoOp, FailedOp} :
          o \notin JoinOps /\ o \notin JoinedOps /\ o \notin DiscoverOps
PROOF
  BY DEF NoOp, FailedOp, Ops, JoinOps, JoinedOps, DiscoverOps

LEMMA InitSound == Init => OverlayInv
PROOF
  <1> SUFFICES ASSUME Init PROVE OverlayInv
    OBVIOUS
  <1>1. TypeOK
    BY EmptyStoreSound, NoOpSound, BoundAssumption DEF Init, TypeOK
  <1>2. ASSUME NEW n \in Node PROVE NodeInv(n)
    <2>1. op[n] = NoOp /\ store[n] = EmptyStore
      BY DEF Init
    <2> QED  BY <2>1, NoOpSound, EmptyStoreSound
             DEF NodeInv, StoreSound, OpGenuine, DiscoverSound
  <1> QED  BY <1>1, <1>2 DEF OverlayInv

-----------------------------------------------------------------------------
(* Nodes come and go *)

LEMMA StartKeeps ==
    ASSUME OverlayInv, NEW n \in Node, NEW a \in Addr, Start(n, a)
    PROVE  OverlayInv'
PROOF
  <1>1. TypeOK'
    <2>1. starts' \in 0 .. MaxStarts
      BY BoundAssumption DEF Start, OverlayInv, TypeOK
    <2> QED  BY <2>1 DEF Start, OverlayInv, TypeOK
  <1>2. \A p \in Node : been[p] \subseteq been'[p]
    BY DEF Start, OverlayInv, TypeOK
  <1>3. op' = op /\ store' = store
    BY DEF Start
  <1>4. NodeInv(n)'
    BY <1>2, <1>3, OthersKeep DEF OverlayInv
  <1> QED  BY <1>1, <1>2, <1>3, <1>4, OneNodeMoves

LEMMA StopKeeps ==
    ASSUME OverlayInv, NEW n \in Node, Stop(n)
    PROVE  OverlayInv'
PROOF
  <1>1. /\ op' = [op EXCEPT ![n] = NoOp] /\ store' = [store EXCEPT ![n] = EmptyStore]
        /\ been' = been /\ starts' = starts /\ calls' = calls
    BY DEF Stop
  <1>2. where' \in [Node -> Addr \cup {Down}]
    BY DEF Stop, OverlayInv, TypeOK
  <1>3. op'[n] = NoOp /\ store'[n] = EmptyStore
    BY <1>1 DEF OverlayInv, TypeOK
  <1>4. NoOp \in Ops /\ EmptyStore \in Store
    BY NoOpSound, EmptyStoreSound
  <1>5. StoreSound(n)' /\ OpGenuine(n)' /\ DiscoverSound(n)'
    BY <1>3, NoOpSound, EmptyStoreSound
       DEF StoreSound, OpGenuine, DiscoverSound
  <1> QED  BY <1>1, <1>2, <1>4, <1>5, StoreMoves

-----------------------------------------------------------------------------
(* Calls *)

(* What a call does besides setting the operation. *)
LEMMA CallFrame ==
    ASSUME OverlayInv, NEW n, NEW o, Call(n, o)
    PROVE  /\ op' = [op EXCEPT ![n] = o]
           /\ where' = where /\ been' = been /\ store' = store
           /\ starts' = starts /\ calls' \in 0 .. MaxCalls
PROOF
  <1>1. calls \in 0 .. MaxCalls /\ calls < MaxCalls /\ calls' = calls + 1
    BY DEF Call, OverlayInv, TypeOK
  <1>2. calls' \in 0 .. MaxCalls
    BY <1>1, BoundAssumption
  <1> QED  BY <1>2 DEF Call

LEMMA BeginJoinKeeps ==
    ASSUME OverlayInv, NEW n \in Node, NEW boot \in Bootstraps(n),
           BeginJoin(n, boot)
    PROVE  OverlayInv'
PROOF
  <1> DEFINE o == Join(boot)
  <1>1. Call(n, o)
    BY DEF BeginJoin
  <1>2. /\ boot \in [id : Node \cup {NoId}, addr : Addr]
        /\ boot.id # NoId => boot.addr \in been[boot.id]
    BY DEF Bootstraps
  <1>3. /\ o \in JoinOps /\ o.reply = << >> /\ o.boot = boot
        /\ o \notin JoinedOps /\ o \notin DiscoverOps
    BY <1>2 DEF Join, JoinOps, JoinedOps, DiscoverOps
  <1>4. o \in Ops
    BY <1>3 DEF Ops
  <1> HIDE DEF o
  <1>5. op'[n] = o /\ been' = been
    BY <1>1, CallFrame DEF OverlayInv, TypeOK
  <1>6. OpGenuine(n)' /\ DiscoverSound(n)'
    BY <1>2, <1>3, <1>5 DEF OpGenuine, DiscoverSound, GenuineAll
  <1> QED  BY <1>1, <1>4, <1>6, CallFrame, OpMoves

LEMMA BeginDiscoverKeeps ==
    ASSUME OverlayInv, NEW n \in Node, NEW seeds \in Seq(Contact),
           GenuineAll(seeds), BeginDiscover(n, seeds)
    PROVE  OverlayInv'
PROOF
  <1> DEFINE known == get_all_contacts(store[n].table)
             o == Discover(seeds, known)
  <1>1. Call(n, o)
    BY DEF BeginDiscover
  <1>2. known \subseteq Contact /\ TableIds(store[n].table) = KnownIds(store[n])
    BY ContactsOfStore, NodeAssumption
       DEF OverlayInv, TypeOK, NodeInv, StoreSound
  <1> HIDE DEF known
  <1>3. /\ o.seeds = seeds /\ o.reply = << >> /\ o.out = << >>
        /\ o.before = known /\ o.replied = {}
        /\ o.step # "done" => seeds # << >>
    BY DEF Discover
  <1>4. /\ o \in DiscoverOps /\ o \notin JoinOps /\ o \notin JoinedOps
        /\ o \in Ops
    BY <1>2 DEF Discover, JoinOps, JoinedOps, DiscoverOps, Ops
  <1> HIDE DEF o
  <1>5. op'[n] = o /\ been' = been /\ store' = store
    BY <1>1, CallFrame DEF OverlayInv, TypeOK
  <1>6. OpGenuine(n)'
    <2>1. GenuineAll(seeds)' /\ GenuineAll(<< >>)'
      BY <1>5 DEF GenuineAll, Genuine
    <2> QED  BY <1>3, <1>4, <1>5, <2>1 DEF OpGenuine
  <1>7. DiscoverSound(n)'
    <2>1. BucketIds(<< >>) = {} /\ Distinct(<< >>)
      BY DEF BucketIds, Distinct
    <2>2. KnownBefore(n)' = KnownIds(store[n])
      BY <1>2, <1>3, <1>5 DEF KnownBefore, TableIds, known
    <2> QED  BY <1>3, <1>4, <1>5, <2>1, <2>2 DEF DiscoverSound, known
  <1> QED  BY <1>1, <1>4, <1>6, <1>7, CallFrame, OpMoves

LEMMA DiscoverAfterJoinKeeps ==
    ASSUME OverlayInv, NEW n \in Node, DiscoverAfterJoin(n)
    PROVE  OverlayInv'
PROOF
  <1>1. op[n] \in Ops
    BY DEF OverlayInv, TypeOK
  <1>2. op[n] \in JoinedOps
    BY <1>1, OpKinds DEF DiscoverAfterJoin
  <1>3. op[n].out \in Seq(Contact) /\ GenuineAll(op[n].out)
    BY <1>2 DEF OverlayInv, NodeInv, OpGenuine, JoinedOps
  <1> QED  BY <1>3, BeginDiscoverKeeps DEF DiscoverAfterJoin

LEMMA DiscoverFreshSeedKeeps ==
    ASSUME OverlayInv, NEW n \in Node,
           NEW c \in [node_id : Node \ {n}, addr : Addr], Genuine(c),
           DiscoverFreshSeed(n, c)
    PROVE  OverlayInv'
PROOF
  <1>1. c \in Contact
    BY NodeAssumption DEF Contact
  <1>2. <<c>> \in Seq(Contact) /\ GenuineAll(<<c>>)
    BY <1>1 DEF GenuineAll
  <1> QED  BY <1>2, BeginDiscoverKeeps DEF DiscoverFreshSeed

-----------------------------------------------------------------------------
(* Steps of join *)

(* What a step does besides setting the operation. *)
LEMMA SetOpFrame ==
    ASSUME OverlayInv, NEW n \in Node, NEW o, SetOp(n, o)
    PROVE  /\ op' = [op EXCEPT ![n] = o] /\ op'[n] = o
           /\ where' = where /\ been' = been
           /\ starts' = starts /\ calls' = calls /\ calls' \in 0 .. MaxCalls
           /\ where' \in [Node -> Addr \cup {Down}]
PROOF
  BY DEF SetOp, OverlayInv, TypeOK

(* What a reply carries is genuine, because the responder's store is. *)
LEMMA ReplyGenuine ==
    ASSUME OverlayInv, NEW p \in Node, NEW n \in Node
    PROVE  FoundNodes(p, n) \in Seq(Contact) /\ GenuineAll(FoundNodes(p, n))
PROOF
  <1>1. /\ store[p] \in Store /\ StoreOK(p, store[p], 0)
        /\ \A c \in get_all_contacts(store[p].table) : Genuine(c)
    BY DEF OverlayInv, TypeOK, NodeInv, StoreSound
  <1> DEFINE r == FoundNodes(p, n)
  <1>2. r \in Seq(Contact) /\ Range(r) \subseteq get_all_contacts(store[p].table)
    BY <1>1, FoundNodesFromTable
  <1> HIDE DEF r
  <1>3. \A i \in DOMAIN r : r[i] \in Range(r)
    BY DEF Range
  <1>4. GenuineAll(r)
    BY <1>1, <1>2, <1>3 DEF GenuineAll
  <1> QED  BY <1>2, <1>4 DEF r

(* A join that goes on with genuine contacts. *)
LEMMA JoinGoesOn ==
    ASSUME OverlayInv, NEW n \in Node, op[n] \in JoinOps,
           NEW o \in JoinOps, o.boot = op[n].boot, GenuineAll(o.reply),
           SetOp(n, o), store' = store
    PROVE  OverlayInv'
PROOF
  <1>1. o \in Ops /\ o \notin JoinedOps /\ o \notin DiscoverOps
    BY DEF Ops, JoinOps, JoinedOps, DiscoverOps
  <1>2. op'[n] = o /\ been' = been
    BY SetOpFrame
  <1>3. GenuineAll(o.reply)'
    BY <1>2 DEF GenuineAll, Genuine
  <1>4. op[n].boot.id # NoId => op[n].boot.addr \in been[op[n].boot.id]
    BY DEF OverlayInv, NodeInv, OpGenuine
  <1>5. OpGenuine(n)'
    BY <1>1, <1>2, <1>3, <1>4 DEF OpGenuine
  <1>6. DiscoverSound(n)'
    BY <1>1, <1>2 DEF DiscoverSound
  <1> QED  BY <1>1, <1>5, <1>6, SetOpFrame, OpMoves

LEMMA JoinPingKeeps ==
    ASSUME OverlayInv, NEW n \in Node, JoinPing(n)
    PROVE  OverlayInv'
PROOF
  <1>1. op[n] \in JoinOps
    <2>1. op[n] \in Ops
      BY DEF OverlayInv, TypeOK
    <2> QED  BY <2>1, OpKinds DEF JoinPing
  <1> DEFINE o == [op[n] EXCEPT !.step = "find"]
  <1>2. o \in JoinOps /\ o.boot = op[n].boot /\ o.reply = op[n].reply
    BY <1>1 DEF JoinOps
  <1>3. SetOp(n, o) /\ store' = store
    BY DEF JoinPing
  <1> HIDE DEF o
  <1>4. GenuineAll(o.reply)
    BY <1>1, <1>2 DEF OverlayInv, NodeInv, OpGenuine
  <1> QED  BY <1>1, <1>2, <1>3, <1>4, JoinGoesOn

LEMMA JoinFindKeeps ==
    ASSUME OverlayInv, NEW n \in Node, JoinFind(n)
    PROVE  OverlayInv'
PROOF
  <1>1. op[n] \in JoinOps
    <2>1. op[n] \in Ops
      BY DEF OverlayInv, TypeOK
    <2> QED  BY <2>1, OpKinds DEF JoinFind
  <1>2. PICK p \in Node \ {n} :
               SetOp(n, [op[n] EXCEPT !.step = "store", !.reply = FoundNodes(p, n)])
    BY DEF JoinFind
  <1> DEFINE r == FoundNodes(p, n)
             o == [op[n] EXCEPT !.step = "store", !.reply = r]
  <1>3. r \in Seq(Contact) /\ GenuineAll(r)
    BY ReplyGenuine
  <1>4. SetOp(n, o) /\ store' = store
    BY <1>2 DEF JoinFind
  <1> HIDE DEF r
  <1>5. o \in JoinOps /\ o.boot = op[n].boot /\ o.reply = r
    BY <1>1, <1>3 DEF JoinOps
  <1> HIDE DEF o
  <1> QED  BY <1>1, <1>3, <1>4, <1>5, JoinGoesOn

LEMMA JoinFailsKeeps ==
    ASSUME OverlayInv, NEW n \in Node, JoinFails(n)
    PROVE  OverlayInv'
PROOF
  <1>1. SetOp(n, FailedOp) /\ store' = store
    BY DEF JoinFails
  <1>2. FailedOp \in Ops
    BY NoOpSound
  <1>3. OpGenuine(n)' /\ DiscoverSound(n)'
    BY <1>1, SetOpFrame, NoOpSound DEF OpGenuine, DiscoverSound
  <1> QED  BY <1>1, <1>2, <1>3, SetOpFrame, OpMoves

(* The contacts a join stores, the bootstrap peer included, are genuine. *)
LEMMA JoinContactsGenuine ==
    ASSUME OverlayInv, NEW n \in Node, op[n] \in JoinOps
    PROVE  /\ JoinContacts(op[n]) \in Seq(Contact)
           /\ \A c \in Range(JoinContacts(op[n])) : Genuine(c)
PROOF
  <1> DEFINE o == op[n]
             boot == IF o.boot.id = NoId THEN << >>
                     ELSE <<[node_id |-> o.boot.id, addr |-> o.boot.addr]>>
  <1>1. /\ o.reply \in Seq(Contact) /\ GenuineAll(o.reply)
        /\ o.boot.id \in Node \cup {NoId} /\ o.boot.addr \in Addr
        /\ o.boot.id # NoId => o.boot.addr \in been[o.boot.id]
    BY DEF OverlayInv, NodeInv, OpGenuine, JoinOps
  <1>2. boot \in Seq(Contact) /\ GenuineAll(boot)
    <2>1. CASE o.boot.id = NoId
      BY <2>1 DEF GenuineAll
    <2>2. CASE o.boot.id # NoId
      <3> DEFINE c == [node_id |-> o.boot.id, addr |-> o.boot.addr]
      <3>1. c \in Contact /\ Genuine(c)
        BY <1>1, <2>2, NodeAssumption DEF Contact, Genuine
      <3>2. boot = <<c>>
        BY <2>2
      <3> HIDE DEF c, boot
      <3> QED  BY <3>1, <3>2 DEF GenuineAll
    <2> QED  BY <2>1, <2>2
  <1>3. JoinContacts(o) = boot \o o.reply
    BY DEF JoinContacts
  <1> DEFINE r == o.reply
             all == boot \o r
  <1> HIDE DEF boot, o, r
  <1>4. r \in Seq(Contact) /\ GenuineAll(r)
    BY <1>1 DEF r
  <1>5. /\ all \in Seq(Contact)
        /\ DOMAIN all = 1 .. Len(boot) + Len(r)
        /\ \A i \in 1 .. Len(boot) + Len(r) :
              all[i] = IF i <= Len(boot) THEN boot[i] ELSE r[i - Len(boot)]
    BY <1>2, <1>4
  <1>6. \A i \in DOMAIN all : Genuine(all[i])
    <2> SUFFICES ASSUME NEW i \in 1 .. Len(boot) + Len(r)
                 PROVE  Genuine(all[i])
      BY <1>5
    <2>1. Len(boot) \in Nat /\ Len(r) \in Nat
          /\ DOMAIN boot = 1 .. Len(boot) /\ DOMAIN r = 1 .. Len(r)
      BY <1>2, <1>4
    <2>2. CASE i <= Len(boot)
      <3>1. i \in DOMAIN boot /\ all[i] = boot[i]
        BY <1>5, <2>1, <2>2
      <3> QED  BY <1>2, <3>1 DEF GenuineAll
    <2>3. CASE ~(i <= Len(boot))
      <3>1. i - Len(boot) \in DOMAIN r /\ all[i] = r[i - Len(boot)]
        BY <1>5, <2>1, <2>3
      <3> QED  BY <1>4, <3>1 DEF GenuineAll
    <2> QED  BY <2>2, <2>3
  <1> HIDE DEF all
  <1>7. \A c \in Range(all) : Genuine(c)
    BY <1>6 DEF Range
  <1> QED  BY <1>3, <1>5, <1>7 DEF all, r, o

(* A store that is sound stays so when genuine contacts are added. *)
LEMMA AddedSound ==
    ASSUME OverlayInv, NEW n \in Node, NEW st \in Store, StoreOK(n, st, 0),
           \A c \in get_all_contacts(st.table) : Genuine(c),
           NEW out \in Seq(Contact), NEW contacts \in Seq(Contact),
           \A c \in Range(contacts) : Genuine(c), NEW onlyNew \in BOOLEAN
    PROVE  LET r == AddAll(n, st, out, contacts, onlyNew)
           IN  /\ r.store \in Store /\ r.out \in Seq(Contact)
               /\ Added(n, st, out, contacts, onlyNew, r)
               /\ StoreOK(n, r.store, 0)
               /\ \A c \in get_all_contacts(r.store.table) : Genuine(c)
PROOF
  <1> DEFINE r == AddAll(n, st, out, contacts, onlyNew)
  <1>1. n \in NodeIds
    BY NodeAssumption
  <1>2. r \in Accumulators /\ Added(n, st, out, contacts, onlyNew, r)
    BY <1>1, AddAllAdds
  <1> HIDE DEF r
  <1>3. r.store \in Store /\ r.out \in Seq(Contact)
    BY <1>2 DEF Accumulators
  <1>4. /\ StoreOK(n, r.store, 0)
        /\ \A c \in get_all_contacts(r.store.table) : Genuine(c)
    BY <1>2 DEF Added
  <1> QED  BY <1>2, <1>3, <1>4 DEF r

LEMMA JoinStoreKeeps ==
    ASSUME OverlayInv, NEW n \in Node, JoinStore(n)
    PROVE  OverlayInv'
PROOF
  <1>1. op[n] \in JoinOps
    <2>1. op[n] \in Ops
      BY DEF OverlayInv, TypeOK
    <2> QED  BY <2>1, OpKinds DEF JoinStore
  <1> DEFINE contacts == JoinContacts(op[n])
             all == AddAll(n, store[n], << >>, contacts, FALSE)
             o == Joined(all.out)
  <1>2. contacts \in Seq(Contact) /\ \A c \in Range(contacts) : Genuine(c)
    BY <1>1, JoinContactsGenuine
  <1>3. /\ store[n] \in Store /\ StoreOK(n, store[n], 0)
        /\ \A c \in get_all_contacts(store[n].table) : Genuine(c)
        /\ << >> \in Seq(Contact) /\ FALSE \in BOOLEAN
    BY DEF OverlayInv, TypeOK, NodeInv, StoreSound
  <1>4. store' = [store EXCEPT ![n] = all.store] /\ SetOp(n, o)
    BY DEF JoinStore
  <1> HIDE DEF contacts
  <1>5. /\ all.store \in Store /\ all.out \in Seq(Contact)
        /\ Added(n, store[n], << >>, contacts, FALSE, all)
        /\ StoreOK(n, all.store, 0)
        /\ \A c \in get_all_contacts(all.store.table) : Genuine(c)
    BY <1>2, <1>3, AddedSound
  <1> HIDE DEF all
  <1>6. GenuineAll(all.out)
    <2>1. Range(<< >>) = {} /\ \A i \in DOMAIN all.out : all.out[i] \in Range(all.out)
      BY DEF Range
    <2> QED  BY <1>2, <1>5, <2>1 DEF Added, GenuineAll
  <1>7. /\ o \in JoinedOps /\ o.out = all.out
        /\ o \in Ops /\ o \notin JoinOps /\ o \notin DiscoverOps
    BY <1>5 DEF Joined, JoinedOps, JoinOps, DiscoverOps, Ops
  <1> HIDE DEF o
  <1>8. op'[n] = o /\ been' = been /\ store'[n] = all.store
    BY <1>3, <1>4, SetOpFrame DEF OverlayInv, TypeOK
  <1>9. OpGenuine(n)' /\ DiscoverSound(n)'
    <2>1. \A s : GenuineAll(s) => GenuineAll(s)'
      BY <1>8 DEF GenuineAll, Genuine
    <2> QED  BY <1>6, <1>7, <1>8, <2>1 DEF OpGenuine, DiscoverSound
  <1>10. StoreSound(n)'
    BY <1>5, <1>8 DEF StoreSound, Genuine
  <1> QED  BY <1>4, <1>5, <1>7, <1>9, <1>10, SetOpFrame, StoreMoves

-----------------------------------------------------------------------------
(* Steps of discover *)

(* What the invariant says of a discovery that runs. *)
LEMMA DiscoverRuns ==
    ASSUME OverlayInv, NEW n \in Node, op[n].kind = "discover",
           op[n].step # "done"
    PROVE  /\ op[n] \in DiscoverOps
           /\ op[n].seeds \in Seq(Contact) /\ GenuineAll(op[n].seeds)
           /\ op[n].reply \in Seq(Contact) /\ GenuineAll(op[n].reply)
           /\ op[n].seeds # << >> /\ Len(op[n].seeds) \in Nat \ {0}
           /\ Head(op[n].seeds) \in Contact /\ Genuine(Head(op[n].seeds))
           /\ Tail(op[n].seeds) \in Seq(Contact) /\ GenuineAll(Tail(op[n].seeds))
           /\ Len(Tail(op[n].seeds)) = Len(op[n].seeds) - 1
PROOF
  <1>1. op[n] \in DiscoverOps
    <2>1. op[n] \in Ops
      BY DEF OverlayInv, TypeOK
    <2> QED  BY <2>1, OpKinds
  <1>2. /\ op[n].seeds \in Seq(Contact) /\ GenuineAll(op[n].seeds)
        /\ op[n].reply \in Seq(Contact) /\ GenuineAll(op[n].reply)
        /\ op[n].seeds # << >>
    BY <1>1 DEF OverlayInv, NodeInv, OpGenuine, DiscoverSound, DiscoverOps
  <1> DEFINE s == op[n].seeds
  <1> HIDE DEF s
  <1>3. s \in Seq(Contact) /\ GenuineAll(s) /\ s # << >>
    BY <1>2 DEF s
  <1>4. /\ Len(s) \in Nat \ {0} /\ 1 \in DOMAIN s /\ Head(s) = s[1]
        /\ Head(s) \in Contact /\ Tail(s) \in Seq(Contact)
        /\ Len(Tail(s)) = Len(s) - 1
        /\ DOMAIN Tail(s) = 1 .. Len(s) - 1
        /\ \A i \in 1 .. Len(s) - 1 : i + 1 \in DOMAIN s /\ Tail(s)[i] = s[i + 1]
    BY <1>3
  <1>5. Genuine(Head(s)) /\ GenuineAll(Tail(s))
    BY <1>3, <1>4 DEF GenuineAll
  <1> QED  BY <1>1, <1>2, <1>4, <1>5 DEF s

(* NextSeed drops a seed and leaves the list and the history alone. *)
LEMMA NextSeedType ==
    ASSUME NEW o \in DiscoverOps, Tail(o.seeds) \in Seq(Contact)
    PROVE  /\ NextSeed(o) \in DiscoverOps
           /\ NextSeed(o).seeds = Tail(o.seeds)
           /\ NextSeed(o).reply = << >>
           /\ NextSeed(o).out = o.out
           /\ NextSeed(o).before = o.before
           /\ NextSeed(o).replied = o.replied
           /\ NextSeed(o).step = IF Len(o.seeds) = 1 THEN "done" ELSE "ask"
PROOF
  <1> DEFINE st == IF Len(o.seeds) = 1 THEN "done" ELSE "ask"
             tl == Tail(o.seeds)
  <1>1. NextSeed(o) = [o EXCEPT !.seeds = tl, !.reply = << >>, !.step = st]
    BY DEF NextSeed
  <1>2. /\ st \in {"ask", "store", "done"}
        /\ tl \in Seq(Contact) /\ << >> \in Seq(Contact)
    OBVIOUS
  <1> HIDE DEF st, tl
  <1> DEFINE e == << >>
  <1>3. e \in Seq(Contact) /\ e = << >>
    BY <1>2
  <1> HIDE DEF e
  <1>4. NextSeed(o) = [o EXCEPT !.seeds = tl, !.reply = e, !.step = st]
    BY <1>1, <1>3
  <1>5. /\ NextSeed(o) \in DiscoverOps
        /\ NextSeed(o).seeds = tl
        /\ NextSeed(o).reply = e
        /\ NextSeed(o).out = o.out
        /\ NextSeed(o).before = o.before
        /\ NextSeed(o).replied = o.replied
        /\ NextSeed(o).step = st
    BY <1>2, <1>3, <1>4 DEF DiscoverOps
  <1> QED  BY <1>3, <1>5 DEF st, tl

(* A discovery that goes on without storing anything. *)
LEMMA DiscoverGoesOn ==
    ASSUME OverlayInv, NEW n \in Node, op[n] \in DiscoverOps,
           NEW o \in DiscoverOps, o.out = op[n].out,
           o.before = op[n].before, o.replied = op[n].replied,
           o.step # "done" => o.seeds # << >>,
           GenuineAll(o.seeds), GenuineAll(o.reply),
           SetOp(n, o), store' = store
    PROVE  OverlayInv'
PROOF
  <1>1. o \in Ops /\ o \notin JoinOps /\ o \notin JoinedOps
    BY DEF Ops, JoinOps, JoinedOps, DiscoverOps
  <1>2. op'[n] = o /\ been' = been
    BY SetOpFrame
  <1>3. GenuineAll(o.seeds)' /\ GenuineAll(o.reply)'
    BY <1>2 DEF GenuineAll, Genuine
  <1>4. OpGenuine(n)'
    BY <1>1, <1>2, <1>3 DEF OpGenuine
  <1>5. DiscoverSound(n)'
    <2>1. DiscoverSound(n)
      BY DEF OverlayInv, NodeInv
    <2> QED  BY <1>2, <2>1 DEF DiscoverSound, KnownBefore
  <1> QED  BY <1>1, <1>4, <1>5, SetOpFrame, OpMoves

LEMMA DiscoverAskKeeps ==
    ASSUME OverlayInv, NEW n \in Node, DiscoverAsk(n)
    PROVE  OverlayInv'
PROOF
  <1>1. op[n].kind = "discover" /\ op[n].step # "done"
    BY DEF DiscoverAsk
  <1>2. PICK p \in Node \ {n} :
               SetOp(n, [op[n] EXCEPT !.step = "store", !.reply = FoundNodes(p, n)])
    BY DEF DiscoverAsk
  <1> DEFINE r == FoundNodes(p, n)
             o == [op[n] EXCEPT !.step = "store", !.reply = r]
  <1>3. r \in Seq(Contact) /\ GenuineAll(r)
    BY ReplyGenuine
  <1>4. SetOp(n, o) /\ store' = store
    BY <1>2 DEF DiscoverAsk
  <1>5. /\ op[n] \in DiscoverOps /\ op[n].seeds # << >>
        /\ GenuineAll(op[n].seeds)
    BY <1>1, DiscoverRuns
  <1> HIDE DEF r
  <1>6. /\ o \in DiscoverOps /\ o.out = op[n].out /\ o.before = op[n].before
        /\ o.replied = op[n].replied /\ o.seeds = op[n].seeds /\ o.reply = r
    BY <1>3, <1>5 DEF DiscoverOps
  <1> HIDE DEF o
  <1> QED  BY <1>3, <1>4, <1>5, <1>6, DiscoverGoesOn

LEMMA DiscoverSkipKeeps ==
    ASSUME OverlayInv, NEW n \in Node, DiscoverSkip(n)
    PROVE  OverlayInv'
PROOF
  <1>1. op[n].kind = "discover" /\ op[n].step # "done"
    BY DEF DiscoverSkip
  <1> DEFINE o == NextSeed(op[n])
  <1>2. SetOp(n, o) /\ store' = store
    BY DEF DiscoverSkip
  <1>3. /\ op[n] \in DiscoverOps /\ Len(op[n].seeds) \in Nat \ {0}
        /\ Tail(op[n].seeds) \in Seq(Contact) /\ GenuineAll(Tail(op[n].seeds))
        /\ Len(Tail(op[n].seeds)) = Len(op[n].seeds) - 1
    BY <1>1, DiscoverRuns
  <1>4. /\ o \in DiscoverOps /\ o.out = op[n].out /\ o.before = op[n].before
        /\ o.replied = op[n].replied /\ o.seeds = Tail(op[n].seeds)
        /\ o.reply = << >>
        /\ o.step = IF Len(op[n].seeds) = 1 THEN "done" ELSE "ask"
    BY <1>3, NextSeedType
  <1> HIDE DEF o
  <1>5. o.step # "done" => o.seeds # << >>
    <2>1. CASE Len(op[n].seeds) = 1
      BY <1>4, <2>1
    <2>2. CASE Len(op[n].seeds) # 1
      <3>1. Len(o.seeds) # 0
        BY <1>3, <1>4, <2>2
      <3> QED  BY <3>1
    <2> QED  BY <2>1, <2>2
  <1>6. GenuineAll(<< >>)
    BY DEF GenuineAll
  <1> QED  BY <1>2, <1>3, <1>4, <1>5, <1>6, DiscoverGoesOn

(* The list after a seed has replied: the first loop only adds the seed,   *)
(* and whoever the second adds was not known, so not at the start either.  *)
LEMMA DiscoverStoreKeeps ==
    ASSUME OverlayInv, NEW n \in Node, DiscoverStore(n)
    PROVE  OverlayInv'
PROOF
  <1>1. op[n].kind = "discover" /\ op[n].step # "done"
    BY DEF DiscoverStore
  <1> DEFINE h == Head(op[n].seeds)
             reply == op[n].reply
             seed == AddAll(n, store[n], << >>, <<h>>, FALSE)
             all == AddAll(n, seed.store, op[n].out, reply, TRUE)
             replied == op[n].replied \cup {h.node_id}
             o1 == NextSeed(op[n])
             o == [o1 EXCEPT !.out = all.out,
                             !.replied = @ \cup {h.node_id}]
  <1>2. /\ op[n] \in DiscoverOps /\ Len(op[n].seeds) \in Nat \ {0}
        /\ h \in Contact /\ Genuine(h)
        /\ reply \in Seq(Contact) /\ GenuineAll(reply)
        /\ Tail(op[n].seeds) \in Seq(Contact) /\ GenuineAll(Tail(op[n].seeds))
        /\ Len(Tail(op[n].seeds)) = Len(op[n].seeds) - 1
    BY <1>1, DiscoverRuns
  <1>3. /\ store[n] \in Store /\ StoreOK(n, store[n], 0)
        /\ \A c \in get_all_contacts(store[n].table) : Genuine(c)
        /\ << >> \in Seq(Contact) /\ FALSE \in BOOLEAN /\ TRUE \in BOOLEAN
    BY DEF OverlayInv, TypeOK, NodeInv, StoreSound
  <1>4. store' = [store EXCEPT ![n] = all.store] /\ SetOp(n, o)
    BY DEF DiscoverStore
  <1>5. /\ o1 \in DiscoverOps /\ o1.out = op[n].out /\ o1.before = op[n].before
        /\ o1.replied = op[n].replied /\ o1.seeds = Tail(op[n].seeds)
        /\ o1.reply = << >>
        /\ o1.step = IF Len(op[n].seeds) = 1 THEN "done" ELSE "ask"
    BY <1>2, NextSeedType
  <1> HIDE DEF o1, h, reply
  <1>6. /\ seed.store \in Store
        /\ Added(n, store[n], << >>, <<h>>, FALSE, seed)
        /\ StoreOK(n, seed.store, 0)
        /\ \A c \in get_all_contacts(seed.store.table) : Genuine(c)
    <2>1. <<h>> \in Seq(Contact) /\ \A c \in Range(<<h>>) : Genuine(c)
      BY <1>2 DEF Range
    <2> QED  BY <1>3, <2>1, AddedSound
  <1> HIDE DEF seed
  <1>7. /\ all.store \in Store /\ all.out \in Seq(Contact)
        /\ Added(n, seed.store, op[n].out, reply, TRUE, all)
        /\ StoreOK(n, all.store, 0)
        /\ \A c \in get_all_contacts(all.store.table) : Genuine(c)
    <2>1. \A c \in Range(reply) : Genuine(c)
      BY <1>2 DEF Range, GenuineAll
    <2>2. op[n].out \in Seq(Contact)
      BY <1>2 DEF DiscoverOps
    <2> QED  BY <1>2, <1>3, <1>6, <2>1, <2>2, AddedSound
  <1> HIDE DEF all
  <1>8. /\ o \in DiscoverOps /\ o.out = all.out /\ o.before = op[n].before
        /\ o.replied = replied /\ o.seeds = Tail(op[n].seeds)
        /\ o.reply = << >>
        /\ o.step = IF Len(op[n].seeds) = 1 THEN "done" ELSE "ask"
    <2>1. h.node_id \in NodeIds
      BY <1>2 DEF Contact
    <2>2. replied \in SUBSET NodeIds
      BY <1>2, <2>1 DEF DiscoverOps
    <2> QED  BY <1>5, <1>7, <2>2 DEF DiscoverOps
  <1> HIDE DEF o
  <1>9. op'[n] = o /\ been' = been /\ store'[n] = all.store
    BY <1>3, <1>4, SetOpFrame DEF OverlayInv, TypeOK
  <1>10. o \in Ops /\ o \notin JoinOps /\ o \notin JoinedOps
    BY <1>8 DEF Ops, JoinOps, JoinedOps, DiscoverOps
  <1>11. OpGenuine(n)'
    <2>1. GenuineAll(Tail(op[n].seeds)) /\ GenuineAll(<< >>)
      BY <1>2 DEF GenuineAll
    <2>2. \A s : GenuineAll(s) => GenuineAll(s)'
      BY <1>9 DEF GenuineAll, Genuine
    <2> QED  BY <1>8, <1>9, <1>10, <2>1, <2>2 DEF OpGenuine
  <1>12. DiscoverSound(n)'
    <2>1. o.step # "done" => o.seeds # << >>
      <3>1. CASE Len(op[n].seeds) = 1
        BY <1>8, <3>1
      <3>2. CASE Len(op[n].seeds) # 1
        <4>1. Len(o.seeds) # 0
          BY <1>2, <1>8, <3>2
        <4> QED  BY <4>1
      <3> QED  BY <3>1, <3>2
    <2> DEFINE before == KnownBefore(n)
    <2>2. /\ before \subseteq KnownIds(store[n])
          /\ BucketIds(op[n].out) \subseteq KnownIds(store[n]) \ before
          /\ KnownIds(store[n]) \ before
               \subseteq BucketIds(op[n].out) \cup op[n].replied
          /\ Distinct(op[n].out)
          /\ \A c \in op[n].before :
                \/ c \in get_all_contacts(store[n].table)
                \/ c.node_id \in op[n].replied
      BY <1>2 DEF OverlayInv, NodeInv, DiscoverSound
    <2>3. /\ KnownIds(store[n]) \subseteq KnownIds(seed.store)
          /\ KnownIds(seed.store) \subseteq KnownIds(store[n]) \cup {h.node_id}
          /\ \A c \in get_all_contacts(store[n].table) :
                \/ c \in get_all_contacts(seed.store.table)
                \/ c.node_id = h.node_id
      <3>1. BucketIds(<<h>>) = {h.node_id}
        BY DEF BucketIds
      <3> QED  BY <1>6, <3>1 DEF Added
    <2>4. /\ KnownIds(seed.store) \subseteq KnownIds(all.store)
          /\ KnownIds(all.store) \ KnownIds(seed.store) \subseteq BucketIds(all.out)
          /\ BucketIds(all.out) \subseteq
                BucketIds(op[n].out) \cup (KnownIds(all.store) \ KnownIds(seed.store))
          /\ Range(op[n].out) \subseteq Range(all.out)
          /\ get_all_contacts(seed.store.table)
                \subseteq get_all_contacts(all.store.table)
      BY <1>7 DEF Added
    <2>5. BucketIds(op[n].out) \subseteq BucketIds(all.out)
      <3>1. \A s : BucketIds(s) = {c.node_id : c \in Range(s)}
        BY DEF BucketIds, Range
      <3> QED  BY <2>4, <3>1
    <2>6. /\ before \subseteq KnownIds(all.store)
          /\ BucketIds(all.out) \subseteq KnownIds(all.store) \ before
          /\ KnownIds(all.store) \ before
               \subseteq BucketIds(all.out) \cup replied
      BY <2>2, <2>3, <2>4, <2>5
    <2>7. Distinct(all.out)
      <3>1. BucketIds(op[n].out) \subseteq KnownIds(seed.store)
        BY <2>2, <2>3
      <3> QED  BY <1>7, <2>2, <3>1 DEF Added
    <2>8. \A c \in op[n].before :
             \/ c \in get_all_contacts(all.store.table)
             \/ c.node_id \in replied
      BY <2>2, <2>3, <2>4
    <2>9. KnownBefore(n)' = before
      BY <1>8, <1>9 DEF KnownBefore
    <2> HIDE DEF before
    <2> QED  BY <1>8, <1>9, <2>1, <2>6, <2>7, <2>8, <2>9 DEF DiscoverSound
  <1>13. StoreSound(n)'
    BY <1>7, <1>9 DEF StoreSound, Genuine
  <1> QED  BY <1>4, <1>7, <1>10, <1>11, <1>12, <1>13, SetOpFrame, StoreMoves

-----------------------------------------------------------------------------
(* Theorems *)

(* The invariant is inductive. *)
LEMMA OverlayInvInductive ==
    /\ Init => OverlayInv
    /\ OverlayInv /\ [Next]_vars => OverlayInv'
PROOF
  <1>1. ASSUME OverlayInv, NEW n \in Node, Step(n) PROVE OverlayInv'
    BY <1>1, JoinPingKeeps, JoinFindKeeps, JoinFailsKeeps, JoinStoreKeeps,
       DiscoverAskKeeps, DiscoverSkipKeeps, DiscoverStoreKeeps DEF Step
  <1>2. ASSUME OverlayInv, Next PROVE OverlayInv'
    <2>1. PICK n \in Node :
             \/ \E a \in Addr : Start(n, a)
             \/ Stop(n)
             \/ \E boot \in Bootstraps(n) : BeginJoin(n, boot)
             \/ DiscoverAfterJoin(n)
             \/ \E c \in [node_id : Node \ {n}, addr : Addr] :
                   Genuine(c) /\ DiscoverFreshSeed(n, c)
             \/ Step(n)
      BY <1>2 DEF Next
    <2>2. CASE \E a \in Addr : Start(n, a)
      BY <1>2, <2>2, StartKeeps
    <2>3. CASE Stop(n)
      BY <1>2, <2>3, StopKeeps
    <2>4. CASE \E boot \in Bootstraps(n) : BeginJoin(n, boot)
      BY <1>2, <2>4, BeginJoinKeeps
    <2>5. CASE DiscoverAfterJoin(n)
      BY <1>2, <2>5, DiscoverAfterJoinKeeps
    <2>6. CASE \E c \in [node_id : Node \ {n}, addr : Addr] :
                  Genuine(c) /\ DiscoverFreshSeed(n, c)
      BY <1>2, <2>6, DiscoverFreshSeedKeeps
    <2>7. CASE Step(n)
      BY <1>1, <1>2, <2>7
    <2> QED  BY <2>1, <2>2, <2>3, <2>4, <2>5, <2>6, <2>7
  <1>3. ASSUME OverlayInv, UNCHANGED vars PROVE OverlayInv'
    <2>1. /\ where' = where /\ been' = been /\ store' = store /\ op' = op
          /\ starts' = starts /\ calls' = calls
      BY <1>3 DEF vars
    <2>2. TypeOK'
      BY <1>3, <2>1 DEF OverlayInv, TypeOK
    <2>3. \A n \in Node : NodeInv(n)'
      BY <1>3, <2>1, OthersKeep DEF OverlayInv
    <2> QED  BY <2>2, <2>3 DEF OverlayInv
  <1> QED  BY <1>2, <1>3, InitSound

LEMMA OverlayInvariant == Spec => []OverlayInv
PROOF
  <1> QED  BY OverlayInvInductive, PTL DEF Spec

(* Whatever nodes join, discover, stop and come back, every operation and  *)
(* store keeps its shape: a reply in flight is a list of contacts, and a   *)
(* call is one of the forms that join and discover go through.             *)
THEOREM TypeCorrect == Spec => []TypeOK
PROOF
  <1>1. OverlayInv => TypeOK
    BY DEF OverlayInv
  <1> QED  BY <1>1, OverlayInvariant, PTL

(* However many nodes exchange contacts, and whatever goes away between    *)
(* the steps of a join or a discovery, no node's table and records ever    *)
(* disagree, no bucket overflows and nobody is listed twice.               *)
THEOREM StoresStayConsistent == Spec => []StoresConsistent
PROOF
  <1>1. OverlayInv => StoresConsistent
    BY DEF OverlayInv, NodeInv, StoreSound, StoreOK, StoresConsistent
  <1> QED  BY <1>1, OverlayInvariant, PTL

(* Contacts pass from table to reply to table, sorted, cut and stored in   *)
(* between, through any number of nodes: nobody is ever given an address   *)
(* that it did not listen at.                                              *)
THEOREM ContactsStayGenuine == Spec => []ContactsGenuine
PROOF
  <1>1. OverlayInv => ContactsGenuine
    <2> SUFFICES ASSUME OverlayInv, NEW n \in Node
                 PROVE  /\ \A c \in get_all_contacts(store[n].table) : Genuine(c)
                        /\ op[n].step = "store" =>
                              \A i \in DOMAIN op[n].reply : Genuine(op[n].reply[i])
      BY DEF ContactsGenuine
    <2>1. op[n] \in Ops /\ StoreSound(n) /\ OpGenuine(n)
      BY DEF OverlayInv, TypeOK, NodeInv
    <2>2. op[n].step = "store" => op[n] \in JoinOps \/ op[n] \in DiscoverOps
      BY <2>1 DEF Ops, NoOp, FailedOp, JoinedOps
    <2> QED  BY <2>1, <2>2 DEF StoreSound, OpGenuine, GenuineAll
  <1> QED  BY <1>1, OverlayInvariant, PTL

(* What discover returns is new and complete: everyone on the list is      *)
(* known and was not when the call began, nobody is on it twice, and who   *)
(* is missing from it is a seed that replied.                              *)
THEOREM DiscoveryReportsNew == Spec => []DiscoverReportsNew
PROOF
  <1>1. OverlayInv => DiscoverReportsNew
    <2> SUFFICES ASSUME OverlayInv, NEW n \in Node, Returned(n, "discover")
                 PROVE  LET new == KnownIds(store[n]) \ KnownBefore(n)
                        IN  /\ OutIds(n) \subseteq new
                            /\ \A i, j \in DOMAIN op[n].out :
                                  op[n].out[i].node_id = op[n].out[j].node_id
                                    => i = j
                            /\ new \ OutIds(n) \subseteq op[n].replied
      BY DEF DiscoverReportsNew
    <2>1. op[n] \in DiscoverOps
      BY OpKinds DEF OverlayInv, TypeOK, Returned
    <2>2. OutIds(n) = BucketIds(op[n].out)
      BY DEF OutIds, BucketIds
    <2>3. DiscoverSound(n)
      BY DEF OverlayInv, NodeInv
    <2> QED  BY <2>1, <2>2, <2>3 DEF DiscoverSound, Distinct
  <1> QED  BY <1>1, OverlayInvariant, PTL

(* A discovery leaves the peers that were known before, and the addresses  *)
(* under which they were known, alone, but for seeds that replied.         *)
THEOREM HearsayStaysIgnored == Spec => []HearsayIgnored
PROOF
  <1>1. OverlayInv => HearsayIgnored
    <2> SUFFICES ASSUME OverlayInv, NEW n \in Node, Returned(n, "discover"),
                        NEW c \in op[n].before
                 PROVE  \/ c \in get_all_contacts(store[n].table)
                        \/ c.node_id \in op[n].replied
      BY DEF HearsayIgnored
    <2>1. op[n] \in DiscoverOps
      BY OpKinds DEF OverlayInv, TypeOK, Returned
    <2> QED  BY <2>1 DEF OverlayInv, NodeInv, DiscoverSound
  <1> QED  BY <1>1, OverlayInvariant, PTL

(* Only the node that moves changes its store and its operation. *)
LEMMA OthersStay ==
    ASSUME OverlayInv, NEW n \in Node, NEW m \in Node, m # n,
           \/ \E a \in Addr : Start(n, a)
           \/ Stop(n)
           \/ \E boot \in Bootstraps(n) : BeginJoin(n, boot)
           \/ DiscoverAfterJoin(n)
           \/ \E c \in [node_id : Node \ {n}, addr : Addr] :
                 Genuine(c) /\ DiscoverFreshSeed(n, c)
           \/ Step(n)
    PROVE  op'[m] = op[m]
PROOF
  <1>1. \A o : op' = [op EXCEPT ![n] = o] => op'[m] = op[m]
    BY DEF OverlayInv, TypeOK
  <1>2. \/ op' = op
        \/ \E o : op' = [op EXCEPT ![n] = o]
    <2>1. CASE Stop(n) \/ \E a \in Addr : Start(n, a)
      BY <2>1 DEF Start, Stop
    <2>2. CASE \/ \E boot \in Bootstraps(n) : BeginJoin(n, boot)
               \/ DiscoverAfterJoin(n)
               \/ \E c \in [node_id : Node \ {n}, addr : Addr] :
                     Genuine(c) /\ DiscoverFreshSeed(n, c)
      BY <2>2 DEF BeginJoin, DiscoverAfterJoin, DiscoverFreshSeed,
                  BeginDiscover, Call
    <2>3. CASE Step(n)
      <3>1. \A o : SetOp(n, o) => op' = [op EXCEPT ![n] = o]
        BY DEF SetOp
      <3>2. \E o : SetOp(n, o)
        BY <2>3 DEF Step, JoinPing, JoinFind, JoinFails, JoinStore,
                    DiscoverAsk, DiscoverSkip, DiscoverStore
      <3> QED  BY <3>1, <3>2
    <2> QED  BY <2>1, <2>2, <2>3
  <1> QED  BY <1>1, <1>2

(* When a join that has its reply returns, it has just stored the contacts *)
(* of that reply.                                                          *)
LEMMA JoinReturnsByStoring ==
    ASSUME OverlayInv, Next, NEW n \in Node,
           op[n].kind = "join", op[n].step = "store",
           op'[n].kind = "join", op'[n].step = "done"
    PROVE  JoinStore(n)
PROOF
  <1>1. PICK m \in Node :
           \/ \E a \in Addr : Start(m, a)
           \/ Stop(m)
           \/ \E boot \in Bootstraps(m) : BeginJoin(m, boot)
           \/ DiscoverAfterJoin(m)
           \/ \E c \in [node_id : Node \ {m}, addr : Addr] :
                 Genuine(c) /\ DiscoverFreshSeed(m, c)
           \/ Step(m)
    BY DEF Next
  <1>2. m = n
    BY <1>1, OthersStay
  <1>3. ~\E a \in Addr : Start(n, a)
    BY DEF Start
  <1>4. ~Stop(n)
    <2>1. Stop(n) => op'[n] = NoOp
      BY DEF Stop, OverlayInv, TypeOK
    <2> QED  BY <2>1 DEF NoOp
  <1>5. \A o : ~Call(n, o)
    BY DEF Call, Busy
  <1>6. /\ ~\E boot \in Bootstraps(n) : BeginJoin(n, boot)
        /\ ~DiscoverAfterJoin(n)
        /\ ~\E c \in [node_id : Node \ {n}, addr : Addr] :
               Genuine(c) /\ DiscoverFreshSeed(n, c)
    BY <1>5 DEF BeginJoin, DiscoverAfterJoin, DiscoverFreshSeed, BeginDiscover
  <1>7. Step(n)
    BY <1>1, <1>2, <1>3, <1>4, <1>6
  <1> QED  BY <1>7 DEF Step, JoinPing, JoinFind, JoinFails, DiscoverAsk,
                       DiscoverSkip, DiscoverStore

(* join returns exactly the contacts it stored: everyone on its list is    *)
(* known when it returns, and everyone who is new in the store is on it.   *)
THEOREM JoinsReportStored == Spec => JoinReportsStored
PROOF
  <1> DEFINE Reports(n) ==
               op[n].step = "store" /\ op[n].kind = "join" /\ Returned(n, "join")' =>
               /\ OutIds(n)' \subseteq KnownIds(store'[n])
               /\ KnownIds(store'[n]) \ KnownIds(store[n]) \subseteq OutIds(n)'
  <1>1. OverlayInv /\ [Next]_vars => [\A n \in Node : Reports(n)]_vars
    <2> SUFFICES ASSUME OverlayInv, Next, NEW n \in Node,
                        op[n].step = "store", op[n].kind = "join",
                        op'[n].kind = "join", op'[n].step = "done"
                 PROVE  /\ OutIds(n)' \subseteq KnownIds(store'[n])
                        /\ KnownIds(store'[n]) \ KnownIds(store[n])
                              \subseteq OutIds(n)'
      BY DEF Returned
    <2>1. JoinStore(n)
      BY JoinReturnsByStoring
    <2>2. op[n] \in JoinOps
      BY OpKinds DEF OverlayInv, TypeOK
    <2> DEFINE contacts == JoinContacts(op[n])
               all == AddAll(n, store[n], << >>, contacts, FALSE)
    <2>3. /\ contacts \in Seq(Contact) /\ n \in NodeIds /\ store[n] \in Store
          /\ StoreOK(n, store[n], 0) /\ << >> \in Seq(Contact)
          /\ FALSE \in BOOLEAN
      BY <2>2, JoinContactsGenuine, NodeAssumption
         DEF OverlayInv, TypeOK, NodeInv, StoreSound
    <2>4. store' = [store EXCEPT ![n] = all.store] /\ SetOp(n, Joined(all.out))
      BY <2>1 DEF JoinStore
    <2> HIDE DEF contacts
    <2>5. Added(n, store[n], << >>, contacts, FALSE, all)
      BY <2>3, AddAllAdds
    <2> HIDE DEF all
    <2>6. store'[n] = all.store /\ op'[n] = Joined(all.out)
      BY <2>4, SetOpFrame DEF OverlayInv, TypeOK
    <2>7. op'[n].out = all.out
      BY <2>6 DEF Joined
    <2>8. OutIds(n)' = BucketIds(op'[n].out)
      BY DEF OutIds, BucketIds
    <2>9. BucketIds(<< >>) = {}
      BY DEF BucketIds
    <2>10. /\ BucketIds(all.out) \subseteq KnownIds(all.store)
           /\ KnownIds(all.store) \ KnownIds(store[n]) \subseteq BucketIds(all.out)
      BY <2>5, <2>9 DEF Added
    <2> QED  BY <2>6, <2>7, <2>8, <2>10
  <1> QED  BY <1>1, OverlayInvariant, PTL DEF Spec, JoinReportsStored

(* A call that runs has a step left. *)
LEMMA BusyLeft ==
    ASSUME OverlayInv, NEW n \in Node, Busy(n)
    PROVE  StepsLeft(op[n]) \in Nat \ {0}
PROOF
  <1>1. op[n] \in Ops /\ op[n].step \notin {"done", "failed"}
    BY DEF OverlayInv, TypeOK, Busy
  <1>2. CASE op[n] \in JoinOps
    BY <1>1, <1>2 DEF StepsLeft, JoinOps
  <1>3. CASE op[n] \notin JoinOps
    <2>1. op[n].kind = "discover"
      BY <1>1, <1>3 DEF Ops, NoOp, FailedOp, JoinedOps, DiscoverOps
    <2>2. Len(op[n].seeds) \in Nat \ {0}
      BY <1>1, <2>1, DiscoverRuns
    <2> QED  BY <1>1, <2>1, <2>2 DEF StepsLeft
  <1> QED  BY <1>2, <1>3

(* A step of a call uses one up. *)
LEMMA StepUsesOne ==
    ASSUME OverlayInv, NEW n \in Node, Step(n)
    PROVE  StepsLeft(op'[n]) < StepsLeft(op[n])
PROOF
  <1>0. op[n] \in Ops
    BY DEF OverlayInv, TypeOK
  <1>1. CASE JoinPing(n)
    <2>1. op[n] \in JoinOps /\ op[n].step = "ping"
      BY <1>0, <1>1, OpKinds DEF JoinPing
    <2>2. op'[n] = [op[n] EXCEPT !.step = "find"]
      BY <1>1, SetOpFrame DEF JoinPing
    <2>3. op'[n].kind = "join" /\ op'[n].step = "find"
      BY <2>1, <2>2 DEF JoinOps
    <2> QED  BY <2>1, <2>3 DEF StepsLeft, JoinOps
  <1>2. CASE JoinFind(n)
    <2>1. op[n] \in JoinOps /\ op[n].step = "find"
      BY <1>0, <1>2, OpKinds DEF JoinFind
    <2>2. PICK p : SetOp(n, [op[n] EXCEPT !.step = "store",
                                          !.reply = FoundNodes(p, n)])
      BY <1>2 DEF JoinFind
    <2>3. op'[n] = [op[n] EXCEPT !.step = "store", !.reply = FoundNodes(p, n)]
      BY <2>2, SetOpFrame
    <2>4. op'[n].kind = "join" /\ op'[n].step = "store"
      BY <2>1, <2>3 DEF JoinOps
    <2> QED  BY <2>1, <2>4 DEF StepsLeft, JoinOps
  <1>3. CASE JoinFails(n) \/ JoinStore(n)
    <2>1. op'[n].step \in {"done", "failed"}
      <3>1. CASE JoinFails(n)
        <4>1. op'[n] = FailedOp
          BY <3>1, SetOpFrame DEF JoinFails
        <4> QED  BY <4>1 DEF FailedOp
      <3>2. CASE JoinStore(n)
        <4>1. \E out : op'[n] = Joined(out)
          BY <3>2, SetOpFrame DEF JoinStore
        <4> QED  BY <4>1 DEF Joined
      <3> QED  BY <1>3, <3>1, <3>2
    <2>2. Busy(n)
      BY <1>3 DEF JoinFails, JoinStore, Busy
    <2>3. StepsLeft(op'[n]) = 0
      BY <2>1 DEF StepsLeft
    <2> QED  BY <2>2, <2>3, BusyLeft
  <1>4. CASE DiscoverAsk(n)
    <2>1. op[n].kind = "discover" /\ op[n].step = "ask"
      BY <1>4 DEF DiscoverAsk
    <2>2. op[n] \in DiscoverOps /\ Len(op[n].seeds) \in Nat \ {0}
      BY <2>1, DiscoverRuns
    <2>3. PICK p : SetOp(n, [op[n] EXCEPT !.step = "store",
                                          !.reply = FoundNodes(p, n)])
      BY <1>4 DEF DiscoverAsk
    <2>4. op'[n] = [op[n] EXCEPT !.step = "store", !.reply = FoundNodes(p, n)]
      BY <2>3, SetOpFrame
    <2>5. /\ op'[n].kind = "discover" /\ op'[n].step = "store"
          /\ op'[n].seeds = op[n].seeds
      BY <2>2, <2>4 DEF DiscoverOps
    <2>6. StepsLeft(op'[n]) = 2 * Len(op[n].seeds) - 1
      BY <2>5 DEF StepsLeft
    <2>7. StepsLeft(op[n]) = 2 * Len(op[n].seeds)
      BY <2>1, <2>2 DEF StepsLeft
    <2> QED  BY <2>2, <2>6, <2>7
  <1>5. CASE DiscoverSkip(n) \/ DiscoverStore(n)
    <2>1. op[n].kind = "discover" /\ op[n].step \in {"ask", "store"}
      BY <1>5 DEF DiscoverSkip, DiscoverStore
    <2>2. /\ op[n] \in DiscoverOps /\ Len(op[n].seeds) \in Nat \ {0}
          /\ Tail(op[n].seeds) \in Seq(Contact)
          /\ Len(Tail(op[n].seeds)) = Len(op[n].seeds) - 1
      BY <2>1, DiscoverRuns
    <2> DEFINE o1 == NextSeed(op[n])
    <2>3. /\ o1 \in DiscoverOps /\ o1.seeds = Tail(op[n].seeds)
          /\ o1.step = IF Len(op[n].seeds) = 1 THEN "done" ELSE "ask"
      BY <2>2, NextSeedType
    <2>4. \/ op'[n] = o1
          \/ \E out, ids : op'[n] = [o1 EXCEPT !.out = out, !.replied = ids]
      <3>1. CASE DiscoverSkip(n)
        BY <3>1, SetOpFrame DEF DiscoverSkip
      <3>2. CASE DiscoverStore(n)
        <4>1. \E out, ids : SetOp(n, [o1 EXCEPT !.out = out, !.replied = ids])
          BY <3>2 DEF DiscoverStore
        <4> HIDE DEF o1
        <4>2. \A o : SetOp(n, o) => op'[n] = o
          BY SetOpFrame
        <4>3. PICK out, ids : SetOp(n, [o1 EXCEPT !.out = out, !.replied = ids])
          BY <4>1
        <4>4. op'[n] = [o1 EXCEPT !.out = out, !.replied = ids]
          BY <4>2, <4>3
        <4> QED  BY <4>4
      <3> QED  BY <1>5, <3>1, <3>2
    <2> HIDE DEF o1
    <2>5. /\ op'[n].kind = "discover" /\ op'[n].seeds = o1.seeds
          /\ op'[n].step = o1.step
      BY <2>3, <2>4 DEF DiscoverOps
    <2>6. \/ StepsLeft(op[n]) = 2 * Len(op[n].seeds)
          \/ StepsLeft(op[n]) = 2 * Len(op[n].seeds) - 1
      <3>1. CASE op[n].step = "ask"
        BY <2>1, <2>2, <3>1 DEF StepsLeft
      <3>2. CASE op[n].step = "store"
        BY <2>1, <2>2, <3>2 DEF StepsLeft
      <3> QED  BY <2>1, <3>1, <3>2
    <2>7. CASE Len(op[n].seeds) = 1
      <3>1. StepsLeft(op'[n]) = 0
        BY <2>3, <2>5, <2>7 DEF StepsLeft
      <3> QED  BY <2>6, <2>7, <3>1
    <2>8. CASE Len(op[n].seeds) # 1
      <3>1. op'[n].step = "ask" /\ Len(op'[n].seeds) = Len(op[n].seeds) - 1
        BY <2>2, <2>3, <2>5, <2>8
      <3>2. StepsLeft(op'[n]) = 2 * (Len(op[n].seeds) - 1)
        BY <2>2, <2>5, <3>1 DEF StepsLeft
      <3> QED  BY <2>2, <2>6, <3>2
    <2> QED  BY <2>7, <2>8
  <1> QED  BY <1>1, <1>2, <1>3, <1>4, <1>5 DEF Step

(* Every join and every discovery takes a bounded number of steps,         *)
(* whatever the other nodes do meanwhile: each step of a call uses one up, *)
(* nobody else's step adds one, and a node that stops drops its call.      *)
THEOREM CallsComeToEnd == Spec => CallsShrink
PROOF
  <1>1. OverlayInv /\ [Next]_vars =>
          [\A n \in Node : Busy(n) =>
             \/ StepsLeft(op'[n]) < StepsLeft(op[n])
             \/ op'[n] = op[n]]_vars
    <2> SUFFICES ASSUME OverlayInv, Next, NEW n \in Node, Busy(n),
                        op'[n] # op[n]
                 PROVE  StepsLeft(op'[n]) < StepsLeft(op[n])
      OBVIOUS
    <2>1. PICK m \in Node :
             \/ \E a \in Addr : Start(m, a)
             \/ Stop(m)
             \/ \E boot \in Bootstraps(m) : BeginJoin(m, boot)
             \/ DiscoverAfterJoin(m)
             \/ \E c \in [node_id : Node \ {m}, addr : Addr] :
                   Genuine(c) /\ DiscoverFreshSeed(m, c)
             \/ Step(m)
      BY DEF Next
    <2>2. m = n
      BY <2>1, OthersStay
    <2>3. ~\E a \in Addr : Start(n, a)
      BY DEF Start
    <2>4. \A o : ~Call(n, o)
      BY DEF Call
    <2>5. Stop(n) \/ Step(n)
      BY <2>1, <2>2, <2>3, <2>4
         DEF BeginJoin, DiscoverAfterJoin, DiscoverFreshSeed, BeginDiscover
    <2>6. StepsLeft(op'[n]) < StepsLeft(op[n])
      <3>1. CASE Stop(n)
        <4>1. op'[n] = NoOp
          BY <3>1 DEF Stop, OverlayInv, TypeOK
        <4>2. StepsLeft(op'[n]) = 0
          BY <4>1 DEF StepsLeft, NoOp
        <4> QED  BY <4>2, BusyLeft
      <3> QED  BY <2>5, <3>1, StepUsesOne
    <2> QED  BY <2>6
  <1> QED  BY <1>1, OverlayInvariant, PTL DEF Spec, CallsShrink

=============================================================================
