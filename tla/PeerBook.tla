------------------------------ MODULE PeerBook ------------------------------
(***************************************************************************)
(* What PeerStore (meshweaver/kademlia/peer_store.py) promises its         *)
(* callers: a dictionary of peers and their addresses with a fixed number  *)
(* of places for each group of identifiers.  Whoever has a place keeps it  *)
(* until remove or clear; a newcomer is refused exactly when its group has *)
(* no place left.  Buckets, their order and the times are not seen here.   *)
(***************************************************************************)
EXTENDS Integers, FiniteSets

CONSTANTS Id,         \* the identifiers of nodes
          Self,       \* the owner of the book, who is never in it
          Addr,       \* the addresses a peer may have
          Group,      \* Group[id]: the identifiers that share places with id
          Places      \* how many places a group has

VARIABLES book,       \* a function from the known peers to their addresses
          last        \* the last call and what it returned

Members(g) == {id \in DOMAIN book : Group[id] = g}

\* A known peer is always taken, a newcomer if its group has a place left.
HasPlace(id) ==
    id \in DOMAIN book \/ Cardinality(Members(Group[id])) < Places

Empty == [id \in {} |-> Self]

Init == book = Empty /\ last = [call |-> "none"]

Add(id, a) ==
    /\ book' = IF HasPlace(id)
               THEN [x \in DOMAIN book \cup {id} |->
                       IF x = id THEN a ELSE book[x]]
               ELSE book
    /\ last' = [call |-> "add", id |-> id, ok |-> HasPlace(id)]

Remove(id) ==
    /\ book' = [x \in DOMAIN book \ {id} |-> book[x]]
    /\ last' = [call |-> "remove", id |-> id, ok |-> id \in DOMAIN book]

Clear == book' = Empty /\ last' = [call |-> "clear"]

Next ==
    \/ \E id \in Id \ {Self}, a \in Addr : Add(id, a)
    \/ \E id \in Id : Remove(id)
    \/ Clear

Spec == Init /\ [][Next]_<<book, last>>

=============================================================================
