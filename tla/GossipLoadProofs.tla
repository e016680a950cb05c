-------------------------- MODULE GossipLoadProofs --------------------------
(***************************************************************************)
(* Proofs about GossipLoad, for every set of nodes, every course of their  *)
(* loads and every ttl and stale_after.  The invariant that carries them   *)
(* is ReadingsTrue: a table entry or message is a reading its node really  *)
(* took, and not newer than the last one it took.                          *)
(***************************************************************************)
EXTENDS GossipLoad, TLAPS

Inv == TypeOK /\ ReadingsTrue

(* A reading taken now is one. *)
LEMMA CollectType ==
    ASSUME TypeOK, NEW n \in Node
    PROVE  /\ collect(n) \in Reading
           /\ collect(n).node_id = n
           /\ collect(n).timestamp = clock
           /\ collect(n).cpu_percent = Cpu[n][clock]
PROOF BY CpuAssumption DEF TypeOK, collect, Reading

(* Initially there are no readings. *)
LEMMA InitInv == Init => Inv
PROOF
  BY TimesAssumption DEF Init, Inv, TypeOK, ReadingsTrue, Time

(* A round of the monitor: the new reading is newer than all the others. *)
LEMMA MonitorStep ==
    ASSUME Inv, NEW n \in Node, MonitorRound(n)
    PROVE  Inv'
PROOF
  <1>1. TypeOK'
    BY CollectType DEF Inv, TypeOK, MonitorRound
  <1>2. /\ latest'[n] = collect(n)
        /\ \A p \in Node \ {n} : latest'[p] = latest[p]
        /\ collect(n) # NoReading
    BY CollectType, NoReadingAssumption DEF Inv, TypeOK, MonitorRound
  <1>3. ASSUME NEW p \in Node, NEW r \in Reading, IsReadingOf(r, p)
        PROVE  IsReadingOf(r, p)'
    <2>1. latest[p] \in Reading /\ latest[p].timestamp <= clock
      BY <1>3 DEF Inv, TypeOK, ReadingsTrue, IsReadingOf
    <2>2. /\ r.timestamp \in Int /\ latest[p].timestamp \in Int
          /\ clock \in Int
      BY <2>1, TimesAssumption DEF Reading, Time, Inv, TypeOK
    <2>3. CASE p = n
      BY <1>2, <1>3, <2>1, <2>2, <2>3, CollectType DEF IsReadingOf, Inv
    <2>4. CASE p # n
      BY <1>2, <1>3, <2>4 DEF IsReadingOf
    <2> QED  BY <2>3, <2>4
  <1>4. IsReadingOf(collect(n), n)'
    BY <1>2, CollectType, TimesAssumption
       DEF IsReadingOf, Inv, TypeOK, Time, MonitorRound, collect
  <1>5. \A p \in Node : latest'[p] # NoReading =>
            IsReadingOf(latest[p], p)' /\ latest'[p].timestamp <= clock'
    <2> SUFFICES ASSUME NEW p \in Node, latest'[p] # NoReading
                 PROVE  IsReadingOf(latest[p], p)' /\ latest'[p].timestamp <= clock'
      OBVIOUS
    <2>1. CASE p = n
      <3>1. latest'[p].timestamp = clock /\ clock' = clock /\ clock \in Int
        BY <1>2, <2>1, CollectType, TimesAssumption
           DEF Inv, TypeOK, Time, MonitorRound
      <3>2. IsReadingOf(latest[p], p)'
        BY <1>2, <2>1, CollectType, <3>1 DEF IsReadingOf, Inv
      <3> QED  BY <3>1, <3>2
    <2>2. CASE p # n
      <3>1. latest'[p] = latest[p] /\ latest[p] \in Reading
        BY <1>2, <2>2 DEF Inv, TypeOK
      <3>2. IsReadingOf(latest[p], p) /\ latest[p].timestamp <= clock
        BY <3>1 DEF Inv, ReadingsTrue
      <3> QED  BY <3>1, <3>2, <2>2 DEF IsReadingOf, MonitorRound
    <2> QED  BY <2>1, <2>2
  <1>6. \A p \in Node : table'[p] # NoReading => IsReadingOf(table[p], p)'
    <2> SUFFICES ASSUME NEW p \in Node, table'[p] # NoReading
                 PROVE  IsReadingOf(table[p], p)'
      OBVIOUS
    <2>1. CASE p = n /\ n = Local
      <3>1. table'[p] = collect(n)
        BY <2>1 DEF Inv, TypeOK, MonitorRound
      <3>2. IsReadingOf(table[p], p)' <=>
              /\ table'[p].node_id = p
              /\ table'[p].cpu_percent = Cpu[p][table'[p].timestamp]
              /\ latest'[p] # NoReading
              /\ table'[p].timestamp <= latest'[p].timestamp
        BY DEF IsReadingOf
      <3>3. clock \in Int
        BY TimesAssumption DEF Inv, TypeOK, Time
      <3> QED  BY <1>2, <2>1, <3>1, <3>2, <3>3, CollectType DEF Inv
    <2>2. CASE ~(p = n /\ n = Local)
      <3>1. table'[p] = table[p] /\ table[p] \in Reading
        BY <2>2 DEF Inv, TypeOK, MonitorRound
      <3>2. IsReadingOf(table[p], p)
        BY <3>1 DEF Inv, ReadingsTrue
      <3>3. \A r \in Reading : IsReadingOf(r, p) =>
               /\ latest'[p] # NoReading
               /\ r.timestamp <= latest'[p].timestamp
        BY <1>3 DEF IsReadingOf
      <3> QED  BY <3>1, <3>2, <3>3 DEF IsReadingOf
    <2> QED  BY <2>1, <2>2
  <1>7. \A m \in net' : IsReadingOf(m, m.node_id)'
    BY <1>3 DEF Inv, TypeOK, ReadingsTrue, MonitorRound, Reading
  <1> QED  BY <1>1, <1>5, <1>6, <1>7 DEF Inv, ReadingsTrue

(* Every other step moves readings about or drops them. *)
LEMMA OtherStep ==
    ASSUME Inv, UNCHANGED latest, TypeOK', clock <= clock',
           \A p \in Node : table'[p] \in {NoReading, table[p]} \cup net
                             /\ (table'[p] # NoReading => table'[p].node_id = p),
           net' \subseteq net \cup {latest[n] : n \in Node},
           NoReading \notin net'
    PROVE  Inv'
PROOF
  <1>1. \A r, p : IsReadingOf(r, p)' <=> IsReadingOf(r, p)
    BY DEF IsReadingOf
  <1>2. \A p \in Node : latest'[p] # NoReading =>
            IsReadingOf(latest'[p], p) /\ latest'[p].timestamp <= clock'
    <2> SUFFICES ASSUME NEW p \in Node, latest[p] # NoReading
                 PROVE  IsReadingOf(latest[p], p) /\ latest[p].timestamp <= clock'
      OBVIOUS
    <2>1. latest[p].timestamp \in Int /\ clock \in Int /\ clock' \in Int
      BY TimesAssumption DEF Inv, TypeOK, Reading, Time
    <2>2. IsReadingOf(latest[p], p) /\ latest[p].timestamp <= clock
      BY DEF Inv, ReadingsTrue
    <2> QED  BY <2>1, <2>2
  <1>3. \A p \in Node : table'[p] # NoReading => IsReadingOf(table'[p], p)
    BY DEF Inv, ReadingsTrue
  <1>4. \A m \in net' : IsReadingOf(m, m.node_id)
    BY DEF Inv, ReadingsTrue, IsReadingOf
  <1> QED  BY <1>2, <1>3, <1>4 DEF Inv, ReadingsTrue, IsReadingOf

(* Inv is inductive. *)
LEMMA NextInv == Inv /\ [Next]_vars => Inv'
PROOF
  <1> SUFFICES ASSUME Inv, [Next]_vars PROVE Inv'
    OBVIOUS
  <1>0. /\ clock \in Int /\ clock <= clock
        /\ NoReading \notin net
        /\ \A p \in Node : table[p] # NoReading => table[p].node_id = p
    BY TimesAssumption, NoReadingAssumption
       DEF Inv, TypeOK, Time, ReadingsTrue, IsReadingOf
  <1>1. CASE Tick
    <2>1. TypeOK' /\ clock <= clock'
      BY <1>1, TimesAssumption DEF Tick, Inv, TypeOK, Time
    <2> QED  BY <1>0, <1>1, <2>1, OtherStep DEF Tick
  <1>2. ASSUME NEW n \in Node, MonitorRound(n) PROVE Inv'
    BY <1>2, MonitorStep
  <1>3. ASSUME NEW n \in Node, stop(n) PROVE Inv'
    <2>1. TypeOK'
      BY <1>3 DEF stop, Inv, TypeOK
    <2> QED  BY <1>0, <1>3, <2>1, OtherStep DEF stop
  <1>4. ASSUME NEW n \in Node, BroadcastRound(n),
               monitor' \in [Node -> {"off", "created", "running", "stopped"}]
        PROVE  Inv'
    <2>1. /\ table' \in [Node -> Reading \cup {NoReading}]
          /\ \A p \in Node : table'[p] \in {NoReading, table[p]}
      BY <1>4 DEF BroadcastRound, cleanup_stale_peers, Inv, TypeOK
    <2>2. net' \subseteq net \cup {latest[n]} /\ NoReading \notin net'
      BY <1>0, <1>4 DEF BroadcastRound, build_status_msg
    <2>3. TypeOK'
      BY <1>4, <2>1, <2>2 DEF BroadcastRound, Inv, TypeOK
    <2> QED  BY <1>0, <1>4, <2>1, <2>2, <2>3, OtherStep DEF BroadcastRound
  <1>5. ASSUME NEW n \in Node, broadcast_loop(n) \/ Broadcast(n) PROVE Inv'
    <2>1. monitor' \in [Node -> {"off", "created", "running", "stopped"}]
      BY <1>5 DEF broadcast_loop, Broadcast, Inv, TypeOK
    <2> QED  BY <1>4, <1>5, <2>1 DEF broadcast_loop, Broadcast
  <1>6. ASSUME NEW m \in net, handle_incoming_gossip(m) PROVE Inv'
    <2>1. m \in Reading /\ m.node_id \in Node
      BY DEF Inv, TypeOK, Reading
    <2>2. TypeOK'
      BY <1>6, <2>1 DEF handle_incoming_gossip, Inv, TypeOK
    <2>3. \A p \in Node : table'[p] = table[p] \/ (p = m.node_id /\ table'[p] = m)
      BY <1>6, <2>1 DEF handle_incoming_gossip, Inv, TypeOK
    <2> QED  BY <1>0, <1>6, <2>2, <2>3, OtherStep DEF handle_incoming_gossip
  <1>7. ASSUME NEW m \in net, Lose(m) PROVE Inv'
    <2>1. TypeOK'
      BY <1>7 DEF Lose, Inv, TypeOK
    <2> QED  BY <1>0, <1>7, <2>1, OtherStep DEF Lose
  <1>8. CASE UNCHANGED vars
    BY <1>8 DEF vars, Inv, TypeOK, ReadingsTrue, IsReadingOf
  <1> QED  BY <1>1, <1>2, <1>3, <1>5, <1>6, <1>7, <1>8 DEF Next

(* Inv holds throughout. *)
LEMMA AlwaysInv == Spec => []Inv
PROOF BY InitInv, NextInv, PTL DEF Spec

-----------------------------------------------------------------------------
(* Theorems *)

(* Table, messages and latest readings keep their types. *)
THEOREM TypeCorrect == Spec => []TypeOK
PROOF
  <1>1. Inv => TypeOK
    BY DEF Inv
  <1> QED  BY <1>1, AlwaysInv, PTL

(* select picks another node, by a true and fresh reading that is the      *)
(* lowest of the fresh ones, whatever was lost, duplicated or reordered.   *)
THEOREM SelectionIsSound == Spec => []SelectionSound
PROOF
  <1>1. Inv => SelectionSound
    <2> SUFFICES ASSUME Inv, NEW w \in select(table, clock)
                 PROVE  /\ w.node_id # Local
                        /\ w.timestamp <= clock /\ clock - w.timestamp < STALE_AFTER
                        /\ w.cpu_percent = Cpu[w.node_id][w.timestamp]
                        /\ \A p \in Node \ {Local} :
                              table[p] # NoReading
                                /\ clock - table[p].timestamp < STALE_AFTER
                              => Cpu[p][table[p].timestamp] >= w.cpu_percent
      BY DEF SelectionSound
    <2>1. PICK q \in Node : w = table[q] /\ table[q] # NoReading
      BY DEF select, candidates
    <2>2. /\ w.node_id # Local /\ clock - w.timestamp < STALE_AFTER
          /\ \A f \in candidates(table, clock) : w.cpu_percent <= f.cpu_percent
      BY DEF select, candidates
    <2>3. IsReadingOf(w, q) /\ latest[q].timestamp <= clock /\ latest[q] \in Reading
      BY <2>1 DEF Inv, TypeOK, ReadingsTrue, IsReadingOf
    <2>4. w.timestamp <= clock
      <3>1. w \in Reading
        BY <2>1 DEF Inv, TypeOK
      <3>2. /\ w.timestamp \in Int /\ latest[q].timestamp \in Int
            /\ clock \in Int /\ w.timestamp <= latest[q].timestamp
        BY <2>3, <3>1, TimesAssumption DEF Inv, TypeOK, Reading, Time, IsReadingOf
      <3> QED  BY <2>3, <3>2
    <2>5. ASSUME NEW p \in Node \ {Local}, table[p] # NoReading,
                 clock - table[p].timestamp < STALE_AFTER
          PROVE  Cpu[p][table[p].timestamp] >= w.cpu_percent
      <3>1. IsReadingOf(table[p], p) /\ table[p] \in Reading /\ w \in Reading
        BY <2>1, <2>5 DEF Inv, TypeOK, ReadingsTrue
      <3>2. table[p] \in candidates(table, clock)
        BY <2>5, <3>1 DEF candidates, IsReadingOf
      <3>3. w.cpu_percent <= table[p].cpu_percent
        BY <2>2, <3>2
      <3>4. w.cpu_percent \in Nat /\ table[p].cpu_percent \in Nat
        BY <3>1 DEF Reading
      <3>5. table[p].cpu_percent = Cpu[p][table[p].timestamp]
        BY <3>1 DEF IsReadingOf
      <3> QED  BY <3>3, <3>4, <3>5
    <2>6. w.cpu_percent = Cpu[w.node_id][w.timestamp]
      BY <2>3 DEF IsReadingOf
    <2> QED  BY <2>2, <2>4, <2>5, <2>6
  <1> QED  BY <1>1, AlwaysInv, PTL

(* A node that stopped taking readings is not selected once stale_after    *)
(* has passed, although its broadcast loop repeats the last one.           *)
THEOREM SilentPeersNotSelected == Spec => []SilentNotSelected
PROOF
  <1>1. Inv => SilentNotSelected
    <2> SUFFICES ASSUME Inv, NEW p \in Node,
                        latest[p] = NoReading
                          \/ clock - latest[p].timestamp >= STALE_AFTER,
                        NEW w \in select(table, clock), w.node_id = p
                 PROVE  FALSE
      BY DEF SilentNotSelected
    <2>1. PICK q \in Node : w = table[q] /\ table[q] # NoReading
      BY DEF select, candidates
    <2>2. clock - w.timestamp < STALE_AFTER
      BY DEF select, candidates
    <2>3. IsReadingOf(w, p) /\ w \in Reading
      BY <2>1 DEF Inv, TypeOK, ReadingsTrue, IsReadingOf
    <2>4. latest[p] \in Reading /\ w.timestamp <= latest[p].timestamp
      BY <2>3 DEF IsReadingOf, Inv, TypeOK
    <2>5. /\ w.timestamp \in Int /\ latest[p].timestamp \in Int
          /\ clock \in Int /\ STALE_AFTER \in Int
      BY <2>3, <2>4, TimesAssumption DEF Inv, TypeOK, Reading, Time
    <2> QED  BY <2>2, <2>4, <2>5, NoReadingAssumption
  <1> QED  BY <1>1, AlwaysInv, PTL

(* An entry goes back in time only by an update of another node that was   *)
(* overtaken on the way, for every set of nodes and course of loads.       *)
THEOREM OvertakenUpdatesOnly == Spec => OnlyOvertakenSetBack
PROOF
  <1> DEFINE Only ==
               \A p \in Node :
                  table[p] # NoReading /\ table'[p] # NoReading
                     /\ table'[p].timestamp < table[p].timestamp
                  => /\ p # Local
                     /\ table'[p] \in net
                     /\ table'[p].timestamp < latest[p].timestamp
  <1>1. Inv /\ [Next]_vars => [Only]_vars
    <2> DEFINE Overtaken(p) == /\ p # Local
                               /\ table'[p] \in net
                               /\ table'[p].timestamp < latest[p].timestamp
    <2> SUFFICES ASSUME Inv, Next, NEW p \in Node,
                        table[p] # NoReading, table'[p] # NoReading,
                        table'[p].timestamp < table[p].timestamp
                 PROVE  Overtaken(p)
      OBVIOUS
    <2>1. /\ table[p] \in Reading /\ IsReadingOf(table[p], p)
          /\ latest[p] \in Reading /\ latest[p].timestamp <= clock
      BY DEF Inv, TypeOK, ReadingsTrue, IsReadingOf
    <2>2. /\ table[p].timestamp \in Int /\ latest[p].timestamp \in Int
          /\ clock \in Int
          /\ table[p].timestamp <= latest[p].timestamp
      BY <2>1, TimesAssumption DEF Inv, TypeOK, Reading, Time, IsReadingOf
    <2>3. table'[p] # table[p]
      BY <2>2
    <2>4. ASSUME NEW n \in Node, MonitorRound(n)
          PROVE  FALSE
      <3>1. table'[p] = collect(n)
        BY <2>3, <2>4 DEF MonitorRound, Inv, TypeOK
      <3>2. table'[p].timestamp = clock
        BY <3>1, CollectType DEF Inv
      <3> QED  BY <2>1, <2>2, <3>2
    <2>5. ASSUME NEW n \in Node, BroadcastRound(n)
          PROVE  FALSE
      <3>1. table'[p] = table[p] \/ table'[p] = NoReading
        BY <2>5 DEF BroadcastRound, cleanup_stale_peers
      <3> QED  BY <2>3, <3>1
    <2>6. ASSUME NEW m \in net, handle_incoming_gossip(m)
          PROVE  Overtaken(p)
      <3>1. /\ m.node_id # Local /\ p = m.node_id
            /\ table'[p] = m
        BY <2>3, <2>6 DEF handle_incoming_gossip, Inv, TypeOK
      <3>2. m \in Reading /\ m.timestamp \in Int
        BY TimesAssumption DEF Inv, TypeOK, Reading, Time
      <3>3. m.timestamp < latest[p].timestamp
        BY <2>2, <3>1, <3>2
      <3> QED  BY <3>1, <3>3
    <2>7. CASE \/ Tick
               \/ \E n \in Node : stop(n)
               \/ \E m \in net : Lose(m)
      BY <2>3, <2>7 DEF Tick, stop, Lose
    <2> HIDE DEF Overtaken
    <2> QED  BY <2>4, <2>5, <2>6, <2>7 DEF Next, broadcast_loop, Broadcast
  <1> QED  BY <1>1, AlwaysInv, PTL DEF Spec, OnlyOvertakenSetBack

=============================================================================
