----------------------------- MODULE GossipLoad -----------------------------
(***************************************************************************)
(* The gossiped load table of one node (meshweaver/gossip.py), the         *)
(* readings it is made of (ResourceMonitor in meshweaver/monitoring.py)    *)
(* and the choice of a peer from it (kademlia/load_selector.py).           *)
(*                                                                         *)
(* Every node collects readings of its own load and broadcasts the latest  *)
(* one; nobody passes on the readings of others.  It is therefore enough   *)
(* to follow the table of one node, Local, and of the others what they     *)
(* send.  Messages may be lost, duplicated and reordered.  All nodes are   *)
(* assumed to have the same time.time().  RAM figures, which do not take   *)
(* part in the choice, and malformed messages, which are ignored, are left *)
(* out.                                                                    *)
(***************************************************************************)
EXTENDS Integers, FiniteSets

CONSTANTS Node,
          Local,          \* the node whose table this is
          Cpu,            \* Cpu[n][t]: the load psutil reports on n at time t
          TTL,            \* GossipManager's ttl
          STALE_AFTER,    \* LoadSelector's stale_after
          NoReading,      \* no reading yet, or no entry
          MaxClock,       \* bound: the clock stops here
          MaxNet          \* bound: how many messages are in flight

Time == 0 .. MaxClock

ASSUME LocalAssumption == Local \in Node
ASSUME TimesAssumption ==
    /\ MaxClock \in Nat /\ MaxNet \in Nat
    /\ TTL \in Nat /\ STALE_AFTER \in Nat \ {0}
ASSUME CpuAssumption == Cpu \in [Node -> [Time -> Nat]]

\* ResourceStatus, as a dictionary.
Reading == [node_id : Node, cpu_percent : Nat, timestamp : Time]

ASSUME NoReadingAssumption == NoReading \notin Reading

VARIABLES clock,     \* time.time()
          monitor,   \* monitor[n]: the task of BackgroundMonitorLoop
          latest,    \* latest[n]: the reading it took last
          table,     \* peer_table of Local
          net        \* the updates in flight to Local

vars == <<clock, monitor, latest, table, net>>

TypeOK ==
    /\ clock \in Time
    /\ monitor \in [Node -> {"off", "created", "running", "stopped"}]
    /\ latest \in [Node -> Reading \cup {NoReading}]
    /\ table \in [Node -> Reading \cup {NoReading}]
    /\ net \in SUBSET Reading

Init ==
    /\ clock = 0
    /\ monitor = [n \in Node |-> "off"]
    /\ latest = [n \in Node |-> NoReading]
    /\ table = [n \in Node |-> NoReading]
    /\ net = {}

Tick ==
    /\ clock < MaxClock
    /\ clock' = clock + 1
    /\ UNCHANGED <<monitor, latest, table, net>>

-----------------------------------------------------------------------------
(* BackgroundMonitorLoop *)

\* ResourceMonitor.collect.  Without psutil every reading is 0.
collect(n) ==
    [node_id |-> n, cpu_percent |-> Cpu[n][clock], timestamp |-> clock]

\* One round of the loop; Local also enters the reading in its own table
\* (_on_local_update).
MonitorRound(n) ==
    /\ monitor[n] \in {"created", "running"}
    /\ monitor' = [monitor EXCEPT ![n] = "running"]
    /\ latest' = [latest EXCEPT ![n] = collect(n)]
    /\ table' = IF n = Local THEN [table EXCEPT ![n] = collect(n)] ELSE table
    /\ UNCHANGED <<clock, net>>

\* BackgroundMonitorLoop.stop: the latest reading stays.  Before the task has
\* begun to run, stop has no effect, since start sets `running' again.
stop(n) ==
    /\ monitor[n] = "running"
    /\ monitor' = [monitor EXCEPT ![n] = "stopped"]
    /\ UNCHANGED <<clock, latest, table, net>>

-----------------------------------------------------------------------------
(* GossipManager *)

\* Mutant of cleanup_stale_peers: the subtraction the wrong way round.
cleanup_swapped(tbl) ==
    [p \in Node |->
        IF tbl[p] # NoReading /\ tbl[p].timestamp - clock > TTL
        THEN NoReading ELSE tbl[p]]

cleanup_stale_peers(tbl) ==
    [p \in Node |->
        IF tbl[p] # NoReading /\ clock - tbl[p].timestamp > TTL
        THEN NoReading ELSE tbl[p]]

\* Mutant of build_status_msg: stamped when it is sent.
build_restamped(status) == [status EXCEPT !.timestamp = clock]

\* GossipMessageBuilder.build_status_msg: the reading as it was taken.
build_status_msg(status) == status

\* One round of broadcast_loop.  Whether the transport is set, raises or
\* delivers, the loop goes on.
BroadcastRound(n) ==
    /\ table' = IF n = Local THEN cleanup_stale_peers(table) ELSE table
    /\ \/ /\ latest[n] # NoReading
          /\ Cardinality(net) < MaxNet
          /\ net' = net \cup {build_status_msg(latest[n])}
       \/ UNCHANGED net
    /\ UNCHANGED <<clock, latest>>

\* broadcast_loop creates the monitor's task and goes through its first round.
broadcast_loop(n) ==
    /\ monitor[n] = "off"
    /\ monitor' = [monitor EXCEPT ![n] = "created"]
    /\ BroadcastRound(n)

Broadcast(n) ==
    /\ monitor[n] # "off"
    /\ BroadcastRound(n)
    /\ UNCHANGED monitor

\* An update arrives, and may arrive again.  One of Local itself, which a
\* broadcast may bring back, is ignored.
handle_incoming_gossip(m) ==
    /\ m \in net
    /\ \E kept \in {{}, {m}} : net' = (net \ {m}) \cup kept
    /\ table' = IF m.node_id = Local
                THEN table
                ELSE [table EXCEPT ![m.node_id] = m]
    /\ UNCHANGED <<clock, monitor, latest>>

Lose(m) ==
    /\ m \in net
    /\ net' = net \ {m}
    /\ UNCHANGED <<clock, monitor, latest, table>>

-----------------------------------------------------------------------------
(* LoadSelector *)

\* Mutant of candidates: the node itself is not excluded.
candidates_all(tbl, now) ==
    {e \in {tbl[p] : p \in Node} \ {NoReading} :
        now - e.timestamp < STALE_AFTER}

\* The entries that select considers: fresh ones of other nodes.
candidates(tbl, now) ==
    {e \in {tbl[p] : p \in Node} \ {NoReading} :
        e.node_id # Local /\ now - e.timestamp < STALE_AFTER}

\* The possible winners: the order of the dictionary decides between equals.
select(tbl, now) ==
    {e \in candidates(tbl, now) :
        \A f \in candidates(tbl, now) : e.cpu_percent <= f.cpu_percent}

-----------------------------------------------------------------------------

Next ==
    \/ Tick
    \/ \E n \in Node :
          MonitorRound(n) \/ stop(n) \/ broadcast_loop(n) \/ Broadcast(n)
    \/ \E m \in net : handle_incoming_gossip(m) \/ Lose(m)

Spec == Init /\ [][Next]_vars

\* The broadcast loop of Local comes round again and again.
FairSpec == Spec /\ WF_vars(Broadcast(Local))

-----------------------------------------------------------------------------
(* Properties *)

\* Whomever LoadSelector.select picks from the gossiped table is another
\* node, had the load the entry says at the time it says, less than
\* stale_after ago, and every other peer whose reading was then fresh
\* enough had at least that load when it was read.
SelectionSound ==
    \A w \in select(table, clock) :
        /\ w.node_id # Local
        /\ w.timestamp <= clock /\ clock - w.timestamp < STALE_AFTER
        /\ w.cpu_percent = Cpu[w.node_id][w.timestamp]
        /\ \A p \in Node \ {Local} :
              table[p] # NoReading /\ clock - table[p].timestamp < STALE_AFTER
                => Cpu[p][table[p].timestamp] >= w.cpu_percent

\* A node that has not taken a reading for stale_after is not selected, even
\* while its broadcast loop goes on sending the last one and the network
\* delivers old copies of it.
SilentNotSelected ==
    \A p \in Node :
        latest[p] = NoReading \/ clock - latest[p].timestamp >= STALE_AFTER
          => \A w \in select(table, clock) : w.node_id # p

Expired(p) == table[p] # NoReading /\ clock - table[p].timestamp > TTL

\* "Stale Node Cleanup: TTL-based expiration" (readme.md 123): an entry older
\* than ttl does not stay, whichever messages bring it back.
StaleGoes ==
    \A p \in Node : (monitor[Local] # "off" /\ Expired(p)) ~> ~Expired(p)

\* "Maintenance of local peer_load_table mapping active peers to their latest
\* resource metrics" (readme.md 122): no entry is replaced by an older reading.
LatestMetrics ==
    [][\A p \in Node : table[p] # NoReading /\ table'[p] # NoReading
          => table'[p].timestamp >= table[p].timestamp]_vars

\* The only way to an older entry: an update of another node that arrives
\* after that node has taken a newer reading.  The node's own entry, which
\* no message changes, never goes back.
OnlyOvertakenSetBack ==
    [][\A p \in Node :
          table[p] # NoReading /\ table'[p] # NoReading
             /\ table'[p].timestamp < table[p].timestamp
          => /\ p # Local
             /\ table'[p] \in net
             /\ table'[p].timestamp < latest[p].timestamp]_vars

\* What the proofs add: every reading, wherever it is, is a true one and not
\* newer than the latest of its node.
IsReadingOf(r, p) ==
    /\ r.node_id = p
    /\ r.cpu_percent = Cpu[p][r.timestamp]
    /\ latest[p] # NoReading
    /\ r.timestamp <= latest[p].timestamp

ReadingsTrue ==
    /\ \A p \in Node : latest[p] # NoReading =>
          IsReadingOf(latest[p], p) /\ latest[p].timestamp <= clock
    /\ \A p \in Node : table[p] # NoReading => IsReadingOf(table[p], p)
    /\ \A m \in net : IsReadingOf(m, m.node_id)

=============================================================================
