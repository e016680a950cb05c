------------------------------ MODULE Overlay -------------------------------
(***************************************************************************)
(* Several nodes building their routing tables from each other:            *)
(* BootstrapClient.join (meshweaver/kademlia/bootstrap.py),                *)
(* PeerDiscovery.discover (kademlia/discovery.py) and the PING and         *)
(* FIND_NODE exchanges they are made of (kademlia/rpc.py, module FindNode),*)
(* over the PeerStores of module PeerStore.                                *)
(*                                                                         *)
(* join and discover are synchronous: the code between two exchanges runs  *)
(* in one piece, but while a node waits for a reply every other node may   *)
(* move.  An exchange is therefore split where the caller waits: the peer  *)
(* that listens at the address computes its reply in one step, the caller  *)
(* uses it in a later one.  The peer may be gone or have learned more by   *)
(* then.  A node that stops loses its store and the operation it was in,   *)
(* and may come back at another address, also one that another node had.   *)
(* Times are left out (PeerStoreNode has them): `now' is 0 throughout.     *)
(***************************************************************************)
EXTENDS FindNode

CONSTANTS Node,        \* the identifiers of the nodes
          AnswerK,     \* AnswerK[n]: the k of the FindNodeHandler of n
          Down,        \* the address of a node that is not running
          NoId,        \* join was not told the bootstrap peer's identifier
          MaxStarts,   \* bound: how often nodes start, in total
          MaxCalls     \* bound: how often join and discover are called

ASSUME NodeAssumption == Node \subseteq NodeIds
ASSUME AnswerKAssumption == AnswerK \in [Node -> Nat \ {0}]
ASSUME SentinelAssumption == Down \notin Addr /\ NoId \notin Node
ASSUME BoundAssumption == MaxStarts \in Nat /\ MaxCalls \in Nat

VARIABLES where,    \* where[n]: the address node n listens at
          been,     \* been[n]: the addresses n has ever listened at
          store,    \* store[n]: the PeerStore of n
          op,       \* op[n]: the join or discover that n runs or ran last
          starts,   \* how often nodes have started
          calls     \* how often join and discover have been called

vars == <<where, been, store, op, starts, calls>>

\* A contact as a user configures it or a node learns it.
Genuine(c) == c.node_id \in Node /\ c.addr \in been[c.node_id]

NoOp == [kind |-> "none", step |-> "done"]

\* BootstrapError was raised.
FailedOp == [kind |-> "none", step |-> "failed"]

\* boot: the arguments of join; reply: the contacts of the FOUND_NODES being
\* used.
Join(boot) ==
    [kind |-> "join", step |-> "ping", boot |-> boot, reply |-> << >>]

Joined(out) == [kind |-> "join", step |-> "done", out |-> out]

\* seeds: the contacts still to be asked; out: the list to return; before: the
\* contacts in the table at the start; replied: the seeds that were stored as
\* such (these two are history).
Discover(seeds, known) ==
    [kind |-> "discover", step |-> IF seeds = << >> THEN "done" ELSE "ask",
     seeds |-> seeds, reply |-> << >>, out |-> << >>, before |-> known,
     replied |-> {}]

Busy(n) == op[n].step \notin {"done", "failed"}

Up(n) == where[n] # Down

Init ==
    /\ where = [n \in Node |-> Down]
    /\ been = [n \in Node |-> {}]
    /\ store = [n \in Node |-> EmptyStore]
    /\ op = [n \in Node |-> NoOp]
    /\ starts = 0
    /\ calls = 0

-----------------------------------------------------------------------------
(* Nodes come and go *)

Start(n, a) ==
    /\ ~Up(n) /\ starts < MaxStarts
    /\ \A p \in Node : where[p] # a
    /\ where' = [where EXCEPT ![n] = a]
    /\ been' = [been EXCEPT ![n] = @ \cup {a}]
    /\ starts' = starts + 1
    /\ UNCHANGED <<store, op, calls>>

Stop(n) ==
    /\ Up(n)
    /\ where' = [where EXCEPT ![n] = Down]
    /\ store' = [store EXCEPT ![n] = EmptyStore]
    /\ op' = [op EXCEPT ![n] = NoOp]
    /\ UNCHANGED <<been, starts, calls>>

-----------------------------------------------------------------------------
(* Exchanges *)

\* Mutant of FoundNodes: the contacts carry the address of the responder.
FoundNodesHere(p, n) ==
    LET found == found_nodes(store[p], n, AnswerK[p], AnswerK[n])
    IN  [i \in DOMAIN found |-> [found[i] EXCEPT !.addr = where[p]]]

\* What n gets from p when it asks for its own identifier.
FoundNodes(p, n) == found_nodes(store[p], n, AnswerK[p], AnswerK[n])

\* The operation of n goes on as o.
SetOp(n, o) ==
    /\ op' = [op EXCEPT ![n] = o]
    /\ UNCHANGED <<where, been, starts, calls>>

\* The application of n calls an operation, one at a time.
Call(n, o) ==
    /\ Up(n) /\ ~Busy(n) /\ calls < MaxCalls
    /\ op' = [op EXCEPT ![n] = o]
    /\ calls' = calls + 1
    /\ UNCHANGED <<where, been, store, starts>>

\* What the loops of join and discover do with contact c: the node itself is
\* skipped, a known peer too if only new ones are wanted; what add_or_update
\* accepts is added to the list `out'.
AddOne(n, acc, c, onlyNew) ==
    IF c.node_id = n \/ (onlyNew /\ Known(acc.store, c.node_id))
    THEN acc
    ELSE [store |-> add_or_update(n, acc.store, c, 0),
          out   |-> IF StoreAccepts(n, acc.store, c.node_id)
                    THEN Append(acc.out, c) ELSE acc.out]

\* The store and the list after all contacts, in their order.
AddAll(n, st, out, contacts, onlyNew) ==
    LET added[i \in 0 .. Len(contacts)] ==
          IF i = 0 THEN [store |-> st, out |-> out]
          ELSE AddOne(n, added[i - 1], contacts[i], onlyNew)
    IN  added[Len(contacts)]

-----------------------------------------------------------------------------
(* BootstrapClient.join *)

BeginJoin(n, boot) == Call(n, Join(boot))

\* PingValidator.ping: any node that listens at the address will do.
JoinPing(n) ==
    /\ op[n].kind = "join" /\ op[n].step = "ping"
    /\ \E p \in Node \ {n} : where[p] = op[n].boot.addr
    /\ SetOp(n, [op[n] EXCEPT !.step = "find"])
    /\ UNCHANGED store

JoinFind(n) ==
    /\ op[n].kind = "join" /\ op[n].step = "find"
    /\ \E p \in Node \ {n} :
          /\ where[p] = op[n].boot.addr
          /\ SetOp(n, [op[n] EXCEPT !.step = "store",
                                    !.reply = FoundNodes(p, n)])
    /\ UNCHANGED store

\* No reply, or one that does not parse: BootstrapError.
JoinFails(n) ==
    /\ op[n].kind = "join" /\ op[n].step \in {"ping", "find"}
    /\ SetOp(n, FailedOp)
    /\ UNCHANGED store

\* The bootstrap peer, if its identifier is known, then the contacts it sent.
JoinContacts(o) ==
    (IF o.boot.id = NoId THEN << >>
     ELSE <<[node_id |-> o.boot.id, addr |-> o.boot.addr]>>) \o o.reply

\* Mutant of JoinStore: the contacts the table refused are returned too.
JoinStoreReportsAll(n) ==
    /\ op[n].kind = "join" /\ op[n].step = "store"
    /\ LET all == AddAll(n, store[n], << >>, JoinContacts(op[n]),
                         FALSE)
       IN  /\ store' = [store EXCEPT ![n] = all.store]
           /\ SetOp(n, Joined(JoinContacts(op[n])))

JoinStore(n) ==
    /\ op[n].kind = "join" /\ op[n].step = "store"
    /\ LET all == AddAll(n, store[n], << >>, JoinContacts(op[n]),
                         FALSE)
       IN  /\ store' = [store EXCEPT ![n] = all.store]
           /\ SetOp(n, Joined(all.out))

-----------------------------------------------------------------------------
(* PeerDiscovery.discover *)

BeginDiscover(n, seeds) == 
    Call(n, Discover(seeds, get_all_contacts(store[n].table)))

\* The seeds join returned, as in the documented use.
DiscoverAfterJoin(n) ==
    /\ op[n].kind = "join" /\ op[n].step = "done"
    /\ BeginDiscover(n, op[n].out)

\* A seed of the application's own.
DiscoverFreshSeed(n, c) == BeginDiscover(n, <<c>>)

DiscoverAsk(n) ==
    /\ op[n].kind = "discover" /\ op[n].step = "ask"
    /\ \E p \in Node \ {n} :
          /\ where[p] = Head(op[n].seeds).addr
          /\ SetOp(n, [op[n] EXCEPT !.step = "store",
                                    !.reply = FoundNodes(p, n)])
    /\ UNCHANGED store

\* Mutant of NextSeed: a seed that does not reply is asked again.
SameSeed(o) ==
    [o EXCEPT !.reply = << >>, !.step = "ask"]

\* The operation o after it has dealt with its first seed.
NextSeed(o) ==
    [o EXCEPT !.seeds = Tail(@), !.reply = << >>,
              !.step = IF Len(o.seeds) = 1 THEN "done" ELSE "ask"]

\* An unreachable seed or a malformed reply is skipped.
DiscoverSkip(n) ==
    /\ op[n].kind = "discover" /\ op[n].step = "ask"
    /\ SetOp(n, NextSeed(op[n]))
    /\ UNCHANGED store

\* Mutant of DiscoverStore: known contacts are stored and returned again.
DiscoverStoreAll(n) ==
    /\ op[n].kind = "discover" /\ op[n].step = "store"
    /\ LET seed == AddAll(n, store[n], << >>, <<Head(op[n].seeds)>>,
                          FALSE)
           all  == AddAll(n, seed.store, op[n].out, op[n].reply,
                          FALSE)
       IN  /\ store' = [store EXCEPT ![n] = all.store]
           /\ SetOp(n, [NextSeed(op[n]) EXCEPT
                           !.out = all.out,
                           !.replied = @ \cup {Head(op[n].seeds).node_id}])

\* The seed is refreshed, whether it was known or not; of the contacts it
\* sent only the unknown ones are added.  What was added in this round is
\* known, so the code's added_this_round set adds nothing to `contains'.
DiscoverStore(n) ==
    /\ op[n].kind = "discover" /\ op[n].step = "store"
    /\ LET seed == AddAll(n, store[n], << >>, <<Head(op[n].seeds)>>,
                          FALSE)
           all  == AddAll(n, seed.store, op[n].out, op[n].reply,
                          TRUE)
       IN  /\ store' = [store EXCEPT ![n] = all.store]
           /\ SetOp(n, [NextSeed(op[n]) EXCEPT
                           !.out = all.out,
                           !.replied = @ \cup {Head(op[n].seeds).node_id}])

-----------------------------------------------------------------------------

Step(n) ==
    \/ JoinPing(n) \/ JoinFind(n) \/ JoinFails(n) \/ JoinStore(n)
    \/ DiscoverAsk(n) \/ DiscoverSkip(n) \/ DiscoverStore(n)

\* A bootstrap peer is configured by an address it had, with or without its
\* identifier.
Bootstraps(n) ==
    {b \in [id : (Node \ {n}) \cup {NoId}, addr : Addr] :
        IF b.id = NoId THEN \E p \in Node \ {n} : b.addr \in been[p]
                       ELSE b.addr \in been[b.id]}

Next ==
    \E n \in Node :
        \/ \E a \in Addr : Start(n, a)
        \/ Stop(n)
        \/ \E boot \in Bootstraps(n) : BeginJoin(n, boot)
        \/ DiscoverAfterJoin(n)
        \/ \E c \in [node_id : Node \ {n}, addr : Addr] :
              Genuine(c) /\ DiscoverFreshSeed(n, c)
        \/ Step(n)

Spec == Init /\ [][Next]_vars

-----------------------------------------------------------------------------
(* Properties *)

JoinOps ==
    [kind : {"join"}, step : {"ping", "find", "store"},
     boot : [id : Node \cup {NoId}, addr : Addr], reply : Seq(Contact)]

JoinedOps == [kind : {"join"}, step : {"done"}, out : Seq(Contact)]

DiscoverOps ==
    [kind : {"discover"}, step : {"ask", "store", "done"},
     seeds : Seq(Contact), reply : Seq(Contact), out : Seq(Contact),
     before : SUBSET Contact, replied : SUBSET NodeIds]

Ops == {NoOp, FailedOp} \cup JoinOps \cup JoinedOps \cup DiscoverOps

TypeOK ==
    /\ where \in [Node -> Addr \cup {Down}]
    /\ been \in [Node -> SUBSET Addr]
    /\ store \in [Node -> Store]
    /\ op \in [Node -> Ops]
    /\ starts \in 0 .. MaxStarts
    /\ calls \in 0 .. MaxCalls

\* Every node's store is consistent at every moment, also in the middle of a
\* join or a discovery and whatever contacts the others send.
StoresConsistent ==
    \A n \in Node :
        /\ BucketsBounded(store[n])
        /\ InOwnBucket(n, store[n])
        /\ NoDuplicates(store[n])
        /\ TableIsRecorded(store[n])
        /\ RecordsAreInTable(n, store[n])

\* No contact is made up on the way from node to node: whatever a store holds
\* and whatever a reply in flight carries is an address the peer had.
ContactsGenuine ==
    \A n \in Node :
        /\ \A c \in get_all_contacts(store[n].table) : Genuine(c)
        /\ op[n].step = "store" =>
              \A i \in DOMAIN op[n].reply : Genuine(op[n].reply[i])

Returned(n, kind) == op[n].kind = kind /\ op[n].step = "done"

OutIds(n) == {op[n].out[i].node_id : i \in DOMAIN op[n].out}

\* join returns "the contacts ... that were successfully stored": everyone it
\* lists is in the store when it returns, and it stored nobody else.
JoinReportsStored ==
    [][\A n \in Node :
          op[n].step = "store" /\ op[n].kind = "join" /\ Returned(n, "join")' =>
          /\ OutIds(n)' \subseteq KnownIds(store'[n])
          /\ KnownIds(store'[n]) \ KnownIds(store[n]) \subseteq OutIds(n)']_vars

\* Who was known when the discovery of n was called.
KnownBefore(n) == {c.node_id : c \in op[n].before}

\* Whoever discover lists is new: known when it returns and not when it was
\* called, and listed once although several replies may name it.  Whoever
\* else is new is a seed that replied, which is stored without being listed.
DiscoverReportsNew ==
    \A n \in Node : Returned(n, "discover") =>
        LET new == KnownIds(store[n]) \ KnownBefore(n)
        IN  /\ OutIds(n) \subseteq new
            /\ \A i, j \in DOMAIN op[n].out :
                  op[n].out[i].node_id = op[n].out[j].node_id => i = j
            /\ new \ OutIds(n) \subseteq op[n].replied

\* What discover's docstring says it returns: "All **newly** stored contacts"
\* (discovery.py 134).  It does not hold: a seed that was not known is stored
\* when it replies and listed by nobody.
DiscoverListsAllNew ==
    \A n \in Node : Returned(n, "discover") =>
        OutIds(n) = KnownIds(store[n]) \ KnownBefore(n)

\* Hearsay does not override what a node knows: whatever the replies say of a
\* known peer, and however old the address is that they give for it, discover
\* leaves the peer and its address as they were, unless the peer is a seed
\* and has replied.
HearsayIgnored ==
    \A n \in Node : Returned(n, "discover") =>
        \A c \in op[n].before :
            \/ c \in get_all_contacts(store[n].table)
            \/ c.node_id \in op[n].replied

\* How many steps an operation may still take.
StepsLeft(o) ==
    IF o.step \in {"done", "failed"} THEN 0
    ELSE IF o.kind = "join"
    THEN CASE o.step = "ping" -> 3 [] o.step = "find" -> 2
           [] o.step = "store" -> 1
    ELSE 2 * Len(o.seeds) - (IF o.step = "store" THEN 1 ELSE 0)

\* Every join and every discovery comes to an end, whoever goes away and
\* whatever the others do meanwhile: no step of a call puts its end off, and
\* nobody else's step does.
CallsShrink ==
    [][\A n \in Node : Busy(n) =>
          \/ StepsLeft(op'[n]) < StepsLeft(op[n])
          \/ op'[n] = op[n]]_vars

=============================================================================
