# MeshWeaver: a TLA+ verification project

MeshWeaver is a peer-to-peer task broker in Python (`src/meshweaver`): nodes
find each other through a Kademlia-style overlay, exchange control messages
over UDP, gossip their load, and send tasks to the least loaded peer. This
project models the parts that carry state and concurrency, checks them with TLC
on small instances and proves the central invariants with TLAPS for all
instances. `PROJECT.json` maps every definition to the lines it models.

## 1. Inventory

| component | state | operations | what is hard | what makes it correct |
|---|---|---|---|---|
| identifiers (`kademlia/node_id.py`) | none | `xor_distance`, hex, hashing | bit arithmetic | XOR is a metric, used consistently |
| routing table (`kademlia/routing_table.py`) | 256 buckets of at most k contacts | add, remove, all contacts | full buckets, refresh order, bucket index | bounded, no duplicates, each contact in its bucket |
| peer store (`kademlia/peer_store.py`) | a routing table and a dictionary of records | `add_or_update`, `remove`, `clear` | two structures changed by separate statements | they hold the same peers with the same addresses |
| lookup (`kademlia/lookup.py`) | a reference to a table | `find_closest` | the reference may go stale | the k nearest known peers, in order |
| DHT exchanges (`kademlia/rpc.py`) | none | PING, FIND_NODE, both sides | the peer may change between exchanges | contacts arrive as they were sent |
| bootstrap, discovery (`kademlia/bootstrap.py`, `discovery.py`) | the peer store | `join`, `discover` | failures halfway, moved peers, duplicates | the result says what was stored; the call ends |
| UDP control plane (`network.py`, `node.py`, `protocol.py`) | transport, `pending_requests`, futures, the node's load | `send_request`, `datagram_received` and its handlers, `connection_made/lost` | loss, duplication, reordering; reply, timeout, cancellation and loss of the transport race | every call ends once, with its own reply or an error; no entry leaks |
| heartbeat and monitoring (`heartbeat.py`, `monitoring.py`) | last heartbeat and state of each peer | update, periodic check, callbacks | timers against late messages, callbacks that raise | OFFLINE only after silence, reported once per outage |
| gossip and load selection (`gossip.py`, `kademlia/load_selector.py`, `routing.py`, `dht.py`) | the peers' last load | receive, expire, broadcast, select | reordered updates, stale entries | the selected peer is the least loaded fresh one |
| task execution (`execution.py`, `task_*.py`, `fault_tolerant_execution.py`) | task records | create, execute, retry, accept result | execution awaits while others change the record | a task's state tells who runs it; one result is accepted |
| identity and signatures (`kademlia/identity.py`, `signer.py`, `verifier.py`, `security.py`) | the key file | generate, save, load, sign, verify | a crash or a failed write while saving; a payload that changes when it is encoded | the identity survives; exactly what was signed is accepted |
| TLS transport, serializer, dashboard, demos | - | input, output, rendering | - | not modelled |

Interactions: `join` and `discover` call the peer store and, through a
`send_recv` function, the FIND_NODE handler of another node, which reads that
node's store. `PeerLookup` reads a table the store owns. A failure detector tells the
application of an outage through callbacks, and the application (the
integration demo) marks the task for retry, takes the replacement from the peer
table and executes it again, possibly while the first execution still awaits. The control plane's
heartbeats write the `Node` object whose load the route answers report.
Everything runs on asyncio event loops: code between two awaits is atomic, and
`join`, `discover` and the peer store are synchronous. `PROJECT.json` lists the
hazards line by line.

## 2. Modules

```
NodeId <- RoutingTable <- PeerStore <- FindNode <- PeerStoreNode <- PeerLookup
                                         ^  ^- Overlay   (PeerStoreNode implements PeerBook)
                                         |- PeerStoreLemmas
PeerLookup, PeerStoreLemmas <- PeerStoreProofs
Overlay, PeerStoreLemmas <- OverlayProofs
NetworkProtocol <- NetworkProtocolProofs     (implements RemoteCall)
GossipLoad <- GossipLoadProofs
FailureDetection <- FailureDetectionProofs
TaskManager <- TaskManagerProofs
TaskIdentity <- TaskIdentityProofs
```

`MC*` modules give the constants their values for TLC. Operators named
"Mutant of X" are wrong versions of X with which the checks are tested: with X
replaced by the mutant, the property named in `PROJECT.json` must fail.

- **NodeId**: an identifier of `ID_BITS` bits is the set of its 1 positions, so
  XOR is symmetric difference and the bucket index is the largest element of it.
  `from_bytes` reads the bits, highest first, as a number, which is the distance.
- **RoutingTable**, **PeerStore**: pure operators, one per method; a bucket is a
  sequence of contacts, a store a table and a function of records. Equality of
  contacts is equality of identifiers, as in `KademliaContact.__eq__`.
  `list.sort` is defined by rank: the i-th contact is the one with i - 1 nearer
  ones, which exists since contacts with different identifiers have different
  distances.
- **FindNode**: both sides of FIND_NODE as operators: the responder's lookup and
  cut (`handle_request`), the requester's second sort and cut
  (`parse_response`). The two handlers' `k` and the capacity of the buckets are
  three different parameters.
- **PeerStoreNode**: one store (`store`), `clock`, and `last`, the last call with
  the value it returned; `AddPeer`, `RemovePeer`,
  `ClearPeers` are the three methods, `Tick` is time passing. `time.time()` is
  assumed not to run backwards; if it does, `BucketOrderIsLastSeen` is lost.
- **PeerBook**: the promise of a store to its callers: one dictionary from peers to
  addresses with K places for each bucket's worth of identifiers. `PeerStoreNode`
  implements it (`ImplementsPeerBook`): the book is the addresses in the records,
  while *who gets a place* is decided by the k-bucket, a different structure. The
  value each call returns is part of what is implemented.
- **PeerLookup**: adds the table object a `PeerLookup` holds.
- **Overlay**: one store per node. A `join` or `discover` is split at its
  exchanges (`JoinPing`, `JoinFind`, `JoinStore`; `DiscoverAsk`,
  `DiscoverStore`), since other nodes move while the caller waits; storing a
  reply is one step, since nothing else runs on that node. Nodes stop, losing
  their store, and start again at any free address (`been` records where they
  were). A malformed or missing reply is `JoinFails` or `DiscoverSkip`, always
  possible. Times are left out here. `AddAll` is the loop over the contacts of a
  reply, one `AddOne` each. `op[n].before` and
  `op[n].replied` are history the code does not keep. `AnswerK[n]` is the `k` of
  the handler of `n`, `K` the capacity of the buckets.
- **NetworkProtocol**: per call of `send_request` the future, the entry in
  `pending_requests`, the interruption that struck it and the outcome; `net` is
  the set of datagrams ever sent. A datagram may arrive at any time after it was
  sent: late, out of order, several times (duplication) or never (loss). When a reply and a timeout
  are both there before the task resumes, CPython's versions differ in who wins
  and in when the future is cancelled; `Interrupt` and `AwaitOutcomes` allow all
  of them. Only the first interruption of a call is modelled. Left out:
  `last_seen`, `on_node_seen`, `on_message`, ROUTE_DECISION and unknown types
  (they only reach the application's callback), and a TASK_ROUTE_REQUEST without
  `task_id` or `source_node`, which gets no reply (`network.py:93-94`) and which
  `send_task_route_request` never sends. `heartbeat_loop` only calls
  `send_request`, which here any node may call at any time.
- **RemoteCall**: the promise of `send_request` to its caller: a call is made,
  stays open, and ends once with an answer of the node it was addressed to or
  with an exception. `NetworkProtocol` implements it (`ImplementsRemoteCall`):
  the call is open while `outcome` is "waiting", and its result is out when the
  coroutine has returned, not when the future is set.
- **GossipLoad**: the gossip table of one node, `Local`; of the other nodes, only
  what they measure (`latest`) and send (`net`), since nobody passes on the
  readings of others. `MonitorRound` and `BroadcastRound` are one round of the two
  loops, `select` is `LoadSelector.select` on the table at any moment. The loads
  are a constant function of node and time, so that it can be said that an entry
  is a reading its node really took. All nodes have the same clock; with skewed
  clocks the freshness results hold only up to the skew. Left out: RAM, malformed
  updates.
- **FailureDetection**: `HeartbeatManager` or `HeartbeatMonitor`, by the variable
  `kind`, since they are the same machine with different thresholds and
  different ways to fail. The code only looks at `now - last_seen`, so the state
  holds that age, up to `Horizon`. `hear` is a heartbeat, `check_now` a check
  the application makes, `start` and `wake` one round of the loop up to its
  sleep, `stop` the flag, `cancel` the cancellation of the task of a loop at its
  sleep, the only place where it can be struck: it is outside any `try` in both
  (`heartbeat.py:112`, `monitoring.py:68`), so the loop is gone and the flag stays.
  `time.time()` is assumed not to step backwards: ages never shrink. If it did,
  `OnlyHeartbeatRevives` would fail for the monitor, which computes the state of a
  peer anew from its age. A net_send that raises (`link`) makes the manager skip
  the check; a callback that raises is caught by the manager and ends the
  monitor's coroutine after the peer it was called for (`CheckUntilRaise`, which
  needs the order of the dictionary, `order`). `told` is history: what a
  callback heard of a peer since the peer was heard. Not modelled: a callback
  that changes the detector it is called from, and `HeartbeatMonitor._task`,
  which nothing sets.
- **TaskManager**: `execute` is split at the await of the task's function:
  `execute` runs up to it (or to its end, for a plain function), `Resume` after
  it, `Cancel` is the cancellation of the coroutine. The record an execution holds
  is not looked up again, so `record[t][i]` is the i-th record of a task and
  `current[t]` the one in the dictionary. `Reroute` is what the integration demo
  does: `manager.node_id` becomes the lowest-load ALIVE peer. `accept_result` takes
  any task and, like the code, does not look at the result. `disturbed` and the
  fields `on` and `attempt` of an execution are history.
- **TaskIdentity**: one node's key, its key file line by line, and the messages it
  signs. `SaveOpens` truncates the file; then the save returns, raises or is cut
  off by a `Crash`, which leaves any part of the content. A digest is the record
  of its inputs. A payload is the set of its keys and whether they are integers,
  because `json.dumps(sort_keys=True)` sorts integers by value and, after
  decoding, their strings by character. The checks of `NodeKeyPair.__post_init__`
  (`identity.py:90-108`) are left out: a pair made by `generate_keypair` or
  `load_keypair` is derived from its private key and passes them. `Arrives` delivers a message as sent or
  with one field altered.

## 3. Runs

| run | shows | bounds |
|---|---|---|
| `peer_store` | `StoreConsistent`, `BucketOrderIsLastSeen`, `BucketsCoverRanges`, `LookupFindsNearest`, `RepliesNearest`, `ImplementsPeerBook` | 3-bit identifiers, buckets of 2, 4 peers of which 3 share a bucket, 2 addresses, 3 clock values: a full bucket, refreshes in both orders and address changes all occur; lookups and both handlers of an exchange with k = 2 and 3, so that up to three known peers are sorted and cut by either side |
| `network_protocol` | `PendingIsExact`, `AnswersCorrelate`, `FutureWriteOnce`, `ImplementsRemoteCall`, `EveryCallEnds` | 2 nodes, 2 calls of any type: two calls of one node, or one of each, so a late reply can meet another call |
| `overlay` | `StoresConsistent`, `ContactsGenuine`, `JoinReportsStored`, `DiscoverReportsNew`, `HearsayIgnored`, `CallsShrink` | 3 nodes, 3 addresses, buckets of 1, handlers with k = 1 and 2, 4 starts (one restart or takeover of an address), 3 calls (two joins and a discovery, so that a node has something to tell), seeds of any origin |
| `failure_detection` | `StateJustified`, `AnnouncedOnce`, `LatestLoopGoesOn`, `OutageAnnounced`, `OnlyHeartbeatRevives`, `SilenceDetected` | 2 peers (one before the callback that raises and one after), 2 callbacks (one raises, one must still be told), 3 starts (overlapping loops, of which some are cancelled), thresholds 1 and 2, ages to 3: every verdict and both sides of each threshold occur |
| `task_manager` | `RecordExplained`, `OwnerIsExecutor`, `OwnerIsLatestAttempt` | 1 task, 2 records of it, 2 executions, a source and 2 workers of equal load: overlap, replacement of a record and re-routing during an await occur |
| `task_identity` | `KeyFileSound`, `GenuineAccepted`, `AcceptedWasSigned`, `RestartedNodeTrusted` | 2 keys (an old and a new identity), 2 signed messages, 2 tasks, payloads with keys {2} and {2, 10}; crashes and saves unbounded |
| `gossip_load` | `SelectionSound`, `SilentNotSelected`, `StaleGoes` | 3 nodes, 3 clock values, ttl 1, stale_after 2 (as in the code's defaults, stale_after is twice ttl), 2 messages in flight: expiry, resurrection by an old copy and crossing loads occur |
| `gossip_latest` | **violated** `LatestMetrics` | an overtaken update replaces a newer one |
| `discover_new` | **violated** `DiscoverListsAllNew` | an unknown seed that replies is stored and not listed |
| `lookup_after_clear` | **violated** `LookupSeesTheStore` | a lookup made before `clear` reads the replaced table |
| `network_self_send` | **violated** `AnswersCorrelate` | with `SelfSend = TRUE`: a request to oneself is taken for its reply |
| `network_load` | **violated** `LoadIsOwn` | a heartbeat overwrites the receiver's own load |

The violated properties are what a docstring, the readme or a test says; the
findings in `PROJECT.json` quote them. Deadlock is not checked: every bounded
model comes to an end, and a system with nothing to do is quiescent.

That calls of `join` and `discover` end is checked without fairness:
`CallsShrink` says that each of a call's own steps brings it nearer to its end
and nobody else's step puts that off. An exchange ends with a reply or with the
exception its transport raises after its own timeout, so the step is taken; that
the transport does so is outside the modelled code.

What the models show of the code beyond the runs that fail:

- Bucket i does cover the distances from 2^i up to 2^(i+1)
  (`BucketsCoverRanges`, as `routing_table.py:199-201` says), and hence bucket 0
  is that of the peer at distance 1; `routing_table.py:201` goes on "Bucket 0
  (distance 0) is never used in practice", which is true of no bucket.
- `xor_distance` is a metric (`DistanceIsMetric`), as `node_id.py:127-128` says, but
  "XOR metric actually satisfies the stronger ultrametric inequality"
  (`tests/test_node_id.py:247`) is wrong for identifiers of two bits or more:
  of 00, 01 and 11 the first and the last are further apart than either is from the
  second (`DistanceNotUltrametric`). The bucket index is ultrametric
  (`BucketsAreUltrametric`).
- Four of the violations have an exact reach, which is proved: a `PeerLookup`
  is right until the store is cleared (`AttachedLookupSeesTheStore`), an entry
  goes back in time only by an update of another node that was overtaken
  (`OvertakenUpdatesOnly`), `discover` leaves out only seeds that replied
  (`DiscoveryReportsNew`), and a node that calls itself gets its own request back
  but disturbs no other call (`AnswersAreRepliesOrEchoes`).
- `discover` stores a seed that replied even when it was unknown, and does not
  list it; `discovery.py:134` calls the result "All **newly** stored contacts" (run
  `discover_new`). `DiscoverReportsNew` says what does hold: the list has no one
  twice and no one who was known, and these seeds are all it leaves out.
- `discover` leaves the contacts it knew as they were, whatever addresses replies
  give for them (`HearsayIgnored`). `join` does not: `bootstrap.py:219` overwrites
  them.
- `join` records `bootstrap_node_id` at the bootstrap address "(it is live - it
  replied)" (`bootstrap.py:197`), but no reply's `sender_id` is compared with it:
  after an address has changed hands, another node may have replied.
- A record that was marked for retry, or executed a second time, while an
  execution awaited may end COMPLETED with `executing_node` None or of the other
  execution. `OwnerIsExecutor` holds for the records that were not disturbed in
  this way. `OwnerIsLatestAttempt` holds for all of them, and says whom such a
  record names: the node of its latest attempt, whichever execution its result is
  of, or nobody if it was marked for retry since.
- `execute` reads `node_id` again for its answer, so after a re-routing the
  answer names the replacement although the first node ran the task.
- A cancelled `execute` leaves its record RUNNING for ever (`CancelledError` is
  not an `Exception`).
- A payload with integer keys such as {2: .., 10: ..} is signed in one order and
  verified in another, so the genuine message is refused; `protocol.py:363` allows
  an "Arbitrary JSON-serialisable dict". `GenuineAccepted` excludes them
  (`SortsAlike`).
- A crash between the open and the end of `save_keypair` leaves no key to load,
  not even the old one.
- A monitor whose callback raised, and a detector of either kind whose loop was
  cancelled, has its flag true and that loop gone. `LatestLoopGoesOn` says that
  these are the only ways: no loop of the latest start returns by mistaking an
  earlier `stop` for its own.

Symmetry: addresses (`overlay`), executions
(`task_manager`), keys and tasks (`task_identity`) are only compared; node identifiers are ordered by distance and are not symmetric.
The runs with liveness use no symmetry.

Fairness: the event loop runs every armed timer and every task that is ready
(`WF` of `TimerFires` and `Resume`); it says nothing of the network, so
`EveryCallEnds` does not depend on any delivery. In `GossipLoad`, the broadcast
loop of `Local` comes round (`WF` of `Broadcast(Local)`): it sleeps and repeats,
and its transport's exceptions are caught.
In `FailureDetection`, time passes and a sleeping loop wakes (`WF` of `Tick` and
of `wake`): `asyncio.sleep` ends. `SilenceDetected` further supposes, as its
hypotheses, that from some time on the flag stays on, sends do not raise and some
loop has neither been cancelled nor ended by a callback; without them the code
detects nothing.


## 4. Proofs

All for every value of the constants that satisfies the named assumptions.

- **PeerStoreLemmas**: what the operators of `NodeId`, `RoutingTable` and
  `PeerStore` do, used by the two modules below. On buckets: `BucketRemoveKeeps`
  (what is left is a subsequence without the identifier) and `BucketAddKeeps`.
  On stores: every operation preserves `StoreOK`, and `AddOrUpdateEffect` says who
  is known after it. On distances: `from_bytes` is a number that tells
  identifiers apart (`FromBytesInjective`), so a sort by distance lists every
  contact once and nearest first (`SortByDistanceSorts`), cutting it leaves the
  nearest (`FindClosestNearest`) and sorting and cutting the result again leaves
  it as it is (`SortedStays`); the highest bit of a number bounds it by two powers
  of two (`HighestBitBounds`, `BucketRange`). `FoundNodesAreClosest` says that the
  two cuts of an exchange come to one, by the smaller k. `DistanceIsMetric`,
  `DistanceNotUltrametric` and `BucketsAreUltrametric` say what kind of distance it
  is: the triangle inequality holds because the value of a union of bits is at most
  the sum of the values (`FromBytesSubadditive`, by induction over the bits).
- **PeerStoreProofs**: `TypeCorrect`, `StoreStaysConsistent`,
  `BucketsStayOrdered`, `NobodyIsEvicted`, `LookupsFindNearest`,
  `RepliesStayNearest`, `BucketsKeepRanges`. The inductive invariant is
  `StoreInv` (`StoreOK`). `StoreConsistent` alone is not provable action by
  action without knowing that every record is in the table *and* vice versa:
  for a known peer `add_or_update` ignores the table's answer, and only because
  the peer is in its bucket can that answer not be "full". The order needs the
  bound `last_seen <= clock`. The lookups need that no identifier occurs twice:
  two contacts with one identifier would have the same rank.
  `StoreImplementsPeerBook` is the refinement, step by step: `AddPeer`, `RemovePeer`
  and `ClearPeers` are `Add`, `Remove` and `Clear`, `Tick` is a stutter. Its core is
  `BucketCountsMembers`, that a bucket is as long as there are records of peers that
  belong in it, which takes four parts of the invariant at once (no duplicates, own
  bucket, recorded, in the table): then the k-bucket says "full" exactly when the
  dictionary has no place. `NobodyIsEvicted` says the same of evictions on the table
  itself, and is not checked by a run of its own. `AttachedLookupSeesTheStore` is
  about the specification of `PeerLookup`.
- **OverlayProofs**: `TypeCorrect`, `StoresStayConsistent`, `ContactsStayGenuine`,
  `DiscoveryReportsNew`, `HearsayStaysIgnored`, `JoinsReportStored`,
  `CallsComeToEnd`, for any nodes, addresses, starts and calls. The invariant
  `OverlayInv` is about one node at a time and survives the steps of the others:
  its store is sound and holds genuine contacts; the arguments, seeds and replies
  of its operation are genuine too (`OpGenuine`), at every step and not only when a
  reply waits to be stored, since seeds and the list `join` returned are stored or
  asked later; and what `DiscoverReportsNew` says of the end of a discovery holds
  with the seeds that have replied so far all along (`DiscoverSound`), as does that
  the other contacts known at the start are still in the table. A reply is
  genuine because the responder's table is. `AddAllAdds` is what the loops over a
  reply do, for replies of any length.
- **NetworkProtocolProofs**: `TypeCorrect`, `PendingStaysExact`,
  `FuturesWrittenOnce`, `AnswersAreRepliesOrEchoes`, whether or not nodes address
  themselves, and `AnswersStayCorrelated`, which assumes `SelfSend = FALSE` and is
  false without it (run `network_self_send`). The invariant adds `CallsConsistent`
  and `NetConsistent`: whatever is in flight with id r is the request r or the reply
  its addressee gave. A request to another node arrives where its id is not
  kept, so only replies correlate. A request to oneself is taken for the reply; a
  node replies to itself only when the id is no longer pending, and then nobody
  waits for that reply.
- **GossipLoadProofs**: `TypeCorrect`, `SelectionIsSound`,
  `SilentPeersNotSelected`, `OvertakenUpdatesOnly`. The invariant is `ReadingsTrue`: a table entry or a
  message is a reading its node took, and not newer than `latest`. Neither theorem
  follows from the table alone, since any message in flight may enter it.

- **NetworkProtocolProofs**, refinement: `SendRequestImplementsRemoteCall`, with
  `SelfSend = FALSE`. Initial states map to initial states, and every step is a
  step of one call or a stutter: `send_request` is `Make`, `Resume` is `Return` or
  `Raise`, all the rest changes nothing a caller sees. `Return` needs
  `AnswersCorrelate`, so the invariant comes first.
- **FailureDetectionProofs**: `TypeCorrect`, `StatesStayJustified`,
  `OutagesAnnouncedOnce`, `LatestLoopsGoOn`, `OnlyHeartbeatsRevive`,
  `OutagesAnnounced`, for any thresholds. The invariant joins the state of a peer
  to its age *and* to what the callbacks were told: that nothing is told twice
  follows because the last thing told is the state, and that a record never
  improves without a heartbeat because its age has passed the threshold. Loops are
  numbered as they are started (`StartedInOrder`), so that the one that starts is
  the latest.
- **TaskManagerProofs**: `TypeCorrect`, `RecordsExplained`, `OwnersAreExecutors`,
  `OwnersAreLatestAttempts`, for any number of tasks, executions and records. The invariant adds that the record an execution holds exists
  (`HeldRecords`), that records not yet made are untouched (`FreshRecords`), and
  that no execution of a record is a later attempt than the record has counted
  (`AttemptsBounded`), so that a new one is the latest. Attempts are counted with cardinalities of sets of executions.
- **TaskIdentityProofs**: `TypeCorrect`, `KeyFileStaysSound`, `GenuineIsAccepted`,
  `OnlySignedAccepted`, `RestartedNodesTrusted`. The invariant describes the shape
  of the file: empty while a save is under way, otherwise the content of the last
  save or a part of it. The lemmas are about parsing: a complete content gives its
  key, and a part of it has no footer and gives none.

The theorems of `FailureDetection`, `TaskManager` and `TaskIdentity` suppose
nothing but the named assumptions of these modules: thresholds are naturals and
`Horizon` lies beyond them; `None` and the other markers are no keys, nodes or
executions; the shared secret is not a public key.

Sums over bits, sorted lists and loops over replies call for induction. The
induction theorems of the library take a predicate as an operator, which the
provers cannot instantiate; `SetInduction` is induction for a *set* of naturals,
from the well-foundedness of `<` (`WFMin`), and each use of it
defines the set of the numbers the claim holds for. `RecursionExists` shows, in
the same way, that the recursive functions `from_bytes`, `AddAll` and
`PowerOfTwo` are built from exist, so that their defining equations may be used.

Only model-checked: liveness under fairness (`EveryCallEnds`, `StaleGoes`,
`SilenceDetected`). Every other
property of a passing run is a theorem. The type invariant of `GossipLoad` is
proved and not checked by a run.

## 5. Not modelled

- `task_transport.py`, `fault_tolerant_execution.py` and the `TaskRecord` and
  `TaskRegistry` that only they use: `task_transport.py` imports two names that
  `protocol.py` does not define, so the TCP task path cannot be imported at this
  commit.
- Structural checks (`validate_message`, malformed gossip or heartbeats): a
  malformed message is ignored, or in `Overlay` a failed exchange. One table
  entry without a number as timestamp would end `broadcast_loop`
  (`gossip.py:89`); readings here come from `ResourceStatus`.
- `NodeIdentity.save` and `load` (the bare secret in a file), `PeerTable.find_closest`
  (called by nothing), `register` and the pickling of tasks.
- A clock that steps backwards (`PeerStoreNode`, `FailureDetection`).
- Replay: the verifiers keep no memory of messages they accepted, so a message that
  arrives again is accepted again.
- Hashing, hex and base64 as computations; SHA-256 and HMAC are injective.
- TLS streams, serializer and dashboard (input and output only), demos, and the
  root-level copies of package modules.
