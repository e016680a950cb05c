-------------------------- MODULE FailureDetection --------------------------
(***************************************************************************)
(* The two failure detectors of a node: HeartbeatManager (heartbeat.py)    *)
(* and HeartbeatMonitor (monitoring.py).  Both stamp a peer when they hear *)
(* of it, and both run a loop that turns the age of the stamps into ALIVE, *)
(* SUSPECTED and OFFLINE and tells the application.  They differ in their  *)
(* thresholds, in what they announce, and in what an exception does to the *)
(* loop.  `kind' says which of the two a behaviour is about.               *)
(*                                                                         *)
(* The detectors never look at a time, only at now - last_seen, so the     *)
(* state holds that age.  Ages from Horizon on are alike.  time.time() is  *)
(* taken not to step backwards: if it did, an age would shrink and the     *)
(* monitor could find a silent peer ALIVE again.  A heartbeat carries      *)
(* nothing but its sender, so its loss, delay or duplication is just a     *)
(* matter of when `hear' happens.                                          *)
(***************************************************************************)
EXTENDS Naturals, Sequences, SequencesExt

CONSTANTS Peer,
          Callback,        \* the callbacks of the application
          MaxLoops,        \* bound: how often the loop is started
          suspect_t,       \* HeartbeatManager: suspected from this age on
          offline_t,       \* HeartbeatManager: offline from this age on
          timeout,         \* HeartbeatMonitor: alive up to this age
          Horizon,         \* the age at which ages stop being told apart
          Unseen           \* the age of a peer that was never heard

ASSUME LoopAssumption == MaxLoops \in Nat

ASSUME TimeAssumption ==
    /\ suspect_t \in Nat /\ offline_t \in Nat /\ timeout \in Nat
    /\ Horizon \in Nat
    /\ Horizon >= suspect_t /\ Horizon >= offline_t /\ Horizon > timeout * 2
    /\ Unseen \notin Nat

VARIABLES kind,        \* "HeartbeatManager" or "HeartbeatMonitor"
          order,       \* the peers in the order they entered the dictionary
          age,         \* age[p]: time since p was last heard
          state,       \* state[p]: what is recorded of p
          listeners,   \* the callbacks that are registered
          told,        \* told[c][p]: what c was told of p since p was heard
          active,      \* the flag `active' or `running'
          loop,        \* loop[l]: the coroutine of the l-th start
          link         \* what net_send does

vars == <<kind, order, age, state, listeners, told, active, loop, link>>

Loop == 1 .. MaxLoops

States == {"ALIVE", "SUSPECTED", "OFFLINE"}

\* The callbacks see at most one of each, in this order, between heartbeats.
Reports == {<< >>, <<"SUSPECTED">>, <<"OFFLINE">>, <<"SUSPECTED", "OFFLINE">>}

\* The keys of the dictionaries: the peers that were heard, each once.
OrderIsKeys ==
    /\ \A i, j \in DOMAIN order : order[i] = order[j] => i = j
    /\ \A p \in Peer : age[p] # Unseen <=> \E i \in DOMAIN order : order[i] = p

TypeOK ==
    /\ kind \in {"HeartbeatManager", "HeartbeatMonitor"}
    /\ order \in Seq(Peer) /\ OrderIsKeys
    /\ age \in [Peer -> 0 .. Horizon \cup {Unseen}]
    /\ state \in [Peer -> States \cup {"NONE"}]
    /\ listeners \in SUBSET Callback
    /\ told \in [Callback -> [Peer -> Seq(States)]]
    /\ active \in BOOLEAN
    /\ loop \in [Loop -> {"new", "asleep", "ended", "crashed", "cancelled"}]
    /\ link \in {"none", "sends", "raises"}

\* A HeartbeatMonitor gets its callback, if any, when it is constructed.
Init ==
    /\ \/ kind = "HeartbeatManager" /\ listeners = {}
       \/ kind = "HeartbeatMonitor" /\ \/ listeners = {}
                                       \/ \E c \in Callback : listeners = {c}
    /\ order = << >>
    /\ age = [p \in Peer |-> Unseen]
    /\ state = [p \in Peer |-> "NONE"]
    /\ told = [c \in Callback |-> [p \in Peer |-> << >>]]
    /\ active = FALSE
    /\ loop = [l \in Loop |-> "new"]
    /\ link = "none"

-----------------------------------------------------------------------------
(* The surroundings *)

\* Time passes.
Tick ==
    /\ age' = [p \in Peer |-> IF age[p] = Unseen \/ age[p] = Horizon
                              THEN age[p] ELSE age[p] + 1]
    /\ age' # age
    /\ UNCHANGED <<kind, order, state, listeners, told, active, loop, link>>

register_offline_callback(c) ==
    /\ kind = "HeartbeatManager"
    /\ c \notin listeners
    /\ listeners' = listeners \cup {c}
    /\ UNCHANGED <<kind, order, age, state, told, active, loop, link>>

\* register_network_callback, and later failures and repairs of what it gave.
register_network_callback(how) ==
    /\ kind = "HeartbeatManager"
    /\ how \in {"sends", "raises"} \ {link}
    /\ link' = how
    /\ UNCHANGED <<kind, order, age, state, listeners, told, active, loop>>

\* process_incoming_heartbeat of the one, update of the other: the peer is
\* stamped and ALIVE, and nobody is told.
hear(p) ==
    /\ order' = IF age[p] = Unseen THEN Append(order, p) ELSE order
    /\ age' = [age EXCEPT ![p] = 0]
    /\ state' = [state EXCEPT ![p] = "ALIVE"]
    /\ told' = [c \in Callback |-> [told[c] EXCEPT ![p] = << >>]]
    /\ UNCHANGED <<kind, listeners, active, loop, link>>

-----------------------------------------------------------------------------
(* One round of checking *)

\* Mutant of ManagerVerdict: the shorter threshold is looked at first.
ManagerVerdictSwapped(p) ==
    IF age[p] >= suspect_t
    THEN IF state[p] = "ALIVE" THEN "SUSPECTED" ELSE state[p]
    ELSE IF age[p] >= offline_t THEN "OFFLINE"
    ELSE state[p]

\* What check_node_health makes of peer p.
ManagerVerdict(p) ==
    IF age[p] >= offline_t THEN "OFFLINE"
    ELSE IF age[p] >= suspect_t /\ state[p] = "ALIVE" THEN "SUSPECTED"
    ELSE state[p]

\* Mutant of MonitorVerdict: a peer is suspected at the timeout already.
MonitorVerdictEarly(p) ==
    IF age[p] < timeout THEN "ALIVE"
    ELSE IF age[p] < timeout * 2 THEN "SUSPECTED"
    ELSE "OFFLINE"

\* Mutant of MonitorVerdict: the last branch is missing.
MonitorVerdictUndecided(p) ==
    IF age[p] <= timeout THEN "ALIVE"
    ELSE IF age[p] <= timeout * 2 THEN "SUSPECTED"
    ELSE "NONE"

\* What check_once makes of peer p.
MonitorVerdict(p) ==
    IF age[p] <= timeout THEN "ALIVE"
    ELSE IF age[p] <= timeout * 2 THEN "SUSPECTED"
    ELSE "OFFLINE"

Verdict(p) ==
    IF kind = "HeartbeatManager" THEN ManagerVerdict(p) ELSE MonitorVerdict(p)

\* Mutant of Announced: OFFLINE is announced in every round.
AnnouncedAlways(p) == Verdict(p) = "OFFLINE"

\* The manager announces only that a peer is OFFLINE, the monitor every change.
Announced(p) ==
    /\ Verdict(p) # state[p]
    /\ kind = "HeartbeatManager" => Verdict(p) = "OFFLINE"

\* Mutant of Judge: a callback that raises keeps the others from being called.
JudgeUncaught(seen) ==
    /\ state' = [p \in Peer |-> IF p \in seen THEN Verdict(p) ELSE state[p]]
    /\ \E called \in SUBSET listeners :
          told' = [c \in Callback |-> [p \in Peer |->
                     IF p \in seen /\ c \in called /\ Announced(p)
                     THEN Append(told[c][p], Verdict(p)) ELSE told[c][p]]]

\* The peers in `seen' get their verdict, and every listener is told.
Judge(seen) ==
    /\ state' = [p \in Peer |-> IF p \in seen THEN Verdict(p) ELSE state[p]]
    /\ told' = [c \in Callback |-> [p \in Peer |->
                  IF p \in seen /\ c \in listeners /\ Announced(p)
                  THEN Append(told[c][p], Verdict(p)) ELSE told[c][p]]]

\* check_node_health, where what a callback raises is caught at the call, and
\* check_once when the callback does not raise.
CheckAll == Judge({p \in Peer : age[p] # Unseen})

\* check_once when the callback raises: the peers after that one are not
\* reached.
CheckUntilRaise(i) ==
    /\ listeners # {}
    /\ Announced(order[i])
    /\ Judge({order[j] : j \in 1 .. i})

\* The application calls check_node_health or check_once itself, and gets the
\* exception itself.
check_now ==
    /\ \/ CheckAll
       \/ kind = "HeartbeatMonitor" /\ \E i \in DOMAIN order : CheckUntilRaise(i)
    /\ UNCHANGED <<kind, order, age, listeners, active, loop, link>>

-----------------------------------------------------------------------------
(* The loops *)

\* Mutant of ManagerRound: what net_send raises is not caught.
ManagerRoundUncaught(l) ==
    /\ kind = "HeartbeatManager"
    /\ \/ /\ link = "raises"
          /\ loop' = [loop EXCEPT ![l] = "crashed"]
          /\ UNCHANGED <<state, told>>
       \/ /\ link # "raises"
          /\ loop' = [loop EXCEPT ![l] = "asleep"]
          /\ CheckAll

\* A round of start_heartbeat_loop up to its sleep: when net_send raises,
\* the check is skipped and the exception logged.
ManagerRound(l) ==
    /\ kind = "HeartbeatManager"
    /\ loop' = [loop EXCEPT ![l] = "asleep"]
    /\ IF link = "raises" THEN UNCHANGED <<state, told>> ELSE CheckAll

\* A round of HeartbeatMonitor.start: an exception ends the coroutine.
MonitorRound(l) ==
    /\ kind = "HeartbeatMonitor"
    /\ \/ CheckAll /\ loop' = [loop EXCEPT ![l] = "asleep"]
       \/ /\ \E i \in DOMAIN order : CheckUntilRaise(i)
          /\ loop' = [loop EXCEPT ![l] = "crashed"]

Round(l) == ManagerRound(l) \/ MonitorRound(l)

\* The loops are numbered in the order they are started.
NextToStart(l) == loop[l] = "new" /\ \A k \in 1 .. l - 1 : loop[k] # "new"

\* Mutant of start: the states are reset.
start_afresh(l) ==
    /\ NextToStart(l)
    /\ active' = TRUE
    /\ loop' = [loop EXCEPT ![l] = "asleep"]
    /\ state' = [p \in Peer |-> IF age[p] = Unseen THEN "NONE" ELSE "ALIVE"]
    /\ UNCHANGED <<kind, order, age, listeners, told, link>>

\* The coroutine is started, also while an earlier one is still asleep.
start(l) ==
    /\ NextToStart(l)
    /\ active' = TRUE
    /\ Round(l)
    /\ UNCHANGED <<kind, order, age, listeners, link>>

\* The sleep is over: the flag is looked at, whoever set it.
wake(l) ==
    /\ loop[l] = "asleep"
    /\ IF active THEN Round(l)
       ELSE loop' = [loop EXCEPT ![l] = "ended"] /\ UNCHANGED <<state, told>>
    /\ UNCHANGED <<kind, order, age, listeners, active, link>>

\* The task of the loop is cancelled at its sleep, its only await.  Neither
\* loop catches the CancelledError there, and the flag stays as it is.
cancel(l) ==
    /\ loop[l] = "asleep"
    /\ loop' = [loop EXCEPT ![l] = "cancelled"]
    /\ UNCHANGED <<kind, order, age, state, listeners, told, active, link>>

stop ==
    /\ active
    /\ active' = FALSE
    /\ UNCHANGED <<kind, order, age, state, listeners, told, loop, link>>

-----------------------------------------------------------------------------

Next ==
    \/ Tick
    \/ \E c \in Callback : register_offline_callback(c)
    \/ \E how \in {"sends", "raises"} : register_network_callback(how)
    \/ \E p \in Peer : hear(p)
    \/ check_now
    \/ \E l \in Loop : start(l) \/ wake(l) \/ cancel(l)
    \/ stop

Spec == Init /\ [][Next]_vars

\* Time passes, and the event loop wakes every coroutine whose sleep is over.
Fairness == WF_vars(Tick) /\ \A l \in Loop : WF_vars(wake(l))

FairSpec == Spec /\ Fairness

-----------------------------------------------------------------------------
(* Properties *)

\* Nobody is suspected or given up early: what is recorded of a peer is
\* covered by the silence of that peer, through every interleaving of
\* heartbeats, rounds, restarts and failed rounds.
StateJustified ==
    \A p \in Peer :
        /\ age[p] = Unseen <=> state[p] = "NONE"
        /\ state[p] = "SUSPECTED" =>
              age[p] >= (IF kind = "HeartbeatManager" THEN suspect_t
                         ELSE timeout + 1)
        /\ state[p] = "OFFLINE" =>
              age[p] >= (IF kind = "HeartbeatManager" THEN offline_t
                         ELSE timeout * 2 + 1)

\* Whoever is told of an outage is told once: between two heartbeats of a peer
\* a callback hears at most that it is SUSPECTED and then that it is OFFLINE,
\* and the last it heard is what is recorded, also when loops overlap, sends
\* fail and callbacks raise.
AnnouncedOnce ==
    \A c \in Callback, p \in Peer :
        /\ told[c][p] \in Reports
        /\ told[c][p] # << >> => Last(told[c][p]) = state[p]
        /\ kind = "HeartbeatManager" => told[c][p] \in {<< >>, <<"OFFLINE">>}

\* The loop that was started last.
Latest(l) == loop[l] # "new" /\ \A k \in Loop : k > l => loop[k] = "new"

\* The flag is true only if the loop of the latest start goes on: however stop
\* and start race with loops that are asleep, that loop does not take an
\* earlier stop for its own and return.  Only a cancellation, or for the
\* monitor a callback that raises, leaves the flag true and this loop gone;
\* what net_send or a callback of the manager raises does not.
LatestLoopGoesOn ==
    active => \E l \in Loop :
                 /\ Latest(l)
                 /\ \/ loop[l] \in {"asleep", "cancelled"}
                    \/ kind = "HeartbeatMonitor" /\ loop[l] = "crashed"

\* Every listener is told of every outage when it is recorded: a peer does not
\* become OFFLINE behind the back of a registered callback.
OutageAnnounced ==
    [][\A p \in Peer : state[p] # "OFFLINE" /\ state'[p] = "OFFLINE" =>
          \A c \in listeners :
             \E i \in DOMAIN told'[c][p] : told'[c][p][i] = "OFFLINE"]_vars

\* How a record may change while its peer is not heard.
Worsenings == {<<"ALIVE", "SUSPECTED">>, <<"ALIVE", "OFFLINE">>,
               <<"SUSPECTED", "OFFLINE">>}

\* Only a heartbeat brings a peer back: without one its record gets worse or
\* stays, although the monitor computes it anew every time.
OnlyHeartbeatRevives ==
    [][\A p \in Peer : ~hear(p) /\ state'[p] # state[p] =>
          <<state[p], state'[p]>> \in Worsenings]_vars

\* The flag is set, sends do not raise, and some loop is left.
Working ==
    active /\ link # "raises" /\ \E l \in Loop : loop[l] = "asleep"

\* A peer that was heard and falls silent for good becomes OFFLINE, if from
\* some time on the detector is not stopped, its sends do not raise and one
\* of its loops stays, whatever became of the others.
SilenceDetected ==
    \A p \in Peer :
        (<>[]Working /\ <>[][~hear(p)]_vars)
          => [](state[p] # "NONE" => <>(state[p] = "OFFLINE"))
=============================================================================
