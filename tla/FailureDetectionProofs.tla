----------------------- MODULE FailureDetectionProofs -----------------------
(***************************************************************************)
(* Invariants of both failure detectors for any peers, callbacks, starts   *)
(* of the loop and thresholds.                                             *)
(***************************************************************************)
EXTENDS FailureDetection, SequenceTheorems, TLAPS

\* Whoever is not registered was told nothing.
OnlyListenersTold ==
    \A c \in Callback \ listeners : \A p \in Peer : told[c][p] = << >>

\* The loops are started in their order.
StartedInOrder ==
    \A k, l \in Loop : k < l /\ loop[l] # "new" => loop[k] # "new"

\* The loop of the latest start has not returned while the flag is set.
LoopsOrdered == StartedInOrder /\ LatestLoopGoesOn

\* The inductive invariant.  AnnouncedOnce needs StateJustified, since the
\* monitor computes a verdict from the age alone, and OnlyListenersTold, since
\* a callback may be registered in the middle of an outage.  LatestLoopGoesOn
\* needs StartedInOrder, so that the loop that starts is the latest one.
Inv ==
    TypeOK /\ StateJustified /\ AnnouncedOnce /\ OnlyListenersTold /\ LoopsOrdered

(* Initially no peer is known and no loop is started. *)
LEMMA InitInv == Init => Inv
PROOF
  <1> SUFFICES ASSUME Init PROVE Inv
    OBVIOUS
  <1> USE DEF Init
  <1>1. TypeOK
    <2>1. order \in Seq(Peer)
      OBVIOUS
    <2>2. OrderIsKeys
      BY DEF OrderIsKeys
    <2>3. told \in [Callback -> [Peer -> Seq(States)]]
      OBVIOUS
    <2>4. age \in [Peer -> 0 .. Horizon \cup {Unseen}]
      OBVIOUS
    <2>5. listeners \in SUBSET Callback
      OBVIOUS
    <2> QED  BY <2>1, <2>2, <2>3, <2>4, <2>5 DEF TypeOK
  <1>2. StateJustified
    BY DEF StateJustified
  <1>3. AnnouncedOnce /\ OnlyListenersTold
    BY DEF AnnouncedOnce, OnlyListenersTold, Reports
  <1>4. LoopsOrdered
    BY DEF LoopsOrdered, StartedInOrder, LatestLoopGoesOn
  <1> QED  BY <1>1, <1>2, <1>3, <1>4 DEF Inv

(* Steps that leave the loops alone and do not set the flag. *)
LEMMA LoopsUntouched ==
    ASSUME LoopsOrdered, UNCHANGED <<kind, loop>>, active' => active
    PROVE  LoopsOrdered'
PROOF
  BY DEF LoopsOrdered, StartedInOrder, LatestLoopGoesOn, Latest

(* The latest loop stays the latest when another goes on or ends. *)
LEMMA LoopsAfter ==
    ASSUME LoopsOrdered, TypeOK, NEW l \in Loop, kind' = kind,
           NEW s \in {"asleep", "ended", "crashed", "cancelled"},
           loop[l] # "new", loop' = [loop EXCEPT ![l] = s], active' = active,
           active => \/ s \in {"asleep", "cancelled"}
                     \/ kind = "HeartbeatMonitor" /\ s = "crashed"
    PROVE  LoopsOrdered'
PROOF
  <1>1. \A k \in Loop : loop'[k] = IF k = l THEN s ELSE loop[k]
    BY DEF TypeOK
  <1>2. StartedInOrder'
    BY <1>1 DEF LoopsOrdered, StartedInOrder
  <1>3. LatestLoopGoesOn'
    BY <1>1 DEF LoopsOrdered, LatestLoopGoesOn, Latest
  <1> QED  BY <1>2, <1>3 DEF LoopsOrdered

(* A loop that starts is the latest. *)
LEMMA LoopsAfterStart ==
    ASSUME LoopsOrdered, TypeOK, NEW l \in Loop, kind' = kind,
           NEW s \in {"asleep", "crashed"},
           NextToStart(l), loop' = [loop EXCEPT ![l] = s],
           s = "crashed" => kind = "HeartbeatMonitor"
    PROVE  LoopsOrdered'
PROOF
  <1>1. \A k \in Loop : loop'[k] = IF k = l THEN s ELSE loop[k]
    BY DEF TypeOK
  <1>2. \A k \in Loop : /\ k > l => loop[k] = "new"
                        /\ k < l => loop[k] # "new"
    BY LoopAssumption DEF LoopsOrdered, StartedInOrder, NextToStart, Loop
  <1>3. StartedInOrder'
    BY <1>1, <1>2, LoopAssumption DEF StartedInOrder, Loop
  <1>4. Latest(l)'
    BY <1>1, <1>2, LoopAssumption DEF Latest, Loop
  <1>5. LatestLoopGoesOn'
    BY <1>1, <1>4 DEF LatestLoopGoesOn
  <1> QED  BY <1>3, <1>5 DEF LoopsOrdered

(* A verdict is justified by the age of the peer and never better than     *)
(* what is recorded.                                                       *)
LEMMA VerdictSound ==
    ASSUME TypeOK, StateJustified, NEW p \in Peer, age[p] # Unseen
    PROVE  /\ Verdict(p) \in States
           /\ state[p] \in States
           /\ Verdict(p) = "SUSPECTED" =>
                 age[p] >= (IF kind = "HeartbeatManager" THEN suspect_t
                            ELSE timeout + 1)
           /\ Verdict(p) = "OFFLINE" =>
                 age[p] >= (IF kind = "HeartbeatManager" THEN offline_t
                            ELSE timeout * 2 + 1)
           /\ Verdict(p) = "ALIVE" => state[p] = "ALIVE"
           /\ state[p] = "OFFLINE" => Verdict(p) = "OFFLINE"
PROOF
  <1>1. age[p] \in Nat
    BY TimeAssumption DEF TypeOK
  <1>2. state[p] \in States
    BY DEF TypeOK, StateJustified
  <1>3. CASE kind = "HeartbeatManager"
    BY <1>1, <1>2, <1>3, TimeAssumption
       DEF Verdict, ManagerVerdict, StateJustified, States
  <1>4. CASE kind # "HeartbeatManager"
    BY <1>1, <1>2, <1>4, TimeAssumption
       DEF Verdict, MonitorVerdict, StateJustified, States
  <1> QED  BY <1>3, <1>4

(* What one more report makes of the reports of an outage. *)
LEMMA ReportAppended ==
    ASSUME NEW s \in Reports, NEW v \in {"SUSPECTED", "OFFLINE"},
           s = << >> \/ (s = <<"SUSPECTED">> /\ v = "OFFLINE")
    PROVE  /\ Append(s, v) \in Reports
           /\ Append(s, v) # << >>
           /\ Last(Append(s, v)) = v
           /\ s = << >> => Append(s, v) = <<v>>
PROOF
  <1>1. CASE s = << >>
    <2>1. Append(s, v) = <<v>>
      BY <1>1
    <2> QED  BY <1>1, <2>1 DEF Reports, Last
  <1>2. CASE s = <<"SUSPECTED">> /\ v = "OFFLINE"
    <2>1. Append(s, v) = <<"SUSPECTED", "OFFLINE">>
      <3> DEFINE t == <<"SUSPECTED", "OFFLINE">>
      <3>1. s \in Seq(States) /\ t \in Seq(States) /\ v \in States
        BY <1>2 DEF States
      <3>2. /\ Append(s, v) \in Seq(States) /\ Len(Append(s, v)) = 2
            /\ Append(s, v)[1] = "SUSPECTED" /\ Append(s, v)[2] = "OFFLINE"
        BY <1>2, <3>1, AppendProperties
      <3>3. Len(t) = 2 /\ t[1] = "SUSPECTED" /\ t[2] = "OFFLINE"
        OBVIOUS
      <3>4. \A i \in 1 .. 2 : Append(s, v)[i] = t[i]
        BY <3>2, <3>3
      <3> QED  BY <3>1, <3>2, <3>3, <3>4, SeqEqual
    <2>2. Len(<<"SUSPECTED", "OFFLINE">>) = 2 /\ <<"SUSPECTED", "OFFLINE">>[2] = "OFFLINE"
      OBVIOUS
    <2> QED  BY <1>2, <2>1, <2>2 DEF Reports, Last
  <1> QED  BY <1>1, <1>2

(* The last report says SUSPECTED or OFFLINE. *)
LEMMA LastReport ==
    ASSUME NEW s \in Reports, s # << >>
    PROVE  /\ Last(s) = "SUSPECTED" => s = <<"SUSPECTED">>
           /\ Last(s) \in {"SUSPECTED", "OFFLINE"}
PROOF
  <1>1. CASE s = <<"SUSPECTED">>
    BY <1>1 DEF Last
  <1>2. CASE s = <<"OFFLINE">>
    BY <1>2 DEF Last
  <1>3. CASE s = <<"SUSPECTED", "OFFLINE">>
    <2>1. Len(s) = 2 /\ s[2] = "OFFLINE"
      BY <1>3
    <2> QED  BY <2>1 DEF Last
  <1> QED  BY <1>1, <1>2, <1>3 DEF Reports

(* A round over some of the known peers keeps the records justified and    *)
(* the reports in order.                                                   *)
LEMMA JudgeStep ==
    ASSUME Inv, NEW seen \in SUBSET Peer, \A p \in seen : age[p] # Unseen,
           Judge(seen), UNCHANGED <<kind, age, listeners>>
    PROVE  /\ state' \in [Peer -> States \cup {"NONE"}]
           /\ told' \in [Callback -> [Peer -> Seq(States)]]
           /\ StateJustified' /\ AnnouncedOnce' /\ OnlyListenersTold'
PROOF
  <1> USE DEF Inv
  <1>1. \A p \in Peer : state'[p] = IF p \in seen THEN Verdict(p) ELSE state[p]
    BY DEF Judge
  <1>2. \A c \in Callback, p \in Peer :
          told'[c][p] = IF p \in seen /\ c \in listeners /\ Announced(p)
                        THEN Append(told[c][p], Verdict(p)) ELSE told[c][p]
    BY DEF Judge
  <1>3. \A p \in seen : Verdict(p) \in States /\ state[p] \in States
    BY VerdictSound
  <1>4. state' \in [Peer -> States \cup {"NONE"}]
    BY <1>3 DEF Judge, TypeOK
  <1>5. told' \in [Callback -> [Peer -> Seq(States)]]
    <2>1. ASSUME NEW c \in Callback, NEW p \in Peer
          PROVE  told'[c][p] \in Seq(States)
      <3>1. told[c][p] \in Seq(States)
        BY DEF TypeOK
      <3>2. ASSUME p \in seen
            PROVE  Append(told[c][p], Verdict(p)) \in Seq(States)
        BY <1>3, <3>1, <3>2
      <3> QED  BY <1>2, <3>1, <3>2
    <2> QED  BY <2>1 DEF Judge
  <1>6. StateJustified'
    <2> SUFFICES ASSUME NEW p \in Peer
                 PROVE  /\ age[p] = Unseen <=> state'[p] = "NONE"
                        /\ state'[p] = "SUSPECTED" =>
                              age[p] >= (IF kind = "HeartbeatManager"
                                         THEN suspect_t ELSE timeout + 1)
                        /\ state'[p] = "OFFLINE" =>
                              age[p] >= (IF kind = "HeartbeatManager"
                                         THEN offline_t ELSE timeout * 2 + 1)
      BY DEF StateJustified
    <2>1. CASE p \in seen
      <3>1. state'[p] # "NONE"
        BY <1>1, <1>3, <2>1 DEF States
      <3> QED  BY <1>1, <2>1, <3>1, VerdictSound
    <2>2. CASE p \notin seen
      BY <1>1, <2>2 DEF StateJustified
    <2> QED  BY <2>1, <2>2
  <1>7. AnnouncedOnce'
    <2> SUFFICES ASSUME NEW c \in Callback, NEW p \in Peer
                 PROVE  /\ told'[c][p] \in Reports
                        /\ told'[c][p] # << >> => Last(told'[c][p]) = state'[p]
                        /\ kind = "HeartbeatManager" =>
                              told'[c][p] \in {<< >>, <<"OFFLINE">>}
      BY DEF AnnouncedOnce
    <2>1. /\ told[c][p] \in Reports
          /\ told[c][p] # << >> => Last(told[c][p]) = state[p]
          /\ kind = "HeartbeatManager" => told[c][p] \in {<< >>, <<"OFFLINE">>}
      BY DEF AnnouncedOnce
    <2>2. CASE ~(p \in seen /\ Verdict(p) # state[p])
      <3>1. told'[c][p] = told[c][p] /\ state'[p] = state[p]
        BY <1>1, <1>2, <2>2 DEF Announced
      <3> QED  BY <2>1, <3>1
    <2>3. CASE p \in seen /\ Verdict(p) # state[p]
      <3>1. /\ Verdict(p) \in {"SUSPECTED", "OFFLINE"}
            /\ state[p] \in {"ALIVE", "SUSPECTED"}
            /\ state[p] = "SUSPECTED" => Verdict(p) = "OFFLINE"
        BY <1>3, <2>3, VerdictSound DEF States
      <3>2. told[c][p] = << >>
              \/ (told[c][p] = <<"SUSPECTED">> /\ Verdict(p) = "OFFLINE")
        BY <2>1, <3>1, LastReport
      <3>3. CASE c \in listeners /\ Announced(p)
        <4>1. told'[c][p] = Append(told[c][p], Verdict(p))
          BY <1>2, <2>3, <3>3
        <4> DEFINE s == told[c][p]
                   v == Verdict(p)
        <4>a. /\ s \in Reports /\ v \in {"SUSPECTED", "OFFLINE"}
              /\ s = << >> \/ (s = <<"SUSPECTED">> /\ v = "OFFLINE")
          BY <2>1, <3>1, <3>2
        <4>b. /\ told'[c][p] = Append(s, v)
          BY <4>1
        <4> HIDE DEF s, v
        <4>c. /\ Append(s, v) \in Reports
              /\ Last(Append(s, v)) = v
              /\ s = << >> => Append(s, v) = <<v>>
          BY <4>a, ReportAppended
        <4>2. /\ told'[c][p] \in Reports
              /\ Last(told'[c][p]) = Verdict(p)
              /\ told[c][p] = << >> => told'[c][p] = <<Verdict(p)>>
          BY <4>b, <4>c DEF s, v
        <4>3. ASSUME kind = "HeartbeatManager"
              PROVE  told'[c][p] = <<"OFFLINE">>
          <5>1. <<"SUSPECTED">>[1] # <<"OFFLINE">>[1]
            OBVIOUS
          <5>2. told[c][p] = << >>
            BY <2>1, <3>2, <4>3, <5>1
          <5> QED  BY <3>3, <4>2, <4>3, <5>2 DEF Announced
        <4> QED  BY <1>1, <2>3, <4>2, <4>3
      <3>4. CASE ~(c \in listeners /\ Announced(p))
        <4>1. told'[c][p] = told[c][p]
          BY <1>2, <3>4
        <4>2. told[c][p] = << >>
          <5>1. CASE c \notin listeners
            BY <5>1 DEF OnlyListenersTold
          <5>2. CASE c \in listeners
            <6>1. kind = "HeartbeatManager"
              BY <2>3, <3>4, <5>2 DEF Announced
            <6>2. <<"SUSPECTED">>[1] # <<"OFFLINE">>[1]
              OBVIOUS
            <6> QED  BY <2>1, <3>2, <6>1, <6>2
          <5> QED  BY <5>1, <5>2
        <4> QED  BY <2>1, <4>1, <4>2
      <3> QED  BY <3>3, <3>4
    <2> QED  BY <2>2, <2>3
  <1>8. OnlyListenersTold'
    BY <1>2 DEF OnlyListenersTold
  <1> QED  BY <1>4, <1>5, <1>6, <1>7, <1>8

(* Time passes: every record stays justified, for silence only grows. *)
LEMMA TickStep == ASSUME Inv, Tick PROVE Inv'
PROOF
  <1> USE DEF Inv, Tick
  <1>1. \A p \in Peer : /\ age'[p] \in 0 .. Horizon \cup {Unseen}
                        /\ age'[p] = Unseen <=> age[p] = Unseen
                        /\ age[p] # Unseen => age'[p] >= age[p]
    BY TimeAssumption DEF TypeOK
  <1>2. TypeOK'
    BY <1>1 DEF TypeOK, OrderIsKeys
  <1>3. StateJustified'
    <2> SUFFICES ASSUME NEW p \in Peer
                 PROVE  /\ age'[p] = Unseen <=> state[p] = "NONE"
                        /\ state[p] = "SUSPECTED" =>
                              age'[p] >= (IF kind = "HeartbeatManager"
                                          THEN suspect_t ELSE timeout + 1)
                        /\ state[p] = "OFFLINE" =>
                              age'[p] >= (IF kind = "HeartbeatManager"
                                          THEN offline_t ELSE timeout * 2 + 1)
      BY DEF StateJustified
    <2>1. age[p] = Unseen <=> state[p] = "NONE"
      BY DEF StateJustified
    <2>2. CASE age[p] = Unseen
      BY <1>1, <2>1, <2>2
    <2>3. CASE age[p] # Unseen
      <3>1. age[p] \in Nat /\ age'[p] \in Nat /\ age'[p] >= age[p]
        BY <1>1, <2>3, TimeAssumption DEF TypeOK
      <3> QED  BY <1>1, <2>1, <2>3, <3>1, TimeAssumption DEF StateJustified
    <2> QED  BY <2>2, <2>3
  <1>4. AnnouncedOnce' /\ OnlyListenersTold' /\ LoopsOrdered'
    BY LoopsUntouched DEF AnnouncedOnce, OnlyListenersTold
  <1> QED  BY <1>2, <1>3, <1>4

(* Registering callbacks. *)
LEMMA RegisterStep ==
    ASSUME Inv,
           \/ \E c \in Callback : register_offline_callback(c)
           \/ \E how \in {"sends", "raises"} : register_network_callback(how)
    PROVE  Inv'
PROOF
  BY LoopsUntouched
     DEF Inv, register_offline_callback, register_network_callback, TypeOK,
         OrderIsKeys, StateJustified, AnnouncedOnce, OnlyListenersTold

(* A peer is heard. *)
LEMMA HearStep == ASSUME Inv, NEW p \in Peer, hear(p) PROVE Inv'
PROOF
  <1> USE DEF Inv, hear
  <1>1. \A q \in Peer : q # p => age'[q] = age[q] /\ state'[q] = state[q]
    BY DEF TypeOK
  <1>2. age'[p] = 0 /\ state'[p] = "ALIVE" /\ 0 # Unseen
    BY TimeAssumption DEF TypeOK
  <1>3. \A c \in Callback, q \in Peer :
          told'[c][q] = IF q = p THEN << >> ELSE told[c][q]
    BY DEF TypeOK
  <1>4. TypeOK'
    <2>1. order' \in Seq(Peer)
      BY DEF TypeOK
    <2>2. OrderIsKeys'
      <3>1. CASE age[p] = Unseen
        <4>1. /\ order \in Seq(Peer) /\ order' = Append(order, p)
              /\ \A i \in DOMAIN order : order[i] # p
          BY <3>1 DEF TypeOK, OrderIsKeys
        <4>2. /\ Len(order) \in Nat /\ DOMAIN order = 1 .. Len(order)
              /\ DOMAIN order' = 1 .. Len(order) + 1
              /\ \A i \in 1 .. Len(order) : order'[i] = order[i]
              /\ order'[Len(order) + 1] = p
          BY <4>1, AppendProperties, LenProperties
        <4>3. \A i, j \in DOMAIN order' : order'[i] = order'[j] => i = j
          BY <4>1, <4>2 DEF TypeOK, OrderIsKeys
        <4>4. ASSUME NEW q \in Peer
              PROVE  age'[q] # Unseen <=> \E i \in DOMAIN order' : order'[i] = q
          <5>1. CASE q = p
            BY <1>2, <4>2, <5>1
          <5>2. CASE q # p
            <6>1. age'[q] # Unseen <=> \E i \in DOMAIN order : order[i] = q
              BY <1>1, <5>2 DEF TypeOK, OrderIsKeys
            <6> QED  BY <4>2, <5>2, <6>1
          <5> QED  BY <5>1, <5>2
        <4> QED  BY <4>3, <4>4 DEF OrderIsKeys
      <3>2. CASE age[p] # Unseen
        BY <1>1, <1>2, <3>2 DEF TypeOK, OrderIsKeys
      <3> QED  BY <3>1, <3>2
    <2>3. age' \in [Peer -> 0 .. Horizon \cup {Unseen}]
      BY TimeAssumption DEF TypeOK
    <2>4. state' \in [Peer -> States \cup {"NONE"}]
      BY DEF TypeOK, States
    <2>5. told' \in [Callback -> [Peer -> Seq(States)]]
      <3>1. << >> \in Seq(States)
        OBVIOUS
      <3> QED  BY <3>1 DEF TypeOK
    <2> QED  BY <2>1, <2>2, <2>3, <2>4, <2>5 DEF TypeOK
  <1>5. StateJustified'
    BY <1>1, <1>2 DEF StateJustified
  <1>6. AnnouncedOnce'
    BY <1>1, <1>3 DEF AnnouncedOnce, Reports
  <1>7. OnlyListenersTold' /\ LoopsOrdered'
    BY <1>3, LoopsUntouched DEF OnlyListenersTold
  <1> QED  BY <1>4, <1>5, <1>6, <1>7

(* A check of either detector judges known peers, or none. *)
LEMMA RoundJudges ==
    ASSUME Inv, check_now \/ \E l \in Loop : Round(l)
    PROVE  \E seen \in SUBSET Peer :
              (\A p \in seen : age[p] # Unseen) /\ Judge(seen)
PROOF
  <1> USE DEF Inv
  <1>1. CASE CheckAll
    BY <1>1 DEF CheckAll
  <1>2. CASE UNCHANGED <<state, told>>
    <2>1. Judge({})
      <3>1. state' = [p \in Peer |-> state[p]]
        BY <1>2 DEF TypeOK
      <3>2. told' = [c \in Callback |-> [p \in Peer |-> told[c][p]]]
        BY <1>2 DEF TypeOK
      <3> QED  BY <3>1, <3>2 DEF Judge
    <2> QED  BY <2>1
  <1>3. ASSUME NEW i \in DOMAIN order, CheckUntilRaise(i)
        PROVE  \E seen \in SUBSET Peer :
                  (\A p \in seen : age[p] # Unseen) /\ Judge(seen)
    <2> DEFINE seen == {order[j] : j \in 1 .. i}
    <2>1. Judge(seen)
      BY <1>3 DEF CheckUntilRaise
    <2>2. \A j \in 1 .. i : j \in DOMAIN order /\ order[j] \in Peer
      BY <1>3, LenProperties DEF TypeOK
    <2>3. \A p \in seen : p \in Peer /\ age[p] # Unseen
      BY <2>2 DEF TypeOK, OrderIsKeys
    <2> QED  BY <2>1, <2>3
  <1> QED
    BY <1>1, <1>2, <1>3 DEF check_now, Round, ManagerRound, MonitorRound

(* A loop starts or wakes up. *)
LEMMA LoopStep ==
    ASSUME Inv, NEW l \in Loop, start(l) \/ wake(l)
    PROVE  Inv'
PROOF
  <1> USE DEF Inv
  <1>1. UNCHANGED <<kind, order, age, listeners, link>>
    BY DEF start, wake
  <1>2. CASE Round(l)
    <2>1. PICK seen \in SUBSET Peer :
             (\A p \in seen : age[p] # Unseen) /\ Judge(seen)
      BY <1>2, RoundJudges
    <2>2. /\ state' \in [Peer -> States \cup {"NONE"}]
          /\ told' \in [Callback -> [Peer -> Seq(States)]]
          /\ StateJustified' /\ AnnouncedOnce' /\ OnlyListenersTold'
      BY <1>1, <2>1, JudgeStep
    <2>3. \/ loop' = [loop EXCEPT ![l] = "asleep"]
          \/ kind = "HeartbeatMonitor" /\ loop' = [loop EXCEPT ![l] = "crashed"]
      BY <1>2 DEF Round, ManagerRound, MonitorRound
    <2>4. TypeOK'
      BY <1>1, <2>2, <2>3 DEF TypeOK, OrderIsKeys, start, wake
    <2>5. LoopsOrdered'
      <3>1. CASE start(l)
        BY <1>1, <2>3, <3>1, LoopsAfterStart DEF start
      <3>2. CASE wake(l)
        BY <1>1, <2>3, <3>2, LoopsAfter DEF wake
      <3> QED  BY <3>1, <3>2
    <2> QED  BY <2>2, <2>4, <2>5
  <1>3. CASE ~Round(l)
    <2>1. /\ ~active /\ active' = active
          /\ loop' = [loop EXCEPT ![l] = "ended"]
          /\ UNCHANGED <<state, told>>
      BY <1>3 DEF start, wake
    <2>2. TypeOK' /\ StateJustified'
      BY <1>1, <2>1 DEF TypeOK, OrderIsKeys, StateJustified
    <2>3. AnnouncedOnce' /\ OnlyListenersTold'
      BY <1>1, <2>1 DEF AnnouncedOnce, OnlyListenersTold
    <2>4. LoopsOrdered'
      <3>1. loop[l] # "new"
        BY <1>3 DEF start, wake
      <3> QED  BY <1>1, <2>1, <3>1, LoopsAfter
    <2> QED  BY <2>2, <2>3, <2>4
  <1> QED  BY <1>2, <1>3

(* A loop is cancelled at its sleep. *)
LEMMA CancelStep == ASSUME Inv, NEW l \in Loop, cancel(l) PROVE Inv'
PROOF
  <1> USE DEF Inv, cancel
  <1>1. TypeOK' /\ StateJustified'
    BY DEF TypeOK, OrderIsKeys, StateJustified
  <1>2. AnnouncedOnce' /\ OnlyListenersTold'
    BY DEF AnnouncedOnce, OnlyListenersTold
  <1>3. LoopsOrdered'
    BY LoopsAfter
  <1> QED  BY <1>1, <1>2, <1>3

(* The application checks. *)
LEMMA CheckStep == ASSUME Inv, check_now PROVE Inv'
PROOF
  <1> USE DEF Inv
  <1>1. UNCHANGED <<kind, order, age, listeners, active, loop, link>>
    BY DEF check_now
  <1>2. PICK seen \in SUBSET Peer :
           (\A p \in seen : age[p] # Unseen) /\ Judge(seen)
    BY RoundJudges
  <1>3. /\ state' \in [Peer -> States \cup {"NONE"}]
        /\ told' \in [Callback -> [Peer -> Seq(States)]]
        /\ StateJustified' /\ AnnouncedOnce' /\ OnlyListenersTold'
    BY <1>1, <1>2, JudgeStep
  <1>4. TypeOK' /\ LoopsOrdered'
    BY <1>1, <1>3, LoopsUntouched DEF TypeOK, OrderIsKeys
  <1> QED  BY <1>3, <1>4

(* Inv is inductive. *)
LEMMA NextInv == Inv /\ [Next]_vars => Inv'
PROOF
  <1> SUFFICES ASSUME Inv, [Next]_vars PROVE Inv'
    OBVIOUS
  <1>1. CASE stop
    <2>1. TypeOK' /\ StateJustified'
      BY <1>1 DEF stop, Inv, TypeOK, OrderIsKeys, StateJustified
    <2>2. AnnouncedOnce' /\ OnlyListenersTold' /\ LoopsOrdered'
      BY <1>1, LoopsUntouched DEF stop, Inv, AnnouncedOnce, OnlyListenersTold
    <2> QED  BY <2>1, <2>2 DEF Inv
  <1>2. CASE UNCHANGED vars
    BY <1>2, LoopsUntouched
       DEF vars, Inv, TypeOK, OrderIsKeys, StateJustified, AnnouncedOnce,
           OnlyListenersTold
  <1> QED
    BY <1>1, <1>2, TickStep, RegisterStep, HearStep, CheckStep, LoopStep,
       CancelStep
       DEF Next

-----------------------------------------------------------------------------
(* Theorems *)

(* All the variables of the detectors keep their types. *)
THEOREM TypeCorrect == Spec => []TypeOK
PROOF
  <1>1. Inv => TypeOK
    BY DEF Inv
  <1> QED  BY <1>1, InitInv, NextInv, PTL DEF Spec

(* No peer is suspected or given up before it has been silent for as long  *)
(* as the thresholds say.                                                  *)
THEOREM StatesStayJustified == Spec => []StateJustified
PROOF
  <1>1. Inv => StateJustified
    BY DEF Inv
  <1> QED  BY <1>1, InitInv, NextInv, PTL DEF Spec

(* No callback is told of the same outage twice. *)
THEOREM OutagesAnnouncedOnce == Spec => []AnnouncedOnce
PROOF
  <1>1. Inv => AnnouncedOnce
    BY DEF Inv
  <1> QED  BY <1>1, InitInv, NextInv, PTL DEF Spec

(* However stop and start race, the loop of the latest start of an active  *)
(* detector has not returned: it is there unless it was cancelled or the   *)
(* callback of a monitor raised in it.                                     *)
THEOREM LatestLoopsGoOn == Spec => []LatestLoopGoesOn
PROOF
  <1>1. Inv => LatestLoopGoesOn
    BY DEF Inv, LoopsOrdered
  <1> QED  BY <1>1, InitInv, NextInv, PTL DEF Spec

(* A peer comes back only by being heard. *)
THEOREM OnlyHeartbeatsRevive == Spec => OnlyHeartbeatRevives
PROOF
  <1> DEFINE Worse == \A p \in Peer : ~hear(p) /\ state'[p] # state[p] =>
                         <<state[p], state'[p]>> \in Worsenings
  <1>1. Inv /\ [Next]_vars => [Worse]_vars
    <2> SUFFICES ASSUME Inv, Next, NEW p \in Peer, ~hear(p), state'[p] # state[p]
                 PROVE  <<state[p], state'[p]>> \in Worsenings
      OBVIOUS
    <2> USE DEF Inv
    <2>1. CASE check_now \/ \E l \in Loop : Round(l)
      <3>1. PICK seen \in SUBSET Peer :
               (\A q \in seen : age[q] # Unseen) /\ Judge(seen)
        BY <2>1, RoundJudges
      <3>2. p \in seen /\ state'[p] = Verdict(p)
        BY <3>1 DEF Judge
      <3>3. \/ state[p] = "ALIVE" /\ state'[p] \in {"SUSPECTED", "OFFLINE"}
            \/ state[p] = "SUSPECTED" /\ state'[p] = "OFFLINE"
        BY <3>1, <3>2, VerdictSound DEF States
      <3> QED  BY <3>3 DEF Worsenings
    <2>2. CASE \E q \in Peer : hear(q)
      BY <2>2 DEF hear, TypeOK
    <2> QED
      BY <2>1, <2>2 DEF Next, Tick, register_offline_callback,
         register_network_callback, start, wake, cancel, stop
  <1> QED  BY <1>1, InitInv, NextInv, PTL DEF Spec, OnlyHeartbeatRevives

(* Nobody becomes OFFLINE behind the back of a registered callback. *)
THEOREM OutagesAnnounced == Spec => OutageAnnounced
PROOF
  <1> DEFINE Told == \A p \in Peer :
                        state[p] # "OFFLINE" /\ state'[p] = "OFFLINE" =>
                        \A c \in listeners :
                          \E i \in DOMAIN told'[c][p] : told'[c][p][i] = "OFFLINE"
  <1>1. Inv /\ [Next]_vars => [Told]_vars
    <2> SUFFICES ASSUME Inv, Next, NEW p \in Peer,
                        state[p] # "OFFLINE", state'[p] = "OFFLINE",
                        NEW c \in listeners
                 PROVE  \E i \in DOMAIN told'[c][p] : told'[c][p][i] = "OFFLINE"
      OBVIOUS
    <2> USE DEF Inv
    <2>1. CASE check_now \/ \E l \in Loop : Round(l)
      <3>1. PICK seen \in SUBSET Peer :
               (\A q \in seen : age[q] # Unseen) /\ Judge(seen)
        BY <2>1, RoundJudges
      <3>2. p \in seen /\ Verdict(p) = "OFFLINE" /\ c \in Callback
        BY <3>1 DEF Judge, TypeOK
      <3>3. told'[c][p] = Append(told[c][p], "OFFLINE")
        BY <3>1, <3>2 DEF Judge, Announced
      <3>4. told[c][p] \in Seq(States) /\ "OFFLINE" \in States
        BY <3>2 DEF TypeOK, States
      <3>5. /\ Len(told[c][p]) + 1 \in DOMAIN told'[c][p]
            /\ told'[c][p][Len(told[c][p]) + 1] = "OFFLINE"
        BY <3>3, <3>4, AppendProperties, LenProperties
      <3> QED  BY <3>5
    <2>2. CASE \E q \in Peer : hear(q)
      BY <2>2 DEF hear, TypeOK
    <2> QED
      BY <2>1, <2>2 DEF Next, Tick, register_offline_callback,
         register_network_callback, start, wake, cancel, stop
  <1> QED  BY <1>1, InitInv, NextInv, PTL DEF Spec, OutageAnnounced
=============================================================================
