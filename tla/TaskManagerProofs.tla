------------------------- MODULE TaskManagerProofs --------------------------
(***************************************************************************)
(* Proofs about module TaskManager, for any number of tasks, nodes,        *)
(* executions and records.                                                 *)
(*                                                                         *)
(* The three safety invariants need three more facts: an execution holds a *)
(* record that its task has or had (HeldRecords), the records that were    *)
(* not created yet are blank (FreshRecords), and no execution of a record  *)
(* is a later attempt than the record has counted (AttemptsBounded), so    *)
(* that a new one is the latest.                                           *)
(***************************************************************************)
EXTENDS TaskManager, FiniteSetTheorems, TLAPS

HeldRecords ==
    \A e \in Exec : run[e].phase # "unused" =>
        /\ run[e].task \in Task
        /\ run[e].rec \in 1 .. current[run[e].task]
        /\ run[e].on \in Node

FreshRecords ==
    \A t \in Task, i \in Index : i > current[t] => record[t][i] = NewRecord

AttemptsBounded ==
    \A e \in Exec : run[e].phase # "unused" =>
        run[e].attempt <= record[run[e].task][run[e].rec].attempts

Inv ==
    /\ TypeOK /\ HeldRecords /\ FreshRecords /\ AttemptsBounded
    /\ RecordExplained /\ OwnerIsExecutor /\ OwnerIsLatestAttempt

-----------------------------------------------------------------------------
(* What the steps write *)

\* Record i of task t becomes r, and no other record changes.
Written(t, i, r) ==
    /\ record' \in [Task -> [Index -> Record]]
    /\ record'[t][i] = r
    /\ \A u \in Task, j \in Index : ~(u = t /\ j = i) => record'[u][j] = record[u][j]

\* Call e becomes q, and no other call changes.
Moved(e, q) ==
    /\ run' \in [Exec -> Run]
    /\ run'[e] = q
    /\ \A d \in Exec : d # e => run'[d] = run[d]

\* An update of one record is an update of that record only.
LEMMA WriteRecord ==
    ASSUME TypeOK, NEW t \in Task, NEW i \in Index, NEW r \in Record,
           record' = [record EXCEPT ![t][i] = r]
    PROVE  Written(t, i, r)
BY DEF TypeOK, Written

\* An update of one call is an update of that call only.
LEMMA MoveRun ==
    ASSUME TypeOK, NEW e \in Exec, NEW q \in Run,
           run' = [run EXCEPT ![e] = q]
    PROVE  Moved(e, q)
BY DEF TypeOK, Moved

\* What Started changes in a record.
LEMMA StartedFields ==
    ASSUME TypeOK, NEW r \in Record
    PROVE  /\ Started(r) \in Record
           /\ Started(r).state = "RUNNING"
           /\ Started(r).executing_node = node_id
           /\ Started(r).attempts = r.attempts + 1
<1>1. node_id \in Node /\ r.attempts + 1 \in Nat
  BY DEF TypeOK, Record
<1>2. r.result \in Exec \cup {None} /\ r.error \in Exec \cup {None}
  BY DEF Record
<1> QED
  BY <1>1, <1>2 DEF Started, Record, States

\* What Ended changes in a record.
LEMMA EndedFields ==
    ASSUME NEW r \in Record, NEW e \in Exec, NEW how \in {"result", "error"}
    PROVE  /\ Ended(r, e, how) \in Record
           /\ Ended(r, e, how).executing_node = r.executing_node
           /\ Ended(r, e, how).attempts = r.attempts
           /\ how = "result" => /\ Ended(r, e, how).state = "COMPLETED"
                                /\ Ended(r, e, how).result = e
           /\ how = "error" => /\ Ended(r, e, how).state = "FAILED"
                               /\ Ended(r, e, how).error = e
BY DEF Record, Ended, States

\* The blank record is a record.
LEMMA NewRecordType == NewRecord \in Record
BY DEF NewRecord, Record, States

\* setdefault finds or makes a record of the task.
LEMMA SetDefaultIndex ==
    ASSUME TypeOK, NEW t \in Task
    PROVE  /\ SetDefault(t) \in Index
           /\ current[t] <= SetDefault(t)
           /\ [current EXCEPT ![t] = SetDefault(t)] \in [Task -> 0 .. MaxRecords]
<1>1. current[t] \in 0 .. MaxRecords /\ MaxRecords \in Nat \ {0}
  BY BoundAssumption DEF TypeOK
<1>2. SetDefault(t) \in Index /\ current[t] <= SetDefault(t)
  BY <1>1 DEF SetDefault, Index
<1> QED
  BY <1>2 DEF TypeOK, Index

\* What OwnerIsExecutor says of an execution that nobody disturbed.
Owns(e) ==
    /\ run[e].phase = "awaiting" => AwaitsAlone(e)
    /\ Shows(e) => RecordOf(e).executing_node = run[e].on

\* The task and the record of a call.
LEMMA HeldTypes ==
    ASSUME Inv, NEW d \in Exec, run[d].phase # "unused"
    PROVE  run[d].task \in Task /\ run[d].rec \in Index
<1>1. run[d].task \in Task /\ run[d].rec \in 1 .. current[run[d].task]
  BY DEF Inv, HeldRecords
<1>2. current[run[d].task] \in 0 .. MaxRecords /\ MaxRecords \in Nat
  BY <1>1, BoundAssumption DEF Inv, TypeOK
<1> QED
  BY <1>1, <1>2 DEF Index

\* A step that leaves an execution, its record and the executions that hold
\* the record as they are leaves the execution the owner.
LEMMA OwnsUntouched ==
    ASSUME Inv, NEW d \in Exec, run[d].phase # "unused",
           run'[d] = run[d],
           <<run[d].task, run[d].rec>> \notin disturbed,
           record'[run[d].task][run[d].rec] = record[run[d].task][run[d].rec],
           Holders(run[d].task, run[d].rec)' = Holders(run[d].task, run[d].rec),
           \A c \in Holders(run[d].task, run[d].rec) : run'[c].phase = run[c].phase
    PROVE  Owns(d)'
<1>1. Owns(d)
  BY DEF Inv, OwnerIsExecutor, Owns
<1>2. RecordOf(d)' = RecordOf(d)
  BY DEF RecordOf
<1>3. AwaitsAlone(d) => AwaitsAlone(d)'
  BY <1>2 DEF AwaitsAlone
<1>4. Shows(d)' => Shows(d)
  BY <1>2 DEF Shows
<1> QED
  BY <1>1, <1>2, <1>3, <1>4 DEF Owns

\* A step that leaves the attempts on a record and its owner as they are, and
\* its state or an end of it, leaves it naming its latest attempt.
LEMMA LatestUntouched ==
    ASSUME Inv, NEW u \in Task, NEW j \in Index,
           Holders(u, j)' = Holders(u, j),
           \A d \in Holders(u, j) : /\ run'[d].attempt = run[d].attempt
                                    /\ run'[d].on = run[d].on,
           record'[u][j].attempts = record[u][j].attempts,
           record'[u][j].executing_node = record[u][j].executing_node,
           record'[u][j].state \in {record[u][j].state, "COMPLETED", "FAILED"}
    PROVE  NamesLatestAttempt(u, j)'
<1>1. NamesLatestAttempt(u, j)
  BY DEF Inv, OwnerIsLatestAttempt
<1>2. ASSUME NEW e \in Exec, LatestAttempt(e, u, j)
      PROVE  LatestAttempt(e, u, j)' /\ run'[e].on = run[e].on
  <2>1. e \in Holders(u, j) /\ Holds(e, u, j)'
    BY <1>2 DEF LatestAttempt, Holders
  <2> QED
    BY <1>2, <2>1 DEF LatestAttempt
<1> QED
  BY <1>1, <1>2 DEF NamesLatestAttempt

-----------------------------------------------------------------------------
(* execute *)

\* The three outcomes of a call of execute: it awaits, or it has ended.
Outcome(e, r, q) ==
    \/ q.phase = "awaiting" /\ r.state = "RUNNING"
    \/ /\ q.phase = "result" /\ q.reply_node = node_id
       /\ r.state = "COMPLETED" /\ r.result = e
    \/ /\ q.phase = "error" /\ q.reply_node = node_id
       /\ r.state = "FAILED" /\ r.error = e

\* What execute does to the record and to the call.
LEMMA ExecuteEffect ==
    ASSUME TypeOK, NEW e \in Exec, NEW t \in Task, execute(e, t)
    PROVE  \E r \in Record, q \in Run :
             /\ Written(t, SetDefault(t), r)
             /\ Moved(e, q)
             /\ q.task = t /\ q.rec = SetDefault(t) /\ q.on = node_id
             /\ q.attempt = record[t][SetDefault(t)].attempts + 1
             /\ r.executing_node = node_id
             /\ r.attempts = record[t][SetDefault(t)].attempts + 1
             /\ Outcome(e, r, q)
<1> DEFINE i == SetDefault(t)
           r0 == record[t][i]
<1>1. i \in Index /\ i \in 0 .. MaxRecords
  BY SetDefaultIndex, BoundAssumption DEF Index
<1>2. r0 \in Record /\ node_id \in Node
  BY <1>1 DEF TypeOK
<1>a. r0.attempts + 1 \in Nat
  BY <1>2 DEF Record
<1>b. record[t][i].attempts = r0.attempts
  OBVIOUS
<1> HIDE DEF i, r0
<1>3. CASE /\ record' = [record EXCEPT ![t][i] = Started(r0)]
           /\ run' = [run EXCEPT ![e] = Began(t, i, "awaiting", None)]
  <2>1. Began(t, i, "awaiting", None) \in Run
    BY <1>1, <1>2, <1>a, <1>b DEF Began, Run
  <2>2. Moved(e, Began(t, i, "awaiting", None))
    BY <1>3, <2>1, MoveRun
  <2>3. Started(r0) \in Record /\ Written(t, i, Started(r0))
    BY <1>1, <1>2, <1>3, StartedFields, WriteRecord
  <2>4. Outcome(e, Started(r0), Began(t, i, "awaiting", None))
    BY <1>2, StartedFields DEF Outcome, Began
  <2> QED
    BY <1>2, <2>1, <2>2, <2>3, <2>4, StartedFields DEF Began, i, r0
<1>4. ASSUME NEW how \in {"result", "error"},
             record' = [record EXCEPT ![t][i] = Ended(Started(r0), e, how)],
             run' = [run EXCEPT ![e] = Began(t, i, how, node_id)]
      PROVE  \E r \in Record, q \in Run :
               /\ Written(t, i, r)
               /\ Moved(e, q)
               /\ q.task = t /\ q.rec = i /\ q.on = node_id
               /\ q.attempt = r0.attempts + 1
               /\ r.executing_node = node_id
               /\ r.attempts = r0.attempts + 1
               /\ Outcome(e, r, q)
  <2> DEFINE r == Ended(Started(r0), e, how)
             q == Began(t, i, how, node_id)
  <2>1. q \in Run /\ Moved(e, q)
    <3>1. q \in Run
      BY <1>1, <1>2, <1>a, <1>b DEF Began, Run
    <3> QED
      BY <1>4, <3>1, MoveRun
  <2>2. Started(r0) \in Record
    BY <1>2, StartedFields
  <2>3. r \in Record
    BY <2>2, EndedFields
  <2>4. Written(t, i, r)
    BY <1>1, <1>4, <2>3, WriteRecord
  <2>5. r.executing_node = node_id /\ r.attempts = r0.attempts + 1
    BY <1>2, <2>2, StartedFields, EndedFields
  <2>6. Outcome(e, r, q)
    BY <2>2, EndedFields DEF Outcome, Began
  <2>7. q.task = t /\ q.rec = i /\ q.on = node_id /\ q.attempt = r0.attempts + 1
    BY DEF Began, r0
  <2> HIDE DEF r, q
  <2> QED
    BY <2>1, <2>3, <2>4, <2>5, <2>6, <2>7
<1> QED
  BY <1>3, <1>4 DEF execute, i, r0

\* A call of execute, up to its await or to its end, keeps the invariant.
LEMMA InvExecute ==
    ASSUME Inv, NEW e \in Exec, NEW t \in Task, execute(e, t)
    PROVE  Inv'
<1> DEFINE i == SetDefault(t)
<1>1. TypeOK
  BY DEF Inv
<1>2. PICK r \in Record, q \in Run :
        /\ Written(t, i, r)
        /\ Moved(e, q)
        /\ q.task = t /\ q.rec = i /\ q.on = node_id
        /\ q.attempt = record[t][i].attempts + 1
        /\ r.executing_node = node_id
        /\ r.attempts = record[t][i].attempts + 1
        /\ Outcome(e, r, q)
  BY <1>1, ExecuteEffect
<1>3. /\ i \in Index /\ current[t] <= i
      /\ [current EXCEPT ![t] = i] \in [Task -> 0 .. MaxRecords]
  BY <1>1, SetDefaultIndex
<1> HIDE DEF i
<1>4. /\ run[e].phase = "unused"
      /\ current' = [current EXCEPT ![t] = i]
      /\ disturbed' = IF Open(t, i) THEN disturbed \cup {<<t, i>>} ELSE disturbed
      /\ UNCHANGED <<alive, node_id, accepted>>
  BY DEF execute, i
<1>5. q.phase \in {"awaiting", "result", "error"}
  BY <1>2 DEF Outcome
<1>6. \A u \in Task, j \in Index :
        Holders(u, j)' = IF u = t /\ j = i THEN Holders(u, j) \cup {e}
                                          ELSE Holders(u, j)
  BY <1>2, <1>4, <1>5 DEF Holders, Holds, Moved
<1>7. \A u \in Task, j \in Index : e \notin Holders(u, j)
  BY <1>4 DEF Holders, Holds
<1>8. TypeOK'
  <2>1. disturbed' \in SUBSET (Task \X Index)
    BY <1>1, <1>3, <1>4 DEF TypeOK
  <2> QED
    BY <1>1, <1>2, <1>3, <1>4, <2>1 DEF TypeOK, Written, Moved
<1>9. HeldRecords'
  <2>1. ASSUME NEW d \in Exec, run'[d].phase # "unused"
        PROVE  /\ run'[d].task \in Task
               /\ run'[d].rec \in 1 .. current'[run'[d].task]
               /\ run'[d].on \in Node
    <3>1. CASE d = e
      BY <1>1, <1>2, <1>3, <1>4, <3>1 DEF Moved, TypeOK, Index
    <3>2. CASE d # e
      <4>1. /\ run'[d] = run[d] /\ run[d].task \in Task
            /\ run[d].rec \in 1 .. current[run[d].task]
            /\ run[d].on \in Node
        BY <1>2, <2>1, <3>2 DEF Moved, Inv, HeldRecords
      <4>2. current'[run[d].task] >= current[run[d].task]
        BY <1>1, <1>3, <1>4, <4>1 DEF TypeOK, Index
      <4> QED
        BY <1>1, <1>3, <1>4, <4>1, <4>2 DEF TypeOK, Index
    <3> QED
      BY <3>1, <3>2
  <2> QED
    BY <2>1 DEF HeldRecords
<1>10. FreshRecords'
  <2>1. ASSUME NEW u \in Task, NEW j \in Index, j > current'[u]
        PROVE  record'[u][j] = NewRecord
    <3>1. j > current[u] /\ ~(u = t /\ j = i)
      BY <1>1, <1>3, <1>4, <2>1 DEF TypeOK, Index
    <3> QED
      BY <1>2, <3>1 DEF Inv, FreshRecords, Written
  <2> QED
    BY <2>1 DEF FreshRecords
<1>11. AttemptsBounded'
  <2>1. ASSUME NEW d \in Exec, run'[d].phase # "unused"
        PROVE  run'[d].attempt <= record'[run'[d].task][run'[d].rec].attempts
    <3>1. CASE d = e
      BY <1>2, <1>3, <3>1 DEF Moved, Written, Run
    <3>2. CASE d # e
      <4>1. run'[d] = run[d] /\ run[d] \in Run
        BY <1>1, <1>2, <3>2 DEF Moved, TypeOK
      <4>2. run[d].task \in Task /\ run[d].rec \in Index
        BY <2>1, <4>1, HeldTypes
      <4>3. record[run[d].task][run[d].rec] \in Record
        BY <1>1, <4>2 DEF TypeOK
      <4>4. run[d].attempt <= record[run[d].task][run[d].rec].attempts
        BY <2>1, <4>1 DEF Inv, AttemptsBounded
      <4>5. \/ record'[run[d].task][run[d].rec] = record[run[d].task][run[d].rec]
            \/ record'[run[d].task][run[d].rec].attempts =
                  record[run[d].task][run[d].rec].attempts + 1
        BY <1>2, <4>2 DEF Written
      <4>6. /\ run[d].attempt \in Nat
            /\ record[run[d].task][run[d].rec].attempts \in Nat
        BY <4>1, <4>3 DEF Run, Record
      <4> QED
        BY <4>1, <4>4, <4>5, <4>6
    <3> QED
      BY <3>1, <3>2
  <2> QED
    BY <2>1 DEF AttemptsBounded
<1>12. OwnerIsLatestAttempt'
  <2>1. ASSUME NEW u \in Task, NEW j \in Index
        PROVE  NamesLatestAttempt(u, j)'
    <3>1. CASE u = t /\ j = i
      <4>1. record[u][j].attempts \in Nat /\ record'[u][j] = r
        BY <1>1, <1>2, <3>1 DEF TypeOK, Record, Written
      <4>2. Holds(e, u, j)' /\ run'[e].attempt = r.attempts
        BY <1>2, <1>5, <3>1 DEF Holds, Moved
      <4>3. ASSUME NEW d \in Holders(u, j)' \ {e}
            PROVE  run'[d].attempt < run'[e].attempt
        <5>1. d \in Exec /\ d \in Holders(u, j) /\ run'[d] = run[d]
          BY <1>2, <1>6, <3>1, <4>3 DEF Moved, Holders
        <5>2. run[d].attempt \in Nat
          BY <1>1, <5>1 DEF TypeOK, Run
        <5>3. run[d].attempt <= record[u][j].attempts
          BY <5>1 DEF Inv, AttemptsBounded, Holders, Holds
        <5> QED
          BY <1>2, <3>1, <4>1, <4>2, <5>1, <5>2, <5>3
      <4>4. LatestAttempt(e, u, j)'
        BY <4>1, <4>2, <4>3 DEF LatestAttempt
      <4>5. r.state \in {"RUNNING", "COMPLETED", "FAILED"} /\ run'[e].on = node_id
        BY <1>2 DEF Outcome, Moved
      <4>6. node_id # None
        BY <1>1, BoundAssumption DEF TypeOK
      <4> QED
        BY <1>2, <4>1, <4>4, <4>5, <4>6 DEF NamesLatestAttempt
    <3>2. CASE ~(u = t /\ j = i)
      <4>1. Holders(u, j)' = Holders(u, j) /\ record'[u][j] = record[u][j]
        BY <1>2, <1>6, <3>2 DEF Written
      <4>2. \A d \in Holders(u, j) : run'[d] = run[d]
        BY <1>2, <1>7 DEF Moved, Holders
      <4> QED
        BY <4>1, <4>2, LatestUntouched
    <3> QED
      BY <3>1, <3>2
  <2> QED
    BY <2>1 DEF OwnerIsLatestAttempt
<1>13. RecordExplained'
  <2>1. ASSUME NEW u \in Task, NEW j \in Index
        PROVE  AttemptsCounted(u, j)' /\ StateExplained(u, j)'
    <3>1. AttemptsCounted(u, j) /\ StateExplained(u, j)
      BY DEF Inv, RecordExplained
    <3>2. CASE u = t /\ j = i
      <4>1. IsFiniteSet(Holders(t, i))
        <5>1. Holders(t, i) \subseteq Exec
          BY DEF Holders
        <5> QED
          BY <5>1, BoundAssumption, FS_Subset
      <4>2. Cardinality(Holders(t, i) \cup {e}) = Cardinality(Holders(t, i)) + 1
        BY <1>3, <1>7, <4>1, FS_AddElement
      <4>3. AttemptsCounted(u, j)'
        BY <1>2, <1>3, <1>6, <3>1, <3>2, <4>2 DEF AttemptsCounted, Written
      <4>4. StateExplained(u, j)'
        BY <1>2, <1>3, <1>6, <3>2 DEF StateExplained, Written, Moved, Outcome
      <4> QED
        BY <4>3, <4>4
    <3>3. CASE ~(u = t /\ j = i)
      <4>1. Holders(u, j)' = Holders(u, j) /\ record'[u][j] = record[u][j]
        BY <1>2, <1>6, <3>3 DEF Written
      <4>2. \A d \in Holders(u, j) : run'[d] = run[d]
        BY <1>2, <1>7 DEF Moved, Holders
      <4> QED
        BY <3>1, <4>1, <4>2 DEF AttemptsCounted, StateExplained
    <3> QED
      BY <3>2, <3>3
  <2> QED
    BY <2>1 DEF RecordExplained
<1>14. OwnerIsExecutor'
  <2>1. ASSUME NEW d \in Exec, run'[d].phase # "unused",
               <<run'[d].task, run'[d].rec>> \notin disturbed'
        PROVE  Owns(d)'
    <3>1. CASE run'[d].task = t /\ run'[d].rec = i
      <4>1. ~Open(t, i)
        BY <1>4, <2>1, <3>1
      <4>2. \A c \in Holders(t, i) : run[c].phase # "awaiting"
        BY <4>1 DEF Open, Holders, Holds
      <4>3. RecordOf(d)' = r
        BY <1>2, <3>1 DEF RecordOf, Written
      <4>4. CASE d = e
        <5>1. run'[d].phase = "awaiting" => AwaitsAlone(d)'
          <6>1. \A c \in Holders(t, i) : run'[c] = run[c]
            BY <1>2, <1>3, <1>7 DEF Moved, Holders
          <6>2. Holders(run[d].task, run[d].rec)' = Holders(t, i) \cup {e}
            BY <1>3, <1>6, <3>1
          <6> QED
            BY <1>2, <4>2, <4>3, <4>4, <6>1, <6>2 DEF AwaitsAlone, Outcome, Moved
        <5> QED
          BY <1>2, <4>3, <4>4, <5>1 DEF Owns, Moved
      <4>5. CASE d # e
        <5>1. run'[d] = run[d] /\ d \in Holders(t, i)
          BY <1>2, <2>1, <3>1, <4>5 DEF Moved, Holders, Holds
        <5>2. ~Shows(d)' /\ run'[d].phase # "awaiting"
          BY <1>2, <4>2, <4>3, <4>5, <5>1 DEF Shows, Outcome
        <5> QED
          BY <5>2 DEF Owns
      <4> QED
        BY <4>4, <4>5
    <3>2. CASE ~(run'[d].task = t /\ run'[d].rec = i)
      <4>1. d # e /\ run'[d] = run[d]
        BY <1>2, <3>2 DEF Moved
      <4>2. run[d].task \in Task /\ run[d].rec \in Index
        BY <2>1, <4>1, HeldTypes
      <4>3. /\ Holders(run[d].task, run[d].rec)' = Holders(run[d].task, run[d].rec)
            /\ record'[run[d].task][run[d].rec] = record[run[d].task][run[d].rec]
        BY <1>2, <1>6, <3>2, <4>1, <4>2 DEF Written
      <4>4. \A c \in Holders(run[d].task, run[d].rec) : run'[c].phase = run[c].phase
        BY <1>2, <1>7, <4>2 DEF Moved, Holders
      <4>5. <<run[d].task, run[d].rec>> \notin disturbed
        BY <1>4, <2>1, <4>1
      <4> QED
        BY <2>1, <4>1, <4>3, <4>4, <4>5, OwnsUntouched
    <3> QED
      BY <3>1, <3>2
  <2> QED
    BY <2>1 DEF OwnerIsExecutor, Owns
<1> QED
  BY <1>8, <1>9, <1>10, <1>11, <1>12, <1>13, <1>14 DEF Inv

-----------------------------------------------------------------------------
(* The other steps *)

\* A step that changes neither calls nor records keeps the invariant.
LEMMA InvSame ==
    ASSUME Inv, TypeOK', UNCHANGED <<run, node_id, disturbed>>,
           \A u \in Task, j \in Index : record'[u][j] = record[u][j],
           \A u \in Task : current'[u] >= current[u]
    PROVE  Inv'
<1>1. TypeOK
  BY DEF Inv
<1>2. \A u \in Task : current[u] \in Nat /\ current'[u] \in Nat
  BY <1>1, BoundAssumption DEF TypeOK
<1>3. \A u \in Task, j \in Index : Holders(u, j)' = Holders(u, j)
  BY DEF Holders, Holds
<1>4. HeldRecords'
  <2>1. ASSUME NEW d \in Exec, run[d].phase # "unused"
        PROVE  /\ run[d].task \in Task
               /\ run[d].rec \in 1 .. current'[run[d].task]
               /\ run[d].on \in Node
    BY <1>2, <2>1 DEF Inv, HeldRecords
  <2> QED
    BY <2>1 DEF HeldRecords
<1>5. FreshRecords'
  <2>1. ASSUME NEW u \in Task, NEW j \in Index, j > current'[u]
        PROVE  record'[u][j] = NewRecord
    BY <1>2, <2>1 DEF Inv, FreshRecords, Index
  <2> QED
    BY <2>1 DEF FreshRecords
<1>6. AttemptsBounded' /\ OwnerIsLatestAttempt'
  <2>1. ASSUME NEW d \in Exec, run[d].phase # "unused"
        PROVE  run[d].attempt <= record'[run[d].task][run[d].rec].attempts
    BY <2>1, HeldTypes DEF Inv, AttemptsBounded
  <2>2. \A u \in Task, j \in Index : NamesLatestAttempt(u, j)'
    BY <1>3, LatestUntouched
  <2> QED
    BY <2>1, <2>2 DEF AttemptsBounded, OwnerIsLatestAttempt
<1>7. RecordExplained'
  <2>1. ASSUME NEW u \in Task, NEW j \in Index
        PROVE  AttemptsCounted(u, j)' /\ StateExplained(u, j)'
    BY <1>3 DEF Inv, RecordExplained, AttemptsCounted, StateExplained
  <2> QED
    BY <2>1 DEF RecordExplained
<1>8. OwnerIsExecutor'
  <2>1. ASSUME NEW d \in Exec, run'[d].phase # "unused",
               <<run'[d].task, run'[d].rec>> \notin disturbed'
        PROVE  Owns(d)'
    <3>1. run[d].task \in Task /\ run[d].rec \in Index
      BY <2>1, HeldTypes
    <3> QED
      BY <1>3, <2>1, <3>1, OwnsUntouched
  <2> QED
    BY <2>1 DEF OwnerIsExecutor, Owns
<1> QED
  BY <1>4, <1>5, <1>6, <1>7, <1>8 DEF Inv

\* create puts a blank record where no execution holds one.
LEMMA InvCreate ==
    ASSUME Inv, NEW t \in Task, create(t)
    PROVE  Inv'
<1> DEFINE i == current[t] + 1
<1>1. TypeOK
  BY DEF Inv
<1>2. i \in Index /\ i > current[t] /\ current[t] \in Nat
  BY <1>1, BoundAssumption DEF TypeOK, create, Index
<1>3. Written(t, i, NewRecord)
  BY <1>1, <1>2, WriteRecord, NewRecordType DEF create
<1>4. record[t][i] = NewRecord
  BY <1>2 DEF Inv, FreshRecords
<1>5. \A u \in Task, j \in Index : record'[u][j] = record[u][j]
  BY <1>2, <1>3, <1>4 DEF Written
<1>6. current' \in [Task -> 0 .. MaxRecords] /\ \A u \in Task : current'[u] >= current[u]
  BY <1>1, <1>2, BoundAssumption DEF TypeOK, create, Index
<1>7. TypeOK'
  BY <1>1, <1>3, <1>6 DEF TypeOK, create, Written
<1> QED
  BY <1>5, <1>6, <1>7, InvSame DEF create

\* mark_for_retry takes the record from an execution only if one awaits.
LEMMA InvMark ==
    ASSUME Inv, NEW t \in Task, mark_for_retry(t)
    PROVE  Inv'
<1> DEFINE i == SetDefault(t)
           r == [record[t][i] EXCEPT !.state = "RETRY", !.executing_node = None]
<1>1. TypeOK
  BY DEF Inv
<1>2. /\ i \in Index /\ current[t] <= i
      /\ [current EXCEPT ![t] = i] \in [Task -> 0 .. MaxRecords]
  BY <1>1, SetDefaultIndex
<1> HIDE DEF i
<1>3. record[t][i] \in Record
  BY <1>1, <1>2 DEF TypeOK
<1>4. /\ r \in Record /\ r.state = "RETRY" /\ r.executing_node = None
      /\ r.attempts = record[t][i].attempts
  BY <1>3 DEF Record, States
<1> HIDE DEF r
<1>5. /\ Written(t, i, r)
      /\ current' = [current EXCEPT ![t] = i]
      /\ disturbed' = IF Open(t, i) THEN disturbed \cup {<<t, i>>} ELSE disturbed
      /\ UNCHANGED <<alive, node_id, run, accepted>>
  BY <1>1, <1>2, <1>4, WriteRecord DEF mark_for_retry, i, r
<1>6. \A u \in Task, j \in Index : Holders(u, j)' = Holders(u, j)
  BY <1>5 DEF Holders, Holds
<1>7. \A u \in Task : /\ current[u] \in Nat /\ current'[u] \in Nat
                      /\ current'[u] >= current[u]
  BY <1>1, <1>2, <1>5, BoundAssumption DEF TypeOK, Index
<1>8. TypeOK'
  <2>1. disturbed' \in SUBSET (Task \X Index)
    BY <1>1, <1>2, <1>5 DEF TypeOK
  <2> QED
    BY <1>1, <1>2, <1>5, <2>1 DEF TypeOK, Written
<1>9. HeldRecords'
  <2>1. ASSUME NEW d \in Exec, run[d].phase # "unused"
        PROVE  /\ run[d].task \in Task
               /\ run[d].rec \in 1 .. current'[run[d].task]
               /\ run[d].on \in Node
    BY <1>7, <2>1 DEF Inv, HeldRecords
  <2> QED
    BY <1>5, <2>1 DEF HeldRecords
<1>10. FreshRecords'
  <2>1. ASSUME NEW u \in Task, NEW j \in Index, j > current'[u]
        PROVE  record'[u][j] = NewRecord
    <3>1. j > current[u] /\ ~(u = t /\ j = i)
      BY <1>1, <1>2, <1>5, <1>7, <2>1 DEF TypeOK, Index
    <3> QED
      BY <1>5, <3>1 DEF Inv, FreshRecords, Written
  <2> QED
    BY <2>1 DEF FreshRecords
<1>11. AttemptsBounded' /\ OwnerIsLatestAttempt'
  <2>1. ASSUME NEW d \in Exec, run[d].phase # "unused"
        PROVE  run[d].attempt <= record'[run[d].task][run[d].rec].attempts
    <3>1. run[d].task \in Task /\ run[d].rec \in Index
      BY <2>1, HeldTypes
    <3>2. record'[run[d].task][run[d].rec].attempts =
            record[run[d].task][run[d].rec].attempts
      BY <1>4, <1>5, <3>1 DEF Written
    <3> QED
      BY <2>1, <3>2 DEF Inv, AttemptsBounded
  <2>2. ASSUME NEW u \in Task, NEW j \in Index
        PROVE  NamesLatestAttempt(u, j)'
    <3>1. CASE u = t /\ j = i
      BY <1>4, <1>5, <3>1 DEF NamesLatestAttempt, Written
    <3>2. CASE ~(u = t /\ j = i)
      BY <1>5, <1>6, <3>2, LatestUntouched DEF Written
    <3> QED
      BY <3>1, <3>2
  <2> QED
    BY <1>5, <2>1, <2>2 DEF AttemptsBounded, OwnerIsLatestAttempt
<1>12. RecordExplained'
  <2>1. ASSUME NEW u \in Task, NEW j \in Index
        PROVE  AttemptsCounted(u, j)' /\ StateExplained(u, j)'
    <3>1. AttemptsCounted(u, j) /\ StateExplained(u, j)
      BY DEF Inv, RecordExplained
    <3>2. CASE u = t /\ j = i
      BY <1>4, <1>5, <1>6, <3>1, <3>2
         DEF AttemptsCounted, StateExplained, Written
    <3>3. CASE ~(u = t /\ j = i)
      BY <1>5, <1>6, <3>1, <3>3 DEF AttemptsCounted, StateExplained, Written
    <3> QED
      BY <3>2, <3>3
  <2> QED
    BY <2>1 DEF RecordExplained
<1>13. OwnerIsExecutor'
  <2>1. ASSUME NEW d \in Exec, run'[d].phase # "unused",
               <<run'[d].task, run'[d].rec>> \notin disturbed'
        PROVE  Owns(d)'
    <3>1. run'[d] = run[d] /\ run[d].task \in Task /\ run[d].rec \in Index
      BY <1>5, <2>1, HeldTypes
    <3>2. CASE run[d].task = t /\ run[d].rec = i
      <4>1. ~Open(t, i)
        BY <1>5, <2>1, <3>1, <3>2
      <4>2. run'[d].phase # "awaiting"
        BY <3>1, <3>2, <4>1 DEF Open
      <4>3. ~Shows(d)'
        BY <1>4, <1>5, <3>1, <3>2, <4>2 DEF Shows, RecordOf, Written
      <4> QED
        BY <4>2, <4>3 DEF Owns
    <3>3. CASE ~(run[d].task = t /\ run[d].rec = i)
      BY <1>5, <1>6, <2>1, <3>1, <3>3, OwnsUntouched DEF Written
    <3> QED
      BY <3>2, <3>3
  <2> QED
    BY <2>1 DEF OwnerIsExecutor, Owns
<1> QED
  BY <1>8, <1>9, <1>10, <1>11, <1>12, <1>13 DEF Inv

\* The end of an execution keeps the invariant: on an undisturbed record it
\* was the only one, so nobody else's state is overwritten.
LEMMA InvResume ==
    ASSUME Inv, NEW e \in Exec, NEW how \in {"result", "error"}, Resume(e, how)
    PROVE  Inv'
<1> DEFINE t == run[e].task
           i == run[e].rec
           r == Ended(record[t][i], e, how)
           q == [run[e] EXCEPT !.phase = how, !.reply_node = node_id]
<1>1. TypeOK /\ run[e].phase = "awaiting" /\ node_id \in Node
  BY DEF Inv, Resume, TypeOK
<1>2. t \in Task /\ i \in Index
  BY <1>1, HeldTypes
<1>3. record[t][i] \in Record /\ run[e] \in Run
  BY <1>1, <1>2 DEF TypeOK
<1>4. /\ q \in Run /\ q.phase = how /\ q.reply_node = node_id
      /\ q.task = t /\ q.rec = i /\ q.on = run[e].on
      /\ q.attempt = run[e].attempt
  BY <1>1, <1>3 DEF Run
<1>5. /\ r \in Record
      /\ r.executing_node = record[t][i].executing_node
      /\ r.attempts = record[t][i].attempts
      /\ how = "result" => r.state = "COMPLETED" /\ r.result = e
      /\ how = "error" => r.state = "FAILED" /\ r.error = e
  BY <1>3, EndedFields
<1>6. Written(t, i, r)
  BY <1>1, <1>2, <1>5, WriteRecord DEF Resume
<1>7. Moved(e, q)
  BY <1>1, <1>4, MoveRun DEF Resume
<1> HIDE DEF r, q
<1>8. UNCHANGED <<alive, node_id, current, accepted, disturbed>>
  BY DEF Resume
<1>9. \A u \in Task, j \in Index : Holders(u, j)' = Holders(u, j)
  BY <1>1, <1>4, <1>7 DEF Holders, Holds, Moved
<1>10. \A u \in Task, j \in Index : e \in Holders(u, j) <=> u = t /\ j = i
  BY <1>1 DEF Holders, Holds
<1>11. TypeOK'
  BY <1>1, <1>6, <1>7, <1>8 DEF TypeOK, Written, Moved
<1>12. HeldRecords'
  BY <1>1, <1>4, <1>7, <1>8 DEF Inv, HeldRecords, Moved
<1>13. FreshRecords'
  <2>1. i \in 1 .. current[t] /\ current[t] \in Nat
    BY <1>1, <1>2, BoundAssumption DEF Inv, HeldRecords, TypeOK
  <2>2. ASSUME NEW u \in Task, NEW j \in Index, j > current'[u]
        PROVE  record'[u][j] = NewRecord
    <3>1. ~(u = t /\ j = i)
      BY <1>8, <2>1, <2>2
    <3> QED
      BY <1>6, <1>8, <2>2, <3>1 DEF Inv, FreshRecords, Written
  <2> QED
    BY <2>2 DEF FreshRecords
<1>14. AttemptsBounded'
  <2>1. ASSUME NEW d \in Exec, run'[d].phase # "unused"
        PROVE  run'[d].attempt <= record'[run'[d].task][run'[d].rec].attempts
    <3>1. /\ run'[d].attempt = run[d].attempt /\ run[d].phase # "unused"
          /\ run'[d].task = run[d].task /\ run'[d].rec = run[d].rec
      BY <1>1, <1>4, <1>7, <2>1 DEF Moved
    <3>2. run[d].task \in Task /\ run[d].rec \in Index
      BY <3>1, HeldTypes
    <3>3. record'[run[d].task][run[d].rec].attempts =
            record[run[d].task][run[d].rec].attempts
      BY <1>5, <1>6, <3>2 DEF Written
    <3> QED
      BY <3>1, <3>3 DEF Inv, AttemptsBounded
  <2> QED
    BY <2>1 DEF AttemptsBounded
<1>15. OwnerIsLatestAttempt'
  <2>1. ASSUME NEW u \in Task, NEW j \in Index
        PROVE  NamesLatestAttempt(u, j)'
    <3>1. \A d \in Holders(u, j) : /\ run'[d].attempt = run[d].attempt
                                   /\ run'[d].on = run[d].on
      BY <1>4, <1>7 DEF Moved, Holders
    <3>2. /\ record'[u][j].attempts = record[u][j].attempts
          /\ record'[u][j].executing_node = record[u][j].executing_node
          /\ record'[u][j].state \in {record[u][j].state, "COMPLETED", "FAILED"}
      BY <1>5, <1>6 DEF Written
    <3> QED
      BY <1>9, <3>1, <3>2, LatestUntouched
  <2> QED
    BY <2>1 DEF OwnerIsLatestAttempt
<1>16. RecordExplained'
  <2>1. ASSUME NEW u \in Task, NEW j \in Index
        PROVE  AttemptsCounted(u, j)' /\ StateExplained(u, j)'
    <3>1. AttemptsCounted(u, j) /\ StateExplained(u, j)
      BY DEF Inv, RecordExplained
    <3>2. CASE u = t /\ j = i
      <4>1. record'[u][j] = r /\ run'[e].phase = how /\ e \in Holders(u, j)'
        BY <1>2, <1>4, <1>6, <1>7, <1>9, <1>10, <3>2 DEF Written, Moved
      <4> QED
        BY <1>5, <1>9, <3>1, <3>2, <4>1 DEF AttemptsCounted, StateExplained
    <3>3. CASE ~(u = t /\ j = i)
      <4>1. record'[u][j] = record[u][j]
        BY <1>6, <3>3 DEF Written
      <4>2. \A d \in Holders(u, j) : run'[d] = run[d]
        BY <1>7, <1>10, <3>3 DEF Moved, Holders
      <4> QED
        BY <1>9, <3>1, <4>1, <4>2 DEF AttemptsCounted, StateExplained
    <3> QED
      BY <3>2, <3>3
  <2> QED
    BY <2>1 DEF RecordExplained
<1>17. OwnerIsExecutor'
  <2>1. ASSUME NEW d \in Exec, run'[d].phase # "unused",
               <<run'[d].task, run'[d].rec>> \notin disturbed'
        PROVE  Owns(d)'
    <3>1. run'[d].task = run[d].task /\ run'[d].rec = run[d].rec
      BY <1>4, <1>7 DEF Moved
    <3>2. run[d].phase # "unused"
      BY <1>1, <1>7, <2>1 DEF Moved
    <3>3. run[d].task \in Task /\ run[d].rec \in Index
      BY <3>2, HeldTypes
    <3>4. CASE run[d].task = t /\ run[d].rec = i
      <4>1. Owns(e)
        BY <1>1, <1>8, <2>1, <3>1, <3>4 DEF Inv, OwnerIsExecutor, Owns
      <4>2. RecordOf(d)' = r
        BY <1>6, <3>1, <3>4 DEF RecordOf, Written
      <4>3. CASE d = e
        <5>1. RecordOf(d)'.executing_node = run'[d].on
          BY <1>1, <1>4, <1>5, <1>7, <4>1, <4>2, <4>3
             DEF Owns, Shows, RecordOf, Moved
        <5>2. run'[d].phase # "awaiting"
          BY <1>4, <1>7, <4>3 DEF Moved
        <5> QED
          BY <5>1, <5>2 DEF Owns
      <4>4. CASE d # e
        <5>1. run'[d] = run[d] /\ d \in Holders(t, i)
          BY <1>7, <3>2, <3>4, <4>4 DEF Moved, Holders, Holds
        <5>2. run'[d].phase # "awaiting"
          BY <1>1, <4>1, <4>4, <5>1 DEF Owns, AwaitsAlone
        <5>3. ~Shows(d)'
          BY <1>5, <4>2, <4>4, <5>2 DEF Shows
        <5> QED
          BY <5>2, <5>3 DEF Owns
      <4> QED
        BY <4>3, <4>4
    <3>5. CASE ~(run[d].task = t /\ run[d].rec = i)
      <4>1. run'[d] = run[d]
        BY <1>7, <3>5 DEF Moved
      <4>2. record'[run[d].task][run[d].rec] = record[run[d].task][run[d].rec]
        BY <1>6, <3>3, <3>5 DEF Written
      <4>3. \A c \in Holders(run[d].task, run[d].rec) : run'[c].phase = run[c].phase
        BY <1>7, <1>10, <3>3, <3>5 DEF Moved, Holders
      <4>4. Holders(run[d].task, run[d].rec)' = Holders(run[d].task, run[d].rec)
        BY <1>9, <3>3, <4>1
      <4> QED
        BY <1>8, <2>1, <3>2, <4>1, <4>2, <4>3, <4>4, OwnsUntouched
    <3> QED
      BY <3>4, <3>5
  <2> QED
    BY <2>1 DEF OwnerIsExecutor, Owns
<1> QED
  BY <1>11, <1>12, <1>13, <1>14, <1>15, <1>16, <1>17 DEF Inv

\* A step that changes no record and leaves every call its record and its
\* phase, or ends it without an answer, keeps what the records say.
LEMMA RecordsSame ==
    ASSUME Inv, UNCHANGED <<record, disturbed>>,
           \A d \in Exec :
              /\ run'[d].task = run[d].task /\ run'[d].rec = run[d].rec
              /\ run'[d].on = run[d].on /\ run'[d].attempt = run[d].attempt
              /\ \/ run'[d].phase = run[d].phase
                 \/ run[d].phase = "awaiting" /\ run'[d].phase = "cancelled"
    PROVE  /\ RecordExplained' /\ OwnerIsExecutor'
           /\ AttemptsBounded' /\ OwnerIsLatestAttempt'
<1>1. \A u \in Task, j \in Index : Holders(u, j)' = Holders(u, j)
  BY DEF Holders, Holds
<1>2. RecordExplained'
  <2>1. ASSUME NEW u \in Task, NEW j \in Index
        PROVE  AttemptsCounted(u, j)' /\ StateExplained(u, j)'
    <3>1. AttemptsCounted(u, j) /\ StateExplained(u, j)
      BY DEF Inv, RecordExplained
    <3>2. \A d \in Holders(u, j) : d \in Exec
      BY DEF Holders
    <3> QED
      BY <1>1, <3>1, <3>2 DEF AttemptsCounted, StateExplained
  <2> QED
    BY <2>1 DEF RecordExplained
<1>3. OwnerIsExecutor'
  <2>1. ASSUME NEW d \in Exec, run'[d].phase # "unused",
               <<run'[d].task, run'[d].rec>> \notin disturbed'
        PROVE  Owns(d)'
    <3>1. run[d].phase # "unused"
      BY <2>1
    <3>2. run[d].task \in Task /\ run[d].rec \in Index
      BY <3>1, HeldTypes
    <3>3. Owns(d)
      BY <2>1, <3>1 DEF Inv, OwnerIsExecutor, Owns
    <3>4. RecordOf(d)' = RecordOf(d)
      BY DEF RecordOf
    <3>5. Shows(d)' => Shows(d)
      BY <3>4 DEF Shows
    <3>6. AwaitsAlone(d) => AwaitsAlone(d)'
      <4>1. Holders(run[d].task, run[d].rec)' = Holders(run[d].task, run[d].rec)
        BY <1>1, <3>2
      <4>2. \A c \in Holders(run[d].task, run[d].rec) :
               run'[c].phase = "awaiting" => run[c].phase = "awaiting"
        BY DEF Holders
      <4> QED
        BY <3>4, <4>1, <4>2 DEF AwaitsAlone
    <3> QED
      BY <3>3, <3>4, <3>5, <3>6 DEF Owns
  <2> QED
    BY <2>1 DEF OwnerIsExecutor, Owns
<1>4. AttemptsBounded'
  BY DEF Inv, AttemptsBounded
<1>5. OwnerIsLatestAttempt'
  <2>1. ASSUME NEW u \in Task, NEW j \in Index
        PROVE  NamesLatestAttempt(u, j)'
    <3>1. \A d \in Holders(u, j) : d \in Exec
      BY DEF Holders
    <3> QED
      BY <1>1, <3>1, LatestUntouched
  <2> QED
    BY <2>1 DEF OwnerIsLatestAttempt
<1> QED
  BY <1>2, <1>3, <1>4, <1>5

\* A cancelled execution leaves its record as it is.
LEMMA InvCancel ==
    ASSUME Inv, NEW e \in Exec, Cancel(e)
    PROVE  Inv'
<1> DEFINE q == [run[e] EXCEPT !.phase = "cancelled"]
<1>1. TypeOK /\ run[e].phase = "awaiting" /\ run[e] \in Run
  BY DEF Inv, Cancel, TypeOK
<1>2. /\ q \in Run /\ q.phase = "cancelled" /\ q.task = run[e].task
      /\ q.rec = run[e].rec /\ q.on = run[e].on
      /\ q.attempt = run[e].attempt
  BY <1>1 DEF Run
<1>3. Moved(e, q)
  BY <1>1, <1>2, MoveRun DEF Cancel
<1> HIDE DEF q
<1>4. UNCHANGED <<alive, node_id, current, record, accepted, disturbed>>
  BY DEF Cancel
<1>5. /\ RecordExplained' /\ OwnerIsExecutor'
      /\ AttemptsBounded' /\ OwnerIsLatestAttempt'
  BY <1>1, <1>2, <1>3, <1>4, RecordsSame DEF Moved
<1>6. TypeOK'
  BY <1>1, <1>3, <1>4 DEF TypeOK, Moved
<1>7. HeldRecords' /\ FreshRecords'
  BY <1>1, <1>2, <1>3, <1>4 DEF Inv, HeldRecords, FreshRecords, Moved
<1> QED
  BY <1>5, <1>6, <1>7 DEF Inv

\* A new node for the manager changes no record and no call.
LEMMA InvReroute ==
    ASSUME Inv, NEW n \in Node, Reroute(n)
    PROVE  Inv'
<1>1. /\ TypeOK /\ node_id' = n
      /\ UNCHANGED <<alive, current, record, run, accepted, disturbed>>
  BY DEF Inv, Reroute
<1>2. /\ RecordExplained' /\ OwnerIsExecutor'
      /\ AttemptsBounded' /\ OwnerIsLatestAttempt'
  BY <1>1, RecordsSame
<1>3. TypeOK'
  BY <1>1 DEF TypeOK
<1>4. HeldRecords' /\ FreshRecords'
  BY <1>1 DEF Inv, HeldRecords, FreshRecords
<1> QED
  BY <1>2, <1>3, <1>4 DEF Inv

\* The initial states satisfy the invariant.
LEMMA InvInit == Init => Inv
<1> SUFFICES ASSUME Init PROVE Inv
  OBVIOUS
<1>1. MaxRecords \in Nat \ {0} /\ IsFiniteSet(Exec) /\ Source \in Node
  BY BoundAssumption, NodeAssumption
<1>2. Unused \in Run /\ Unused.phase = "unused"
  BY <1>1 DEF Unused, Run
<1>3. TypeOK
  BY <1>1, <1>2, NewRecordType DEF Init, TypeOK
<1>4. HeldRecords /\ AttemptsBounded /\ OwnerIsExecutor
  BY <1>2 DEF Init, HeldRecords, AttemptsBounded, OwnerIsExecutor
<1>7. OwnerIsLatestAttempt
  BY DEF Init, NewRecord, OwnerIsLatestAttempt, NamesLatestAttempt
<1>5. FreshRecords
  BY DEF Init, FreshRecords
<1>6. RecordExplained
  <2>1. ASSUME NEW t \in Task, NEW i \in Index
        PROVE  AttemptsCounted(t, i) /\ StateExplained(t, i)
    <3>1. record[t][i] = NewRecord
      BY DEF Init
    <3>2. Holders(t, i) = {}
      BY <1>2 DEF Init, Holders, Holds
    <3>3. Cardinality({}) = 0
      BY FS_EmptySet
    <3> QED
      BY <3>1, <3>2, <3>3 DEF AttemptsCounted, StateExplained, NewRecord
  <2> QED
    BY <2>1 DEF RecordExplained
<1> QED
  BY <1>3, <1>4, <1>5, <1>6, <1>7 DEF Inv

\* Every step keeps the invariant.
LEMMA InvNext == Inv /\ [Next]_vars => Inv'
<1> SUFFICES ASSUME Inv, [Next]_vars PROVE Inv'
  OBVIOUS
<1>1. TypeOK /\ \A u \in Task : current[u] \in Nat
  BY BoundAssumption DEF Inv, TypeOK
<1>2. ASSUME NEW n \in Node, SetAlive(n) PROVE Inv'
  <2>1. TypeOK'
    BY <1>1, <1>2 DEF SetAlive, TypeOK
  <2> QED
    BY <1>1, <1>2, <2>1, InvSame DEF SetAlive
<1>3. ASSUME NEW t \in Task, accept_result(t) PROVE Inv'
  <2>1. TypeOK'
    BY <1>1, <1>3 DEF accept_result, TypeOK
  <2> QED
    BY <1>1, <1>3, <2>1, InvSame DEF accept_result
<1>4. CASE UNCHANGED vars
  <2>1. TypeOK'
    BY <1>1, <1>4 DEF TypeOK, vars
  <2> QED
    BY <1>1, <1>4, <2>1, InvSame DEF vars
<1> QED
  BY <1>2, <1>3, <1>4, InvReroute, InvCreate, InvMark, InvExecute, InvResume,
     InvCancel DEF Next

-----------------------------------------------------------------------------
(* The theorems *)

\* The inductive invariant holds in every reachable state.
THEOREM Safe == Spec => []Inv
BY InvInit, InvNext, PTL DEF Spec

\* Every variable of TaskManager has its type in every reachable state.
THEOREM TypeCorrect == Spec => []TypeOK
<1>1. Inv => TypeOK
  BY DEF Inv
<1> QED
  BY <1>1, Safe, PTL

\* What a record says was done by an execution that holds that very record,
\* however executions, retries and new records of the task overlap.
THEOREM RecordsExplained == Spec => []RecordExplained
<1>1. Inv => RecordExplained
  BY DEF Inv
<1> QED
  BY <1>1, Safe, PTL

\* A record that nobody disturbed names the node that executes or executed it.
THEOREM OwnersAreExecutors == Spec => []OwnerIsExecutor
<1>1. Inv => OwnerIsExecutor
  BY DEF Inv
<1> QED
  BY <1>1, Safe, PTL

\* However executions of a record overlap with each other, with retries and
\* with re-routing, the record names the node of its latest attempt or nobody.
THEOREM OwnersAreLatestAttempts == Spec => []OwnerIsLatestAttempt
<1>1. Inv => OwnerIsLatestAttempt
  BY DEF Inv
<1> QED
  BY <1>1, Safe, PTL

=============================================================================
