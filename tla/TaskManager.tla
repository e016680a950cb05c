---------------------------- MODULE TaskManager -----------------------------
(***************************************************************************)
(* TaskManager (execution.py): the records of the tasks a node executes,   *)
(* under calls of execute that overlap each other and mark_for_retry,      *)
(* create and the re-routing to another node that the integration demo     *)
(* (examples/full_stack_demo.py) does through PeerTable (dht.py).          *)
(*                                                                         *)
(* execute runs without interruption up to the await of its function and   *)
(* again after it.  It holds on to the record it found when it was called: *)
(* create puts a new record in the dictionary and leaves the old one to    *)
(* the executions that hold it, so a record is named by its task and by    *)
(* how many records the task had before it.                                *)
(*                                                                         *)
(* Calls that raise before they change anything (an unknown function, a    *)
(* malformed task) are left out.                                           *)
(***************************************************************************)
EXTENDS Naturals, FiniteSets

CONSTANTS Task,
          Node,            \* node identifiers, in the order of the strings
          Source,          \* the node that has its tasks executed
          cpu_load,        \* cpu_load[n]: the load in the peer table
          Exec,            \* bound: the calls of execute
          MaxRecords,      \* bound: records of one task
          None

ASSUME NodeAssumption ==
    Node \subseteq Nat /\ cpu_load \in [Node -> Nat] /\ Source \in Node

ASSUME BoundAssumption ==
    MaxRecords \in Nat \ {0} /\ IsFiniteSet(Exec) /\ None \notin Exec \cup Node

VARIABLES alive,       \* the peers that are ALIVE in the PeerTable
          node_id,     \* manager.node_id
          current,     \* current[t]: the record of t in `tasks', 0 if none
          record,      \* record[t][i]: the i-th record of t
          run,         \* run[e]: the e-th call of execute
          accepted,    \* accepted_results: the tasks with an accepted result
          disturbed    \* history: the records that were marked for retry, or
                       \* executed again, while an execution awaited

vars == <<alive, node_id, current, record, run, accepted, disturbed>>

States == {"PENDING", "RUNNING", "COMPLETED", "FAILED", "RETRY"}

\* result and error name the execution that set them.
Record ==
    [state : States, executing_node : Node \cup {None}, attempts : Nat,
     result : Exec \cup {None}, error : Exec \cup {None}]

NewRecord ==
    [state |-> "PENDING", executing_node |-> None, attempts |-> 0,
     result |-> None, error |-> None]

\* A call of execute: the record it holds, the node it started on, which of the
\* attempts on the record it is, and the node its answer names.
Run ==
    [phase : {"unused", "awaiting", "result", "error", "cancelled"},
     task : Task \cup {None}, rec : 0 .. MaxRecords, on : Node \cup {None},
     attempt : Nat, reply_node : Node \cup {None}]

Unused ==
    [phase |-> "unused", task |-> None, rec |-> 0, on |-> None,
     attempt |-> 0, reply_node |-> None]

Index == 1 .. MaxRecords

TypeOK ==
    /\ alive \in SUBSET Node
    /\ node_id \in Node
    /\ current \in [Task -> 0 .. MaxRecords]
    /\ record \in [Task -> [Index -> Record]]
    /\ run \in [Exec -> Run]
    /\ accepted \in SUBSET Task
    /\ disturbed \in SUBSET (Task \X Index)

Init ==
    /\ alive = Node
    /\ node_id \in Node \ {Source}
    /\ current = [t \in Task |-> 0]
    /\ record = [t \in Task |-> [i \in Index |-> NewRecord]]
    /\ run = [e \in Exec |-> Unused]
    /\ accepted = {}
    /\ disturbed = {}

-----------------------------------------------------------------------------
(* The peer table, and the choice of a replacement *)

\* PeerTable.upsert and remove, and the state a monitor writes into an entry.
SetAlive(n) ==
    /\ alive' = IF n \in alive THEN alive \ {n} ELSE alive \cup {n}
    /\ UNCHANGED <<node_id, current, record, run, accepted, disturbed>>

\* select_lowest_load, PeerTable.lowest_load: by load, then by identifier.
lowest_load(n) ==
    /\ n \in alive \ {Source}
    /\ \A m \in alive \ {Source} :
          \/ cpu_load[n] < cpu_load[m]
          \/ cpu_load[n] = cpu_load[m] /\ n <= m

\* The manager now executes for the replacement.  An execution that awaits
\* goes on, and will answer in the name of the replacement.
Reroute(n) ==
    /\ lowest_load(n)
    /\ node_id' = n
    /\ n # node_id
    /\ UNCHANGED <<alive, current, record, run, accepted, disturbed>>

-----------------------------------------------------------------------------
(* The tasks *)

\* An execution of record i of task t is awaiting its function.
Open(t, i) ==
    \E e \in Exec : run[e].phase = "awaiting" /\ run[e].task = t /\ run[e].rec = i

\* tasks.setdefault(task_id, TaskRecord(task_id))
SetDefault(t) == IF current[t] = 0 THEN 1 ELSE current[t]

create(t) ==
    /\ current[t] < MaxRecords
    /\ current' = [current EXCEPT ![t] = @ + 1]
    /\ record' = [record EXCEPT ![t][current[t] + 1] = NewRecord]
    /\ UNCHANGED <<alive, node_id, run, accepted, disturbed>>

\* What the end of execution e leaves in record r.
Ended(r, e, how) ==
    IF how = "result" THEN [r EXCEPT !.state = "COMPLETED", !.result = e]
                      ELSE [r EXCEPT !.state = "FAILED", !.error = e]

\* Mutant of Started: the attempts left are counted down.
StartedCountdown(r) ==
    [r EXCEPT !.state = "RUNNING", !.executing_node = node_id, !.attempts = @ - 1]

\* Mutant of Started: the owner is not recorded.
StartedUnowned(r) == [r EXCEPT !.state = "RUNNING", !.attempts = @ + 1]

\* What the start of an execution leaves in record r.
Started(r) ==
    [state |-> "RUNNING", executing_node |-> node_id,
     attempts |-> r.attempts + 1, result |-> r.result, error |-> r.error]

\* The call of execute that holds record i of task t.
Began(t, i, phase, reply_node) ==
    [phase |-> phase, task |-> t, rec |-> i, on |-> node_id,
     attempt |-> record[t][i].attempts + 1, reply_node |-> reply_node]

\* execute up to its await, or to its end if the function is no coroutine.
execute(e, t) ==
    LET i == SetDefault(t) IN
    /\ run[e].phase = "unused"
    /\ current' = [current EXCEPT ![t] = i]
    /\ disturbed' = IF Open(t, i) THEN disturbed \cup {<<t, i>>} ELSE disturbed
    /\ \/ /\ record' = [record EXCEPT ![t][i] = Started(@)]
          /\ run' = [run EXCEPT ![e] = Began(t, i, "awaiting", None)]
       \/ \E how \in {"result", "error"} :
             /\ record' = [record EXCEPT ![t][i] = Ended(Started(@), e, how)]
             /\ run' = [run EXCEPT ![e] = Began(t, i, how, node_id)]
    /\ UNCHANGED <<alive, node_id, accepted>>

\* Mutant of Resume: the record is looked up again after the await.
ResumeInCurrent(e, how) ==
    /\ run[e].phase = "awaiting"
    /\ record' = [record EXCEPT ![run[e].task][current[run[e].task]] =
                     Ended(@, e, how)]
    /\ run' = [run EXCEPT ![e] = [@ EXCEPT !.phase = how, !.reply_node = node_id]]
    /\ UNCHANGED <<alive, node_id, current, accepted, disturbed>>

\* Mutant of Resume: the record is given its owner at the end again.
ResumeReowned(e, how) ==
    /\ run[e].phase = "awaiting"
    /\ record' = [record EXCEPT ![run[e].task][run[e].rec] =
                     [Ended(@, e, how) EXCEPT !.executing_node = node_id]]
    /\ run' = [run EXCEPT ![e] = [@ EXCEPT !.phase = how, !.reply_node = node_id]]
    /\ UNCHANGED <<alive, node_id, current, accepted, disturbed>>

\* execute after its await: the record it holds, the manager's current node.
Resume(e, how) ==
    /\ run[e].phase = "awaiting"
    /\ record' = [record EXCEPT ![run[e].task][run[e].rec] = Ended(@, e, how)]
    /\ run' = [run EXCEPT ![e] = [@ EXCEPT !.phase = how, !.reply_node = node_id]]
    /\ UNCHANGED <<alive, node_id, current, accepted, disturbed>>

\* The task that runs execute is cancelled: CancelledError is no Exception, so
\* the record stays as it is.
Cancel(e) ==
    /\ run[e].phase = "awaiting"
    /\ run' = [run EXCEPT ![e] = [@ EXCEPT !.phase = "cancelled"]]
    /\ UNCHANGED <<alive, node_id, current, record, accepted, disturbed>>

mark_for_retry(t) ==
    LET i == SetDefault(t) IN
    /\ current' = [current EXCEPT ![t] = i]
    /\ record' = [record EXCEPT ![t][i] =
                    [@ EXCEPT !.state = "RETRY", !.executing_node = None]]
    /\ disturbed' = IF Open(t, i) THEN disturbed \cup {<<t, i>>} ELSE disturbed
    /\ UNCHANGED <<alive, node_id, run, accepted>>

\* The first result of a task is accepted, further ones are refused.  The result
\* is not looked at, nor whether there is a task of that name.
accept_result(t) ==
    /\ t \notin accepted
    /\ accepted' = accepted \cup {t}
    /\ UNCHANGED <<alive, node_id, current, record, run, disturbed>>

-----------------------------------------------------------------------------

Next ==
    \/ \E n \in Node : SetAlive(n) \/ Reroute(n)
    \/ \E t \in Task : create(t) \/ mark_for_retry(t) \/ accept_result(t)
    \/ \E e \in Exec, t \in Task : execute(e, t)
    \/ \E e \in Exec, how \in {"result", "error"} : Resume(e, how)
    \/ \E e \in Exec : Cancel(e)

Spec == Init /\ [][Next]_vars

-----------------------------------------------------------------------------
(* Properties *)

Holds(e, t, i) == run[e].phase # "unused" /\ run[e].task = t /\ run[e].rec = i

Holders(t, i) == {e \in Exec : Holds(e, t, i)}

\* The attempts of a record are the executions that hold it.
AttemptsCounted(t, i) == record[t][i].attempts = Cardinality(Holders(t, i))

\* The state of a record comes from one of the executions that hold it.
StateExplained(t, i) ==
    LET r == record[t][i] IN
    /\ r.state = "COMPLETED" =>
          r.result \in Holders(t, i) /\ run[r.result].phase = "result"
    /\ r.state = "FAILED" =>
          r.error \in Holders(t, i) /\ run[r.error].phase = "error"
    /\ r.state = "RUNNING" =>
          \E e \in Holders(t, i) : run[e].phase \in {"awaiting", "cancelled"}

\* A record says nothing that did not happen to it: every attempt, result and
\* error in it is of an execution that holds it, and RUNNING means that one of
\* them has not ended (only a cancelled execution leaves it so for ever).  So
\* an execution that outlives its record, because create replaced it, never
\* shows in the new one.
RecordExplained ==
    \A t \in Task, i \in Index : AttemptsCounted(t, i) /\ StateExplained(t, i)

RecordOf(e) == record[run[e].task][run[e].rec]

\* e is the one execution that awaits on its record.
AwaitsAlone(e) ==
    /\ RecordOf(e).state = "RUNNING"
    /\ \A d \in Holders(run[e].task, run[e].rec) :
          run[d].phase = "awaiting" => d = e

\* What the record of e says is of e.
Shows(e) ==
    \/ run[e].phase = "awaiting"
    \/ RecordOf(e).state = "COMPLETED" /\ RecordOf(e).result = e
    \/ RecordOf(e).state = "FAILED" /\ RecordOf(e).error = e

\* "task tracking and executing-node ownership" (readme.md 54): an execution
\* that nobody disturbs owns its record while it awaits, and when it has ended
\* the record names the node it ran on.  The condition is needed: after
\* mark_for_retry, or with a second execution, a record may be COMPLETED and
\* name no node or the wrong one.
OwnerIsExecutor ==
    \A e \in Exec :
        run[e].phase # "unused" /\ <<run[e].task, run[e].rec>> \notin disturbed =>
          /\ run[e].phase = "awaiting" => AwaitsAlone(e)
          /\ Shows(e) => RecordOf(e).executing_node = run[e].on

\* Execution e is the latest attempt on record i of task t.
LatestAttempt(e, t, i) ==
    /\ Holds(e, t, i)
    /\ run[e].attempt = record[t][i].attempts
    /\ \A d \in Holders(t, i) \ {e} : run[d].attempt < run[e].attempt

NamesLatestAttempt(t, i) ==
    LET r == record[t][i] IN
    /\ r.state \in {"PENDING", "RETRY"} => r.executing_node = None
    /\ r.state = "RUNNING" => r.executing_node # None
    /\ r.executing_node # None =>
          \E e \in Exec : LatestAttempt(e, t, i) /\ run[e].on = r.executing_node

\* Whose node a record names, also when executions overlap, are cancelled or
\* end after mark_for_retry, and the manager is given another node meanwhile:
\* the node its latest attempt started on, or nobody.  It is nobody's while
\* the record is PENDING or to be tried again, and somebody's while RUNNING.
\* So a record may show the result of one execution and the node of another,
\* but only if the other started later on the same record.
OwnerIsLatestAttempt ==
    \A t \in Task, i \in Index : NamesLatestAttempt(t, i)
=============================================================================
