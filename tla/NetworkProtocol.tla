-------------------------- MODULE NetworkProtocol ---------------------------
(***************************************************************************)
(* The UDP control plane (meshweaver/network.py): correlated requests over *)
(* a network that loses, duplicates and reorders datagrams.                *)
(*                                                                         *)
(* Every action is one piece of code the asyncio event loop runs without   *)
(* interruption: send_request up to its await, datagram_received with the  *)
(* handler it calls, connection_made and connection_lost, the timer that   *)
(* asyncio.wait_for arms, the cancellation of the calling task, and the    *)
(* resumption of send_request after the await.                             *)
(*                                                                         *)
(* A request is named by its UUID; its state is that of the one call of    *)
(* send_request that created it.  Left out: last_seen, which nothing       *)
(* reads, and the on_node_seen and on_message callbacks, which belong to   *)
(* the application.                                                        *)
(***************************************************************************)
EXTENDS Naturals, FiniteSets

CONSTANTS Node,        \* the nodes, each with its own NetworkProtocol
          ReqId,       \* the UUIDs; bound: one call of send_request each
          Load,        \* CPU loads
          OwnLoad,     \* the load each Node object is constructed with
          SelfSend,    \* whether callers address requests to their own node
          NoLoad,      \* a payload without a load
          NoMsg        \* no message

ASSUME LoadAssumption == OwnLoad \in [Node -> Load] /\ NoLoad \notin Load

Requests == {"PING", "HEARTBEAT", "TASK_ROUTE_REQUEST"}
Replies  == {"PONG", "HEARTBEAT_ACK", "ROUTE_CANDIDATE_RESPONSE"}

\* What the handler of a request answers with.
ReplyType(type) ==
    CASE type = "PING"               -> "PONG"
      [] type = "HEARTBEAT"          -> "HEARTBEAT_ACK"
      [] type = "TASK_ROUTE_REQUEST" -> "ROUTE_CANDIDATE_RESPONSE"

Message ==
    [type : Requests \cup Replies, sender : Node, to : Node,
     request_id : ReqId, cpu_load : Load \cup {NoLoad}]

ASSUME NoMsgAssumption == NoMsg \notin Message

VARIABLES
    transport,   \* transport[n]: "new", then "up", then "closed"
    pending,     \* pending[n]: the ids in pending_requests of n
    request,     \* request[r]: the message sent with id r, NoMsg if unused
    future,      \* future[r]: the state of the future of r
    answer,      \* answer[r]: the result set on that future
    interrupt,   \* interrupt[r]: "timeout" or "cancelled" once it struck
    outcome,     \* outcome[r]: how the call of send_request ended
    net,         \* the datagrams ever sent: each may still arrive, or not
    cpu_load     \* cpu_load[n]: node.cpu_load

vars == <<transport, pending, request, future, answer, interrupt, outcome,
          net, cpu_load>>

callVars == <<request, future, answer, interrupt, outcome>>

TypeOK ==
    /\ transport \in [Node -> {"new", "up", "closed"}]
    /\ pending \in [Node -> SUBSET ReqId]
    /\ request \in [ReqId -> Message \cup {NoMsg}]
    /\ future \in [ReqId -> {"none", "pending", "result", "exception",
                             "cancelled"}]
    /\ answer \in [ReqId -> Message \cup {NoMsg}]
    /\ interrupt \in [ReqId -> {"none", "timeout", "cancelled"}]
    /\ outcome \in [ReqId -> {"none", "waiting", "answered", "timeout",
                              "cancelled", "lost"}]
    /\ net \in SUBSET Message
    /\ cpu_load \in [Node -> Load]

Init ==
    /\ transport = [n \in Node |-> "new"]
    /\ pending = [n \in Node |-> {}]
    /\ request = [r \in ReqId |-> NoMsg]
    /\ future = [r \in ReqId |-> "none"]
    /\ answer = [r \in ReqId |-> NoMsg]
    /\ interrupt = [r \in ReqId |-> "none"]
    /\ outcome = [r \in ReqId |-> "none"]
    /\ net = {}
    /\ cpu_load = OwnLoad

-----------------------------------------------------------------------------
(* The transport *)

connection_made(n) ==
    /\ transport[n] = "new"
    /\ transport' = [transport EXCEPT ![n] = "up"]
    /\ UNCHANGED <<pending, callVars, net, cpu_load>>

\* Fails every future that is not done, then forgets them all.
connection_lost(n) ==
    /\ transport[n] = "up"
    /\ transport' = [transport EXCEPT ![n] = "closed"]
    /\ future' = [r \in ReqId |->
                    IF r \in pending[n] /\ future[r] = "pending"
                    THEN "exception" ELSE future[r]]
    /\ pending' = [pending EXCEPT ![n] = {}]
    /\ UNCHANGED <<request, answer, interrupt, outcome, net, cpu_load>>

-----------------------------------------------------------------------------
(* send_request *)

\* create_request: a fresh UUID, and the sender's load in a heartbeat.
NewRequest(n, to, type, r) ==
    [type |-> type, sender |-> n, to |-> to, request_id |-> r,
     cpu_load |-> IF type = "HEARTBEAT" THEN cpu_load[n] ELSE NoLoad]

\* send_request up to the await.  Without a transport _send raises, and the
\* entry just made in pending_requests is taken back before anyone sees it.
send_request(n, to, type, r) ==
    /\ request[r] = NoMsg
    /\ to = n => SelfSend
    /\ request' = [request EXCEPT ![r] = NewRequest(n, to, type, r)]
    /\ future' = [future EXCEPT ![r] = "pending"]
    /\ \/ /\ transport[n] = "up"
          /\ pending' = [pending EXCEPT ![n] = @ \cup {r}]
          /\ outcome' = [outcome EXCEPT ![r] = "waiting"]
          /\ net' = net \cup {NewRequest(n, to, type, r)}
       \/ /\ transport[n] # "up"
          /\ outcome' = [outcome EXCEPT ![r] = "lost"]
          /\ UNCHANGED <<pending, net>>
    /\ UNCHANGED <<transport, answer, interrupt, cpu_load>>

\* The timeout of wait_for, or the cancellation of the calling task.  Python
\* 3.12 cancels the future at once, older versions when the task resumes.
Interrupt(r, why) ==
    /\ outcome[r] = "waiting"
    /\ interrupt[r] = "none"
    /\ interrupt' = [interrupt EXCEPT ![r] = why]
    /\ \/ /\ future[r] = "pending"
          /\ future' = [future EXCEPT ![r] = "cancelled"]
       \/ UNCHANGED future
    /\ UNCHANGED <<transport, pending, request, answer, outcome, net, cpu_load>>

\* Mutant of TimerFires: only pings have a timeout.
TimerFiresForPing(r) ==
    /\ outcome[r] = "waiting"
    /\ request[r].type = "PING"
    /\ Interrupt(r, "timeout")

TimerFires(r) == Interrupt(r, "timeout")
CancelCall(r) == Interrupt(r, "cancelled")

\* How the await can end.  When a result and an interruption are both there,
\* it depends on the Python version which of them wins.
AwaitOutcomes(r) ==
    (IF future[r] = "result" THEN {"answered"} ELSE {})
      \cup (IF future[r] = "exception" THEN {"lost"} ELSE {})
      \cup ({interrupt[r]} \ {"none"})

\* Mutant of PopOnFailure: only a timeout drops the entry.
PopOnTimeout(r, out) ==
    pending' = IF out # "timeout"
               THEN pending
               ELSE [pending EXCEPT ![request[r].sender] = @ \ {r}]

\* The except clauses of send_request: every exception drops the entry.
PopOnFailure(r, out) ==
    pending' = IF out = "answered"
               THEN pending
               ELSE [pending EXCEPT ![request[r].sender] = @ \ {r}]

\* Mutant of Resume: the timeout is swallowed and the call returns nothing.
ResumeSwallowing(r) ==
    /\ outcome[r] = "waiting"
    /\ \E out \in AwaitOutcomes(r) :
          /\ outcome' = [outcome EXCEPT
                           ![r] = IF out = "timeout" THEN "answered" ELSE out]
          /\ PopOnFailure(r, out)
    /\ future' = [future EXCEPT ![r] = IF @ = "pending" THEN "cancelled" ELSE @]
    /\ UNCHANGED <<transport, request, answer, interrupt, net, cpu_load>>

\* send_request after the await.
Resume(r) ==
    /\ outcome[r] = "waiting"
    /\ \E out \in AwaitOutcomes(r) :
          /\ outcome' = [outcome EXCEPT ![r] = out]
          /\ PopOnFailure(r, out)
    /\ future' = [future EXCEPT ![r] = IF @ = "pending" THEN "cancelled" ELSE @]
    /\ UNCHANGED <<transport, request, answer, interrupt, net, cpu_load>>

-----------------------------------------------------------------------------
(* datagram_received *)

\* UDP: datagram m arrives, and may arrive again, at any time and after any
\* other, or never; `sent' are the datagrams sent while it is handled.
Arrives(m, sent) ==
    /\ m \in net
    /\ transport[m.to] = "up"
    /\ net' = net \cup sent
    /\ UNCHANGED transport

\* Mutant of Correlate: whether the future is done is not looked at.
CorrelateUnchecked(m) ==
    /\ Arrives(m, {})
    /\ m.request_id \in pending[m.to]
    /\ pending' = [pending EXCEPT ![m.to] = @ \ {m.request_id}]
    /\ future' = [future EXCEPT ![m.request_id] = "result"]
    /\ answer' = [answer EXCEPT ![m.request_id] = m]
    /\ UNCHANGED <<request, interrupt, outcome, cpu_load>>

\* Mutant of Correlate: the reply goes to any request that is pending.
CorrelateAny(m) ==
    /\ Arrives(m, {})
    /\ m.type \in Replies
    /\ \E r \in pending[m.to] :
          /\ pending' = [pending EXCEPT ![m.to] = @ \ {r}]
          /\ IF future[r] = "pending"
             THEN /\ future' = [future EXCEPT ![r] = "result"]
                  /\ answer' = [answer EXCEPT ![r] = m]
             ELSE UNCHANGED <<future, answer>>
    /\ UNCHANGED <<request, interrupt, outcome, cpu_load>>

\* The message is the reply to a request of this node: it goes to the future,
\* unless that is done, and to nobody else.
Correlate(m) ==
    /\ Arrives(m, {})
    /\ m.request_id \in pending[m.to]
    /\ pending' = [pending EXCEPT ![m.to] = @ \ {m.request_id}]
    /\ IF future[m.request_id] = "pending"
       THEN /\ future' = [future EXCEPT ![m.request_id] = "result"]
            /\ answer' = [answer EXCEPT ![m.request_id] = m]
       ELSE UNCHANGED <<future, answer>>
    /\ UNCHANGED <<request, interrupt, outcome, cpu_load>>

\* Mutant of Reply: the reply does not carry the id of the request.
ReplyWithoutId(m, load) ==
    [type |-> ReplyType(m.type), sender |-> m.to, to |-> m.sender,
     request_id |-> NoMsg, cpu_load |-> load]

\* create_message for the reply to m.
Reply(m, load) ==
    [type |-> ReplyType(m.type), sender |-> m.to, to |-> m.sender,
     request_id |-> m.request_id, cpu_load |-> load]

\* dispatch_message: the message is not a reply anybody here waits for.
Dispatch(m, type, sent) ==
    /\ m.type = type
    /\ Arrives(m, sent)
    /\ m.request_id \notin pending[m.to]
    /\ UNCHANGED <<pending, callVars>>

handle_ping(m) ==
    /\ Dispatch(m, "PING", {Reply(m, NoLoad)})
    /\ UNCHANGED cpu_load

\* Node.touch: the load of node n after it was given this one.
touch(n, load) == IF load = NoLoad THEN cpu_load[n] ELSE load

\* node.touch overwrites the receiver's load with the one in the heartbeat,
\* and the acknowledgement carries that load.
handle_heartbeat(m) ==
    /\ Dispatch(m, "HEARTBEAT", {Reply(m, touch(m.to, m.cpu_load))})
    /\ cpu_load' = [cpu_load EXCEPT ![m.to] = touch(m.to, m.cpu_load)]

\* The load in the request, which send_task_route_request leaves out, would be
\* echoed.  A request without a task_id is not answered: to its caller it is
\* one that never arrived.
handle_task_route_request(m) ==
    /\ Dispatch(m, "TASK_ROUTE_REQUEST",
                {Reply(m, IF m.cpu_load = NoLoad THEN cpu_load[m.to]
                                                 ELSE m.cpu_load)})
    /\ UNCHANGED cpu_load

\* A reply that nobody waits for any more (handle_pong, handle_heartbeat_ack,
\* handle_route_candidate_response).
HandleLateReply(m) ==
    /\ m.type \in Replies
    /\ Dispatch(m, m.type, {})
    /\ UNCHANGED cpu_load

datagram_received(m) ==
    \/ Correlate(m)
    \/ handle_ping(m)
    \/ handle_heartbeat(m)
    \/ handle_task_route_request(m)
    \/ HandleLateReply(m)

-----------------------------------------------------------------------------

Next ==
    \/ \E n \in Node : connection_made(n) \/ connection_lost(n)
    \/ \E n, to \in Node, type \in Requests, r \in ReqId :
          send_request(n, to, type, r)
    \/ \E r \in ReqId : TimerFires(r) \/ CancelCall(r) \/ Resume(r)
    \/ \E m \in net : datagram_received(m)

Spec == Init /\ [][Next]_vars

\* The event loop runs every armed timer and every task that is ready.
Fairness == \A r \in ReqId : WF_vars(TimerFires(r)) /\ WF_vars(Resume(r))

FairSpec == Spec /\ Fairness

-----------------------------------------------------------------------------
(* Properties *)

Done == {"result", "exception", "cancelled"}

\* pending_requests is exact although four parties change it.  An entry is
\* there only while its call is waiting, its sender is up and no result was
\* set, so none leaks; and a call whose future is open has its entry, so its
\* reply can still be told from an unsolicited message.
PendingIsExact ==
    /\ \A n \in Node : \A r \in pending[n] :
          /\ request[r] # NoMsg /\ request[r].sender = n
          /\ transport[n] = "up"
          /\ outcome[r] = "waiting"
          /\ future[r] \in {"pending", "cancelled"}
    /\ \A r \in ReqId :
          outcome[r] = "waiting" /\ future[r] = "pending"
            => r \in pending[request[r].sender]

\* A future is completed once: the late reply, the timeout, the cancellation
\* and connection_lost race for it, and the losers leave it alone (asyncio
\* would raise InvalidStateError inside the callback).
FutureWriteOnce ==
    [][\A r \in ReqId : future[r] \in Done =>
          future'[r] = future[r] /\ answer'[r] = answer[r]]_vars

\* m is what the addressee of request r answers.
IsReplyTo(m, r) ==
    /\ m.request_id = r
    /\ m.type = ReplyType(request[r].type)
    /\ m.sender = request[r].to
    /\ m.to = request[r].sender

\* "UUID request/response correlation" (readme.md 37): a call that returns
\* returns the reply to its own request, of the reply's type, from the node
\* the request was addressed to, in spite of duplicates and late replies.
AnswersCorrelate ==
    \A r \in ReqId : outcome[r] = "answered" =>
        answer[r] # NoMsg /\ IsReplyTo(answer[r], r)

-----------------------------------------------------------------------------
(* send_request implements RemoteCall *)

CallQuery ==
    [type : Requests, sender : Node, to : Node, request_id : ReqId,
     cpu_load : Load \cup {NoLoad}]

\* What the addressee of request q may answer.
Answers(q) ==
    [type : {ReplyType(q.type)}, sender : {q.to}, to : {q.sender},
     request_id : {q.request_id}, cpu_load : Load \cup {NoLoad}]

CallStatus ==
    [r \in ReqId |->
        CASE outcome[r] = "none"     -> "unused"
          [] outcome[r] = "waiting"  -> "open"
          [] outcome[r] = "answered" -> "returned"
          [] OTHER                   -> "raised"]

\* What the call returned; until then a result on the future is not out.
CallResult ==
    [r \in ReqId |-> IF outcome[r] = "answered" THEN answer[r] ELSE NoMsg]

Calls == INSTANCE RemoteCall
         WITH Query   <- CallQuery,
              Genuine <- [q \in CallQuery |-> Answers(q)],
              Nothing <- NoMsg,
              query   <- request,
              status  <- CallStatus,
              result  <- CallResult

\* send_request keeps the promise RemoteCall states: whatever happens to
\* datagrams, timers, futures and pending_requests, a caller sees a call that
\* ends once, for good, with an answer of the node it asked or an exception.
ImplementsRemoteCall == Calls!Spec

\* Every call of send_request ends, whatever the network loses.
EveryCallEnds ==
    \A r \in ReqId : outcome[r] = "waiting" ~> outcome[r] # "waiting"

\* What a call that returns has got: the reply, if it asked another node, and
\* its own request, if it asked its own.
AnswerOrEcho(m, r) ==
    IF request[r].to = request[r].sender THEN m = request[r] ELSE IsReplyTo(m, r)

\* Whether or not nodes address themselves: a call to another node returns the
\* reply to it, undisturbed by calls to oneself, and a call to oneself returns
\* nothing but its own request.
AnswersOrEchoes ==
    \A r \in ReqId : outcome[r] = "answered" =>
        answer[r] # NoMsg /\ AnswerOrEcho(answer[r], r)

\* What the proofs add to make the invariants inductive: an unused id has no
\* state, a request is what its caller sent, a datagram is a request or
\* the reply its addressee gave, and a result is as AnswerOrEcho says.  The
\* reply to a call to oneself is only made when nobody waits for it any more.
CallsConsistent ==
    \A r \in ReqId :
        /\ request[r] = NoMsg => future[r] = "none" /\ outcome[r] = "none"
        /\ request[r] # NoMsg => /\ request[r].request_id = r
                                 /\ request[r].type \in Requests
                                 /\ request[r].sender = request[r].to => SelfSend
        /\ future[r] = "result" => answer[r] # NoMsg /\ AnswerOrEcho(answer[r], r)
        /\ outcome[r] = "answered" => future[r] = "result"

NetConsistent ==
    \A m \in net :
        /\ request[m.request_id] # NoMsg
        /\ \/ m = request[m.request_id]
           \/ /\ IsReplyTo(m, m.request_id)
              /\ m.to = m.sender => m.request_id \notin pending[m.to]

\* "lowest-CPU selection" (readme.md 47) compares the loads of the nodes
\* themselves: what a node reports as its cpu_load is its own load.
LoadIsOwn == cpu_load = OwnLoad

=============================================================================
