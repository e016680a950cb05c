----------------------- MODULE NetworkProtocolProofs ------------------------
(***************************************************************************)
(* Invariants of the UDP control plane for any number of nodes, requests   *)
(* and loads, over a network that loses, duplicates and reorders           *)
(* datagrams, whether or not nodes address requests to themselves.  Only   *)
(* AnswersStayCorrelated and SendRequestImplementsRemoteCall suppose that  *)
(* they do not; AnswersAreRepliesOrEchoes says what holds without that.    *)
(***************************************************************************)
EXTENDS NetworkProtocol, TLAPS

\* The inductive invariant.
Inv == TypeOK /\ PendingIsExact /\ CallsConsistent /\ NetConsistent

(* Every request type has a reply type, and no type is both. *)
LEMMA ReplyTypes ==
    /\ \A t \in Requests : ReplyType(t) \in Replies
    /\ Requests \cap Replies = {}
PROOF BY DEF Requests, Replies, ReplyType

(* A reply is a message to the sender of the request. *)
LEMMA ReplyMessage ==
    ASSUME NEW m \in Message, m.type \in Requests, NEW l \in Load \cup {NoLoad}
    PROVE  /\ Reply(m, l) \in Message
           /\ Reply(m, l).request_id = m.request_id
           /\ Reply(m, l).type = ReplyType(m.type)
           /\ Reply(m, l).sender = m.to
           /\ Reply(m, l).to = m.sender
PROOF BY ReplyTypes DEF Message, Reply

(* Initially nothing is pending and nothing has been sent. *)
LEMMA InitInv == Init => Inv
PROOF
  BY LoadAssumption
     DEF Init, Inv, TypeOK, PendingIsExact, CallsConsistent, NetConsistent

(* Steps of the transport. *)
LEMMA TransportStep ==
    ASSUME Inv, NEW n \in Node, connection_made(n) \/ connection_lost(n)
    PROVE  Inv'
PROOF
  <1> USE DEF Inv
  <1>1. CASE connection_made(n)
    <2> USE <1>1 DEF connection_made, callVars
    <2>1. TypeOK'
      BY DEF TypeOK
    <2>2. PendingIsExact'
      BY DEF PendingIsExact, TypeOK
    <2>3. CallsConsistent' /\ NetConsistent'
      BY DEF CallsConsistent, NetConsistent, AnswerOrEcho, IsReplyTo
    <2> QED  BY <2>1, <2>2, <2>3
  <1>2. CASE connection_lost(n)
    <2> USE <1>2 DEF connection_lost
    <2>1. TypeOK'
      BY DEF TypeOK
    <2>2. PendingIsExact'
      <3>1. ASSUME NEW k \in Node, NEW r \in pending'[k]
            PROVE  /\ request'[r] # NoMsg /\ request'[r].sender = k
                   /\ transport'[k] = "up"
                   /\ outcome'[r] = "waiting"
                   /\ future'[r] \in {"pending", "cancelled"}
        <4>1. k # n /\ r \in pending[k] /\ r \in ReqId
          BY DEF TypeOK
        <4>2. r \notin pending[n]
          BY <4>1 DEF PendingIsExact
        <4> QED  BY <4>1, <4>2 DEF PendingIsExact, TypeOK
      <3>2. ASSUME NEW r \in ReqId, outcome'[r] = "waiting", future'[r] = "pending"
            PROVE  r \in pending'[request'[r].sender]
        <4>1. future[r] = "pending" /\ r \notin pending[n]
          BY <3>2
        <4>2. r \in pending[request[r].sender]
          BY <3>2, <4>1 DEF PendingIsExact
        <4>3. request[r] \in Message
          BY <3>2, <4>1 DEF TypeOK, CallsConsistent
        <4>4. request[r].sender \in Node /\ request[r].sender # n
          BY <4>1, <4>2, <4>3 DEF Message
        <4> QED  BY <4>2, <4>4 DEF TypeOK
      <3> QED  BY <3>1, <3>2 DEF PendingIsExact
    <2>3. CallsConsistent'
      BY DEF CallsConsistent, AnswerOrEcho, IsReplyTo, TypeOK
    <2>4. NetConsistent'
      <3>1. \A k \in Node : pending'[k] \subseteq pending[k]
        BY DEF TypeOK
      <3>2. \A m \in net : m.to \in Node
        BY DEF TypeOK, Message
      <3> QED  BY <3>1, <3>2 DEF NetConsistent, IsReplyTo
    <2> QED  BY <2>1, <2>2, <2>3, <2>4
  <1> QED  BY <1>1, <1>2

(* A new call of send_request. *)
LEMMA SendStep ==
    ASSUME Inv,
           NEW n \in Node, NEW to \in Node, NEW type \in Requests,
           NEW r \in ReqId, send_request(n, to, type, r)
    PROVE  Inv'
PROOF
  <1> USE DEF Inv
  <1> DEFINE msg == NewRequest(n, to, type, r)
  <1>1. /\ msg \in Message
        /\ msg.sender = n /\ msg.to = to /\ msg.request_id = r
        /\ msg.type = type
        /\ msg # NoMsg
    BY NoMsgAssumption DEF NewRequest, Message, TypeOK
  <1> HIDE DEF msg
  <1>2. /\ request[r] = NoMsg
        /\ to = n => SelfSend
        /\ request' = [request EXCEPT ![r] = msg]
        /\ future' = [future EXCEPT ![r] = "pending"]
        /\ UNCHANGED <<transport, answer, interrupt, cpu_load>>
        /\ \/ /\ transport[n] = "up"
              /\ pending' = [pending EXCEPT ![n] = @ \cup {r}]
              /\ outcome' = [outcome EXCEPT ![r] = "waiting"]
              /\ net' = net \cup {msg}
           \/ /\ transport[n] # "up"
              /\ outcome' = [outcome EXCEPT ![r] = "lost"]
              /\ UNCHANGED <<pending, net>>
    BY DEF send_request, msg
  <1>3. /\ \A k \in Node : r \notin pending[k]
        /\ \A m \in net : m.request_id # r
        /\ outcome[r] = "none"
    BY <1>2 DEF PendingIsExact, NetConsistent, CallsConsistent
  <1>4. TypeOK'
    BY <1>1, <1>2 DEF TypeOK
  <1>5. \A q \in ReqId : q # r =>
          /\ request'[q] = request[q] /\ future'[q] = future[q]
          /\ outcome'[q] = outcome[q]
          /\ \A k \in Node : q \in pending'[k] <=> q \in pending[k]
    BY <1>2 DEF TypeOK
  <1>6. /\ request'[r] = msg /\ future'[r] = "pending"
        /\ \/ outcome'[r] = "waiting" /\ transport[n] = "up"
              /\ \A k \in Node : r \in pending'[k] <=> k = n
           \/ outcome'[r] = "lost" /\ \A k \in Node : r \notin pending'[k]
    BY <1>2, <1>3 DEF TypeOK
  <1>7. PendingIsExact'
    <2>1. ASSUME NEW k \in Node, NEW q \in pending'[k]
          PROVE  /\ request'[q] # NoMsg /\ request'[q].sender = k
                 /\ transport'[k] = "up"
                 /\ outcome'[q] = "waiting"
                 /\ future'[q] \in {"pending", "cancelled"}
      <3>1. q \in ReqId
        BY <1>4 DEF TypeOK
      <3>2. CASE q = r
        BY <1>1, <1>2, <1>6, <3>2
      <3>3. CASE q # r
        BY <1>2, <1>5, <3>1, <3>3 DEF PendingIsExact
      <3> QED  BY <3>2, <3>3
    <2>2. ASSUME NEW q \in ReqId, outcome'[q] = "waiting", future'[q] = "pending"
          PROVE  q \in pending'[request'[q].sender]
      <3>1. CASE q = r
        BY <1>1, <1>6, <2>2, <3>1
      <3>2. CASE q # r
        <4>1. q \in pending[request[q].sender]
          BY <1>5, <2>2, <3>2 DEF PendingIsExact
        <4>2. request[q].sender \in Node
          BY <1>5, <2>2, <3>2 DEF CallsConsistent, TypeOK, Message
        <4> QED  BY <1>5, <3>2, <4>1, <4>2
      <3> QED  BY <3>1, <3>2
    <2> QED  BY <2>1, <2>2 DEF PendingIsExact
  <1>8. CallsConsistent'
    <2> SUFFICES ASSUME NEW q \in ReqId
                 PROVE
        /\ request'[q] = NoMsg => future'[q] = "none" /\ outcome'[q] = "none"
        /\ request'[q] # NoMsg => /\ request'[q].request_id = q
                                  /\ request'[q].type \in Requests
                                  /\ request'[q].sender = request'[q].to
                                        => SelfSend
        /\ future'[q] = "result" =>
              answer'[q] # NoMsg /\ AnswerOrEcho(answer[q], q)'
        /\ outcome'[q] = "answered" => future'[q] = "result"
      BY DEF CallsConsistent
    <2>1. CASE q = r
      BY <1>1, <1>2, <1>6, <2>1
    <2>2. CASE q # r
      BY <1>2, <1>5, <2>2 DEF CallsConsistent, AnswerOrEcho, IsReplyTo
    <2> QED  BY <2>1, <2>2
  <1>9. NetConsistent'
    <2> SUFFICES ASSUME NEW m \in net'
                 PROVE  /\ request'[m.request_id] # NoMsg
                        /\ \/ m = request'[m.request_id]
                           \/ /\ IsReplyTo(m, m.request_id)'
                              /\ m.to = m.sender =>
                                    m.request_id \notin pending'[m.to]
      BY DEF NetConsistent
    <2>1. CASE m = msg
      BY <1>1, <1>6, <2>1
    <2>2. CASE m # msg
      <3>1. m \in net /\ m.request_id # r /\ m.request_id \in ReqId
            /\ m.to \in Node
        BY <1>2, <1>3, <2>2 DEF TypeOK, Message
      <3> QED  BY <1>5, <3>1 DEF NetConsistent, IsReplyTo
    <2> QED  BY <2>1, <2>2
  <1> QED  BY <1>4, <1>7, <1>8, <1>9

(* The end of a call: its timer, its cancellation, its resumption. *)
LEMMA CallStep ==
    ASSUME Inv, NEW r \in ReqId, TimerFires(r) \/ CancelCall(r) \/ Resume(r)
    PROVE  Inv'
PROOF
  <1> USE DEF Inv
  <1>1. CASE TimerFires(r) \/ CancelCall(r)
    <2>1. PICK why \in {"timeout", "cancelled"} : Interrupt(r, why)
      BY <1>1 DEF TimerFires, CancelCall
    <2> USE <2>1 DEF Interrupt
    <2>2. TypeOK'
      BY DEF TypeOK
    <2>3. PendingIsExact'
      BY DEF PendingIsExact, TypeOK
    <2>4. CallsConsistent'
      BY DEF CallsConsistent, AnswerOrEcho, IsReplyTo, TypeOK
    <2>5. NetConsistent'
      BY DEF NetConsistent, IsReplyTo
    <2> QED  BY <2>2, <2>3, <2>4, <2>5
  <1>2. CASE Resume(r)
    <2>1. PICK out \in AwaitOutcomes(r) :
            /\ outcome' = [outcome EXCEPT ![r] = out]
            /\ PopOnFailure(r, out)
      BY <1>2 DEF Resume
    <2>2. /\ outcome[r] = "waiting"
          /\ future' = [future EXCEPT
                          ![r] = IF @ = "pending" THEN "cancelled" ELSE @]
          /\ UNCHANGED <<transport, request, answer, interrupt, net, cpu_load>>
      BY <1>2 DEF Resume
    <2>3. /\ out \in {"answered", "lost", "timeout", "cancelled"}
          /\ out = "answered" => future[r] = "result"
      BY DEF AwaitOutcomes, TypeOK
    <2>4. request[r] \in Message /\ request[r].sender \in Node
      BY <2>2 DEF CallsConsistent, TypeOK, Message
    <2>5. /\ pending' \in [Node -> SUBSET ReqId]
          /\ \A k \in Node : pending'[k] = pending[k] \ {r}
      <3>1. CASE out = "answered"
        <4>1. \A k \in Node : r \notin pending[k]
          BY <2>3, <3>1 DEF PendingIsExact
        <4> QED  BY <2>1, <3>1, <4>1 DEF PopOnFailure, TypeOK
      <3>2. CASE out # "answered"
        <4>1. \A k \in Node : r \in pending[k] => k = request[r].sender
          BY DEF PendingIsExact
        <4> QED  BY <2>1, <2>4, <3>2, <4>1 DEF PopOnFailure, TypeOK
      <3> QED  BY <3>1, <3>2
    <2>6. TypeOK'
      BY <2>1, <2>2, <2>3, <2>5 DEF TypeOK
    <2>7. PendingIsExact'
      <3>1. ASSUME NEW k \in Node, NEW q \in pending'[k]
            PROVE  /\ request'[q] # NoMsg /\ request'[q].sender = k
                   /\ transport'[k] = "up"
                   /\ outcome'[q] = "waiting"
                   /\ future'[q] \in {"pending", "cancelled"}
        <4>1. q \in pending[k] /\ q # r /\ q \in ReqId
          BY <2>5
        <4> QED  BY <2>1, <2>2, <4>1 DEF PendingIsExact, TypeOK
      <3>2. ASSUME NEW q \in ReqId, outcome'[q] = "waiting", future'[q] = "pending"
            PROVE  q \in pending'[request'[q].sender]
        <4>1. q # r
          BY <2>1, <2>3, <3>2 DEF TypeOK
        <4>2. outcome[q] = "waiting" /\ future[q] = "pending"
          BY <2>1, <2>2, <3>2, <4>1 DEF TypeOK
        <4>3. q \in pending[request[q].sender] /\ request[q].sender \in Node
          BY <4>2 DEF PendingIsExact, CallsConsistent, TypeOK, Message
        <4> QED  BY <2>2, <2>5, <4>1, <4>3
      <3> QED  BY <3>1, <3>2 DEF PendingIsExact
    <2>8. CallsConsistent'
      BY <2>1, <2>2, <2>3 DEF CallsConsistent, AnswerOrEcho, IsReplyTo, TypeOK
    <2>9. NetConsistent'
      <3>1. \A m \in net : m.to \in Node
        BY DEF TypeOK, Message
      <3> QED  BY <2>2, <2>5, <3>1 DEF NetConsistent, IsReplyTo
    <2> QED  BY <2>6, <2>7, <2>8, <2>9
  <1> QED  BY <1>1, <1>2

(* A reply reaches the call that waits for it.  A request does so only if  *)
(* its sender addressed itself; otherwise it arrives at another node than  *)
(* the one that keeps its id pending.                                      *)
LEMMA CorrelateStep ==
    ASSUME Inv, NEW m \in net, Correlate(m)
    PROVE  Inv'
PROOF
  <1> USE DEF Inv
  <1> DEFINE r == m.request_id
             n == m.to
  <1>1. m \in Message /\ r \in ReqId /\ n \in Node
    BY DEF TypeOK, Message
  <1>2. /\ r \in pending[n]
        /\ pending' = [pending EXCEPT ![n] = @ \ {r}]
        /\ IF future[r] = "pending"
           THEN /\ future' = [future EXCEPT ![r] = "result"]
                /\ answer' = [answer EXCEPT ![r] = m]
           ELSE UNCHANGED <<future, answer>>
        /\ UNCHANGED <<transport, request, interrupt, outcome, cpu_load>>
        /\ net' \subseteq net
    BY DEF Correlate, Arrives
  <1>3. AnswerOrEcho(m, r) /\ m # NoMsg
    <2>1. request[r].sender = n /\ request[r] # NoMsg
      BY <1>1, <1>2 DEF PendingIsExact
    <2>2. \/ m = request[r]
          \/ IsReplyTo(m, r) /\ (m.to = m.sender => r \notin pending[n])
      BY DEF NetConsistent
    <2>3. CASE request[r].to = request[r].sender
      BY <1>1, <1>2, <2>1, <2>2, <2>3, NoMsgAssumption DEF AnswerOrEcho, IsReplyTo
    <2>4. CASE request[r].to # request[r].sender
      BY <1>1, <2>1, <2>2, <2>4, NoMsgAssumption DEF AnswerOrEcho
    <2> QED  BY <2>3, <2>4
  <1> HIDE DEF r, n
  <1>4. TypeOK'
    BY <1>1, <1>2 DEF TypeOK
  <1>5. PendingIsExact'
    <2>1. \A k \in Node : r \in pending[k] => k = n
      BY <1>1, <1>2 DEF PendingIsExact
    <2>2. ASSUME NEW k \in Node, NEW q \in pending'[k]
          PROVE  /\ request'[q] # NoMsg /\ request'[q].sender = k
                 /\ transport'[k] = "up"
                 /\ outcome'[q] = "waiting"
                 /\ future'[q] \in {"pending", "cancelled"}
      <3>1. q \in pending[k] /\ q # r /\ q \in ReqId
        BY <1>1, <1>2, <2>1 DEF TypeOK
      <3>2. future'[q] = future[q]
        BY <1>1, <1>2, <3>1 DEF TypeOK
      <3> QED  BY <1>2, <3>1, <3>2 DEF PendingIsExact
    <2>3. ASSUME NEW q \in ReqId, outcome'[q] = "waiting", future'[q] = "pending"
          PROVE  q \in pending'[request'[q].sender]
      <3>1. future[q] = "pending" /\ q # r
        BY <1>1, <1>2, <2>3 DEF TypeOK
      <3>2. q \in pending[request[q].sender] /\ request[q].sender \in Node
        BY <1>2, <2>3, <3>1 DEF PendingIsExact, CallsConsistent, TypeOK, Message
      <3> QED  BY <1>1, <1>2, <3>1, <3>2 DEF TypeOK
    <2> QED  BY <2>2, <2>3 DEF PendingIsExact
  <1>6. CallsConsistent'
    <2> SUFFICES ASSUME NEW q \in ReqId
                 PROVE
        /\ request'[q] = NoMsg => future'[q] = "none" /\ outcome'[q] = "none"
        /\ request'[q] # NoMsg => /\ request'[q].request_id = q
                                  /\ request'[q].type \in Requests
                                  /\ request'[q].sender = request'[q].to
                                        => SelfSend
        /\ future'[q] = "result" =>
              answer'[q] # NoMsg /\ AnswerOrEcho(answer[q], q)'
        /\ outcome'[q] = "answered" => future'[q] = "result"
      BY DEF CallsConsistent
    <2>1. CASE q = r /\ future[r] = "pending"
      <3>1. future'[q] = "result" /\ answer'[q] = m /\ request[q] # NoMsg
        BY <1>1, <1>2, <2>1 DEF TypeOK, PendingIsExact
      <3>2. AnswerOrEcho(answer[q], q)'
        BY <1>2, <1>3, <2>1, <3>1 DEF AnswerOrEcho, IsReplyTo
      <3> QED  BY <1>2, <1>3, <2>1, <3>1, <3>2 DEF CallsConsistent
    <2>2. CASE ~(q = r /\ future[r] = "pending")
      <3>1. future'[q] = future[q] /\ answer'[q] = answer[q]
        BY <1>1, <1>2, <2>2 DEF TypeOK
      <3> QED  BY <1>2, <3>1 DEF CallsConsistent, AnswerOrEcho, IsReplyTo
    <2> QED  BY <2>1, <2>2
  <1>7. NetConsistent'
    <2>1. \A k \in Node : pending'[k] \subseteq pending[k]
      BY <1>1, <1>2 DEF TypeOK
    <2>2. \A x \in net : x.to \in Node
      BY DEF TypeOK, Message
    <2> QED  BY <1>2, <2>1, <2>2 DEF NetConsistent, IsReplyTo
  <1> QED  BY <1>4, <1>5, <1>6, <1>7

(* Any other datagram: it is answered if it is a request, and ignored       *)
(* otherwise.                                                              *)
LEMMA DispatchStep ==
    ASSUME Inv, NEW m \in net,
           \/ handle_ping(m) \/ handle_heartbeat(m)
           \/ handle_task_route_request(m) \/ HandleLateReply(m)
    PROVE  Inv'
PROOF
  <1> USE DEF Inv
  <1>1. m \in Message /\ m.request_id \in ReqId /\ m.to \in Node
        /\ m.cpu_load \in Load \cup {NoLoad}
    BY DEF TypeOK, Message
  <1>2. /\ UNCHANGED <<transport, pending, callVars>>
        /\ \/ net' \subseteq net
           \/ /\ m.type \in Requests
              /\ m.request_id \notin pending[m.to]
              /\ \E l \in Load \cup {NoLoad} : net' \subseteq net \cup {Reply(m, l)}
    <2>1. CASE handle_ping(m)
      BY <2>1 DEF handle_ping, Dispatch, Arrives, Requests
    <2>2. CASE handle_heartbeat(m)
      <3>1. touch(m.to, m.cpu_load) \in Load \cup {NoLoad}
        BY <1>1 DEF touch, TypeOK
      <3> QED  BY <2>2, <3>1 DEF handle_heartbeat, Dispatch, Arrives, Requests
    <2>3. CASE handle_task_route_request(m)
      BY <1>1, <2>3
         DEF handle_task_route_request, Dispatch, Arrives, Requests, TypeOK
    <2>4. CASE HandleLateReply(m)
      BY <2>4 DEF HandleLateReply, Dispatch, Arrives
    <2> QED  BY <2>1, <2>2, <2>3, <2>4
  <1>3. cpu_load' \in [Node -> Load]
    <2>1. touch(m.to, m.cpu_load) \in Load
      BY <1>1 DEF touch, TypeOK
    <2>2. cpu_load \in [Node -> Load]
      BY DEF TypeOK
    <2> QED  BY <1>1, <2>1, <2>2
             DEF handle_ping, handle_heartbeat, handle_task_route_request,
                 HandleLateReply
  <1>4. \A x \in net' : \/ x \in net
                        \/ /\ x \in Message
                           /\ request[x.request_id] # NoMsg
                           /\ IsReplyTo(x, x.request_id)
                           /\ x.to = x.sender =>
                                 x.request_id \notin pending[x.to]
    <2>1. CASE net' \subseteq net
      BY <2>1
    <2>2. ASSUME m.type \in Requests, m.request_id \notin pending[m.to],
                 NEW l \in Load \cup {NoLoad}, net' \subseteq net \cup {Reply(m, l)}
          PROVE  \A x \in net' : \/ x \in net
                                 \/ /\ x \in Message
                                    /\ request[x.request_id] # NoMsg
                                    /\ IsReplyTo(x, x.request_id)
                                    /\ x.to = x.sender =>
                                          x.request_id \notin pending[x.to]
      <3>1. /\ Reply(m, l) \in Message
            /\ Reply(m, l).request_id = m.request_id
            /\ Reply(m, l).type = ReplyType(m.type)
            /\ Reply(m, l).sender = m.to
            /\ Reply(m, l).to = m.sender
        BY <1>1, <2>2, ReplyMessage
      <3>2. /\ request[m.request_id] # NoMsg
            /\ request[m.request_id].type \in Requests
        BY <1>1 DEF NetConsistent, CallsConsistent
      <3>3. m = request[m.request_id]
        BY <2>2, <3>2, ReplyTypes DEF NetConsistent, IsReplyTo
      <3> QED  BY <2>2, <3>1, <3>2, <3>3 DEF IsReplyTo
    <2> QED  BY <1>2, <2>1, <2>2
  <1>5. TypeOK'
    BY <1>2, <1>3, <1>4 DEF TypeOK, callVars
  <1>6. PendingIsExact' /\ CallsConsistent'
    BY <1>2 DEF PendingIsExact, CallsConsistent, AnswerOrEcho, IsReplyTo, callVars
  <1>7. NetConsistent'
    BY <1>2, <1>4 DEF NetConsistent, IsReplyTo, callVars
  <1> QED  BY <1>5, <1>6, <1>7

(* Inv is inductive. *)
LEMMA NextInv ==
    ASSUME Inv, [Next]_vars
    PROVE  Inv'
PROOF
  <1>1. CASE Next
    BY <1>1, TransportStep, SendStep, CallStep, CorrelateStep, DispatchStep
       DEF Next, datagram_received
  <1>2. CASE UNCHANGED vars
    BY <1>2 DEF vars, Inv, TypeOK, PendingIsExact, CallsConsistent,
                NetConsistent, AnswerOrEcho, IsReplyTo
  <1> QED  BY <1>1, <1>2

-----------------------------------------------------------------------------
(* Theorems *)

(* All the variables of the control plane keep their types. *)
THEOREM TypeCorrect == Spec => []TypeOK
PROOF
  <1>1. Inv => TypeOK
    BY DEF Inv
  <1>2. Inv /\ [Next]_vars => Inv'
    BY NextInv
  <1> QED  BY <1>1, <1>2, InitInv, PTL DEF Spec

(* pending_requests never leaks an entry and never misses one, however     *)
(* replies, timeouts, cancellations and connection_lost interleave.        *)
THEOREM PendingStaysExact == Spec => []PendingIsExact
PROOF
  <1>1. Inv => PendingIsExact
    BY DEF Inv
  <1>2. Inv /\ [Next]_vars => Inv'
    BY NextInv
  <1> QED  BY <1>1, <1>2, InitInv, PTL DEF Spec

(* What a returned call has got when nodes may address themselves: a call  *)
(* to another node has the reply to it, whatever calls its sender makes to *)
(* itself; a call to the own node has its own request and never a reply.   *)
THEOREM AnswersAreRepliesOrEchoes == Spec => []AnswersOrEchoes
PROOF
  <1>1. Inv => AnswersOrEchoes
    BY DEF Inv, CallsConsistent, AnswersOrEchoes
  <1>2. Inv /\ [Next]_vars => Inv'
    BY NextInv
  <1> QED  BY <1>1, <1>2, InitInv, PTL DEF Spec

(* If nodes do not address themselves, every answer is a reply. *)
LEMMA NoEchoes ==
    ASSUME Inv, SelfSend = FALSE, NEW r \in ReqId, future[r] = "result"
    PROVE  answer[r] # NoMsg /\ IsReplyTo(answer[r], r)
PROOF
  <1>1. request[r] # NoMsg /\ answer[r] # NoMsg /\ AnswerOrEcho(answer[r], r)
    BY DEF Inv, CallsConsistent
  <1>2. request[r].sender # request[r].to
    BY <1>1 DEF Inv, CallsConsistent
  <1> QED  BY <1>1, <1>2 DEF AnswerOrEcho

(* send_request returns only the reply to its own request, from the node   *)
(* it was addressed to, as long as that is another node.                   *)
THEOREM AnswersStayCorrelated ==
    ASSUME SelfSend = FALSE
    PROVE  Spec => []AnswersCorrelate
PROOF
  <1>1. Inv => AnswersCorrelate
    BY NoEchoes DEF Inv, CallsConsistent, AnswersCorrelate
  <1>2. Inv /\ [Next]_vars => Inv'
    BY NextInv
  <1> QED  BY <1>1, <1>2, InitInv, PTL DEF Spec

(* No step of anyone touches a future that is done. *)
THEOREM FuturesWrittenOnce == Spec => FutureWriteOnce
PROOF
  <1> DEFINE Kept == \A r \in ReqId : future[r] \in Done =>
                        future'[r] = future[r] /\ answer'[r] = answer[r]
  <1>1. Inv /\ [Next]_vars => [Kept]_vars
    <2> SUFFICES ASSUME Inv, Next, NEW r \in ReqId, future[r] \in Done
                 PROVE  future'[r] = future[r] /\ answer'[r] = answer[r]
      OBVIOUS
    <2>0. TypeOK
      BY DEF Inv
    <2>1. CASE \E n \in Node : connection_made(n) \/ connection_lost(n)
      BY <2>0, <2>1 DEF connection_made, connection_lost, callVars, Done, TypeOK
    <2>2. CASE \E n, to \in Node, type \in Requests, q \in ReqId :
                  send_request(n, to, type, q)
      <3>1. PICK n \in Node, to \in Node, type \in Requests, q \in ReqId :
                  send_request(n, to, type, q)
        BY <2>2
      <3>2. q # r
        BY <3>1 DEF Inv, CallsConsistent, send_request, Done
      <3> QED  BY <2>0, <3>1, <3>2 DEF send_request, TypeOK
    <2>3. CASE \E q \in ReqId : TimerFires(q) \/ CancelCall(q) \/ Resume(q)
      BY <2>0, <2>3
         DEF TimerFires, CancelCall, Interrupt, Resume, Done, TypeOK
    <2>4. CASE \E m \in net : datagram_received(m)
      <3>1. PICK m \in net : datagram_received(m)
        BY <2>4
      <3>2. CASE Correlate(m)
        BY <2>0, <3>2 DEF Correlate, Done, TypeOK
      <3>3. CASE ~Correlate(m)
        BY <3>1, <3>3
           DEF datagram_received, handle_ping, handle_heartbeat,
               handle_task_route_request, HandleLateReply, Dispatch,
               callVars
      <3> QED  BY <3>2, <3>3
    <2> QED  BY <2>1, <2>2, <2>3, <2>4 DEF Next
  <1>2. Inv /\ [Next]_vars => Inv'
    BY NextInv
  <1> QED  BY <1>1, <1>2, InitInv, PTL DEF Spec, FutureWriteOnce

-----------------------------------------------------------------------------
(* send_request implements RemoteCall *)

(* A reply to request r is one of the answers RemoteCall allows. *)
LEMMA ReplyIsAnswer ==
    ASSUME NEW m \in Message, NEW r \in ReqId, request[r] # NoMsg,
           request[r].request_id = r, IsReplyTo(m, r)
    PROVE  m \in Answers(request[r])
PROOF BY DEF Message, Answers, IsReplyTo

(* Initially no call has been made. *)
LEMMA CallInit == Init => Calls!Init
PROOF BY DEF Init, Calls!Init, CallStatus, CallResult

(* A call of send_request is the making of a remote call. *)
LEMMA CallMake ==
    ASSUME Inv, NEW n \in Node, NEW to \in Node, NEW type \in Requests,
           NEW r \in ReqId, send_request(n, to, type, r)
    PROVE  Calls!Make(r)
PROOF
  <1>0. TypeOK /\ outcome[r] = "none"
    BY DEF Inv, CallsConsistent, send_request
  <1>1. CallStatus[r] = "unused"
    BY <1>0 DEF CallStatus
  <1>2. PICK s \in {"waiting", "lost"} : outcome' = [outcome EXCEPT ![r] = s]
    BY DEF send_request
  <1>3. \E st \in {"open", "raised"} :
           CallStatus' = [CallStatus EXCEPT ![r] = st]
    <2>1. CASE s = "waiting"
      <3>1. CallStatus' = [CallStatus EXCEPT ![r] = "open"]
        BY <1>0, <1>2, <2>1 DEF CallStatus, TypeOK
      <3> QED  BY <3>1
    <2>2. CASE s = "lost"
      <3>1. CallStatus' = [CallStatus EXCEPT ![r] = "raised"]
        BY <1>0, <1>2, <2>2 DEF CallStatus, TypeOK
      <3> QED  BY <3>1
    <2> QED  BY <2>1, <2>2
  <1>4. NewRequest(n, to, type, r) \in CallQuery
    BY <1>0 DEF NewRequest, CallQuery, TypeOK
  <1>5. CallResult' = CallResult
    BY <1>0, <1>2 DEF CallResult, send_request, TypeOK
  <1> QED  BY <1>1, <1>3, <1>4, <1>5 DEF Calls!Make, send_request

(* When send_request resumes, the remote call returns a genuine answer or  *)
(* raises.                                                                 *)
LEMMA CallEnd ==
    ASSUME Inv, SelfSend = FALSE, NEW r \in ReqId, Resume(r)
    PROVE  Calls!Return(r) \/ Calls!Raise(r)
PROOF
  <1>0. TypeOK /\ outcome[r] = "waiting"
    BY DEF Inv, Resume
  <1>1. CallStatus[r] = "open"
    BY <1>0 DEF CallStatus
  <1>2. PICK out \in AwaitOutcomes(r) : outcome' = [outcome EXCEPT ![r] = out]
    BY DEF Resume
  <1>3. out \in {"answered", "lost", "timeout", "cancelled"}
    BY <1>0, <1>2 DEF AwaitOutcomes, TypeOK
  <1>4. request' = request /\ answer' = answer
    BY DEF Resume
  <1>5. CASE out = "answered"
    <2>1. future[r] = "result"
      BY <1>0, <1>2, <1>5 DEF AwaitOutcomes, TypeOK
    <2>2. answer[r] \in Message /\ IsReplyTo(answer[r], r)
      BY <1>0, <2>1, NoEchoes DEF TypeOK
    <2>3. /\ request[r] # NoMsg /\ request[r].request_id = r
          /\ request[r] \in Message /\ request[r].type \in Requests
      BY <1>0 DEF Inv, CallsConsistent, TypeOK
    <2>4. answer[r] \in Answers(request[r])
      BY <2>2, <2>3, ReplyIsAnswer
    <2>5. request[r] \in CallQuery
      BY <2>3 DEF Message, CallQuery
    <2>6. answer[r] \in [q \in CallQuery |-> Answers(q)][request[r]]
      BY <2>4, <2>5
    <2>7. CallStatus' = [CallStatus EXCEPT ![r] = "returned"]
      BY <1>0, <1>2, <1>5 DEF CallStatus, TypeOK
    <2>8. CallResult' = [CallResult EXCEPT ![r] = answer[r]]
      BY <1>0, <1>2, <1>4, <1>5 DEF CallResult, TypeOK
    <2> QED  BY <1>1, <1>4, <2>6, <2>7, <2>8 DEF Calls!Return
  <1>6. CASE out # "answered"
    <2>1. CallStatus' = [CallStatus EXCEPT ![r] = "raised"]
      BY <1>0, <1>2, <1>3, <1>6 DEF CallStatus, TypeOK
    <2>2. CallResult' = CallResult
      BY <1>0, <1>2, <1>4, <1>6 DEF CallResult, TypeOK
    <2> QED  BY <1>1, <1>4, <2>1, <2>2 DEF Calls!Raise
  <1> QED  BY <1>5, <1>6

(* No other step is visible: a call that has returned keeps its answer.    *)
LEMMA CallStutter ==
    ASSUME Inv, request' = request, outcome' = outcome,
           \A r \in ReqId : future[r] = "result" => answer'[r] = answer[r]
    PROVE  UNCHANGED Calls!vars
PROOF
  <1>1. CallStatus' = CallStatus
    BY DEF CallStatus
  <1>2. CallResult' = CallResult
    BY DEF CallResult, Inv, CallsConsistent
  <1> QED  BY <1>1, <1>2 DEF Calls!vars

(* send_request, over a network that loses, duplicates and reorders, with  *)
(* timers, cancellations and lost transports, keeps the promise of         *)
(* RemoteCall: one final outcome, and an answer only from the node asked.  *)
THEOREM SendRequestImplementsRemoteCall ==
    ASSUME SelfSend = FALSE
    PROVE  Spec => ImplementsRemoteCall
PROOF
  <1>1. Inv /\ [Next]_vars => [Calls!Next]_Calls!vars
    <2> SUFFICES ASSUME Inv, [Next]_vars
                 PROVE  Calls!Next \/ UNCHANGED Calls!vars
      BY DEF Calls!vars
    <2>1. CASE \E n \in Node : connection_made(n) \/ connection_lost(n)
      BY <2>1, CallStutter DEF connection_made, connection_lost, callVars
    <2>2. CASE \E n, to \in Node, type \in Requests, r \in ReqId :
                  send_request(n, to, type, r)
      BY <2>2, CallMake DEF Calls!Next
    <2>3. CASE \E r \in ReqId : TimerFires(r) \/ CancelCall(r)
      BY <2>3, CallStutter DEF TimerFires, CancelCall, Interrupt
    <2>4. CASE \E r \in ReqId : Resume(r)
      BY <2>4, CallEnd DEF Calls!Next
    <2>5. CASE \E m \in net : datagram_received(m)
      <3>1. PICK m \in net : datagram_received(m)
        BY <2>5
      <3>2. CASE Correlate(m)
        <4>1. \A r \in ReqId : future[r] = "result" => answer'[r] = answer[r]
          BY <3>2 DEF Correlate, Inv, TypeOK
        <4> QED  BY <3>2, <4>1, CallStutter DEF Correlate
      <3>3. CASE ~Correlate(m)
        BY <3>1, <3>3, CallStutter
           DEF datagram_received, handle_ping, handle_heartbeat,
               handle_task_route_request, HandleLateReply, Dispatch,
               callVars
      <3> QED  BY <3>2, <3>3
    <2>6. CASE UNCHANGED vars
      BY <2>6, CallStutter DEF vars
    <2> QED  BY <2>1, <2>2, <2>3, <2>4, <2>5, <2>6 DEF Next
  <1>2. Inv /\ [Next]_vars => Inv'
    BY NextInv
  <1> QED
    BY <1>1, <1>2, InitInv, CallInit, PTL DEF Spec, ImplementsRemoteCall, Calls!Spec

=============================================================================
