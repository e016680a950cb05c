----------------------------- MODULE RemoteCall -----------------------------
(***************************************************************************)
(* What NetworkProtocol.send_request promises its caller, without a word   *)
(* about datagrams, futures, timers or pending_requests: a call is made    *)
(* once, stays open for a while, and ends once and for all, either with    *)
(* what the node it was addressed to answers to it or with an exception.   *)
(***************************************************************************)
CONSTANTS ReqId,           \* the names of the calls
          Query,           \* what can be asked
          Genuine,         \* Genuine[q]: the answers of the addressee to q
          Nothing          \* neither a query nor an answer

VARIABLES query,           \* query[r]: what call r asks
          status,          \* status[r]: "unused", "open", "returned", "raised"
          result           \* result[r]: what call r returned

vars == <<query, status, result>>

Init ==
    /\ query = [r \in ReqId |-> Nothing]
    /\ status = [r \in ReqId |-> "unused"]
    /\ result = [r \in ReqId |-> Nothing]

\* The call is made; it may fail on the spot.
Make(r) ==
    /\ status[r] = "unused"
    /\ \E s \in {"open", "raised"} : status' = [status EXCEPT ![r] = s]
    /\ \E q \in Query : query' = [query EXCEPT ![r] = q]
    /\ UNCHANGED result

Return(r) ==
    /\ status[r] = "open"
    /\ status' = [status EXCEPT ![r] = "returned"]
    /\ \E a \in Genuine[query[r]] : result' = [result EXCEPT ![r] = a]
    /\ UNCHANGED query

Raise(r) ==
    /\ status[r] = "open"
    /\ status' = [status EXCEPT ![r] = "raised"]
    /\ UNCHANGED <<query, result>>

Next == \E r \in ReqId : Make(r) \/ Return(r) \/ Raise(r)

Spec == Init /\ [][Next]_vars
=============================================================================
