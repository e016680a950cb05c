------------------------------ MODULE FindNode ------------------------------
(***************************************************************************)
(* FindNodeHandler (meshweaver/kademlia/rpc.py): both sides of a FIND_NODE *)
(* exchange.  Every handler has a k of its own, which need not be the      *)
(* capacity of the buckets.                                                *)
(***************************************************************************)
EXTENDS PeerStore

\* The responder: the k contacts in its store that are nearest to the target.
handle_request(st, target, k) == find_closest(st.table, target, k)

\* Mutant of parse_response: the requester keeps all that it is sent.
parse_response_uncut(contacts, target, k) ==
    SortByDistance(Range(contacts), target)

\* The requester sorts and cuts again, with its own k.
parse_response(contacts, target, k) ==
    Truncate(SortByDistance(Range(contacts), target), k)

\* What a requester with handler's k = mine gets from a responder with store
\* st and k = its when it asks for the target.  On the wire a contact is its
\* hex identifier, host and port (contacts_to_dicts), which dicts_to_contacts
\* turns back into the same contact.
found_nodes(st, target, its, mine) ==
    parse_response(handle_request(st, target, its), target, mine)

=============================================================================
