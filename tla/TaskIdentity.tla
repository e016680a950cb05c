---------------------------- MODULE TaskIdentity ----------------------------
(***************************************************************************)
(* The identity of a node and the task messages signed with it: the key    *)
(* file (kademlia/identity.py), requests signed with the key pair          *)
(* (kademlia/signer.py, kademlia/verifier.py) and tasks signed with a      *)
(* shared secret (sign_message of protocol.py, through security.py and     *)
(* TaskManager.validate_signed_task), over encode_message and              *)
(* decode_message.                                                         *)
(*                                                                         *)
(* The process may die at any moment, also between the open and the close  *)
(* of the key file; a write may also fail in the middle and raise.  A      *)
(* message may reach the receiver as it was sent or with a field changed   *)
(* on the way.  SHA-256, HMAC and base64 are taken to be injective: a      *)
(* digest is the record of what went into it.                              *)
(***************************************************************************)
EXTENDS Naturals, Sequences, FiniteSets, SequencesExt

CONSTANTS PrivateKey,      \* what secrets.token_bytes may return
          Secret,          \* the secret of NodeIdentity
          Task,            \* task identifiers
          RequestId,
          PayloadKeys,     \* the sets of keys that payloads have
          TextRank,        \* TextRank[i]: the place of str(i) among the strings
          None,            \* no key, no message, no request_id
          MaxSigned        \* bound: the messages signed

ASSUME TaskIdentityAssumption ==
    /\ None \notin PrivateKey
    /\ MaxSigned \in Nat

VARIABLES keypair,     \* the private key the process holds, or None
          file,        \* the lines of the key file; none if there is no file
          saving,      \* the key save_keypair has opened the file for, or None
          fresh,       \* the keys that were not generated yet
          signed,      \* the messages that were signed, with the key
          inbox,       \* the decoded message a receiver looks at, or None
          durable,     \* history: the key of the last save that returned, None
                       \* once another save has opened the file
          tried,       \* history: the key of the last save that was begun
          loaded       \* history: the process has its key from the file

vars == <<keypair, file, saving, fresh, signed, inbox, durable, tried, loaded>>

-----------------------------------------------------------------------------
(* Keys *)

public_key(k) == [sha256 |-> k]

\* The shared secret is no public key.
ASSUME SecretAssumption == \A k \in PrivateKey : public_key(k) # Secret

node_id_from_keypair(k) == [sha256 |-> public_key(k)]

\* The lines of a key file.  A line that was cut off is none of the others.
Header == [line |-> "BEGIN"]
Footer == [line |-> "END"]
Body(k) == [line |-> "base64", key |-> k]
Torn == [line |-> "torn"]

content(k) == <<Header, Body(k), Footer>>

\* What a write that was cut off leaves of a content: some of its lines, and
\* perhaps a part of the next one.
Partial(lines) ==
    {SubSeq(lines, 1, n) : n \in 0 .. Len(lines) - 1}
      \cup {SubSeq(lines, 1, n) \o <<Torn>> : n \in 0 .. Len(lines) - 1}

\* list.index
FirstAt(lines, l, i) == lines[i] = l /\ \A j \in 1 .. i - 1 : lines[j] # l

\* What load_keypair makes of the lines; None stands for its ValueErrors, and
\* for its FileNotFoundError.
parse(lines) ==
    LET Holds(k) == \E h, f \in DOMAIN lines :
                       /\ FirstAt(lines, Header, h) /\ FirstAt(lines, Footer, f)
                       /\ h < f
                       /\ SubSeq(lines, h + 1, f - 1) = <<Body(k)>>
    IN  IF \E k \in PrivateKey : Holds(k)
        THEN CHOOSE k \in PrivateKey : Holds(k) ELSE None

\* Mutant of Opened: the file is opened for appending.
OpenedForAppend(f) == f

\* open(path, "w")
Opened(f) == << >>

Init ==
    /\ keypair = None /\ file = << >> /\ saving = None
    /\ fresh = PrivateKey
    /\ signed = {} /\ inbox = None
    /\ durable = None /\ tried = None /\ loaded = FALSE

\* Mutant of generate_keypair: the two keys are swapped.
generate_keypair_swapped(k) ==
    /\ saving = None /\ k \in fresh
    /\ keypair' = public_key(k) /\ fresh' = fresh \ {k} /\ loaded' = FALSE
    /\ UNCHANGED <<file, saving, signed, inbox, durable, tried>>

\* The process makes an identity, its first or a new one.  A pair made here
\* passes the checks of NodeKeyPair.__post_init__, for its public key is
\* derived from the private one; they are left out.
generate_keypair(k) ==
    /\ saving = None /\ k \in fresh
    /\ keypair' = k /\ fresh' = fresh \ {k} /\ loaded' = FALSE
    /\ UNCHANGED <<file, saving, signed, inbox, durable, tried>>

\* save_keypair up to the write.
SaveOpens ==
    /\ keypair # None /\ saving = None
    /\ saving' = keypair
    /\ file' = Opened(file)
    /\ durable' = None /\ tried' = keypair
    /\ UNCHANGED <<keypair, fresh, signed, inbox, loaded>>

SaveReturns ==
    /\ saving # None
    /\ file' = file \o content(saving)
    /\ saving' = None /\ durable' = saving
    /\ UNCHANGED <<keypair, fresh, signed, inbox, tried, loaded>>

\* The write or the close fails (OSError): the process keeps its key.
SaveRaises ==
    /\ saving # None
    /\ \E part \in Partial(content(saving)) \cup {content(saving)} :
          file' = file \o part
    /\ saving' = None
    /\ UNCHANGED <<keypair, fresh, signed, inbox, durable, tried, loaded>>

\* The process dies and a new one starts; a save is cut off at any point.
Crash ==
    /\ keypair' = None /\ saving' = None /\ loaded' = FALSE
    /\ \/ saving = None /\ file' = file
       \/ /\ saving # None
          /\ \E part \in Partial(content(saving)) \cup {content(saving)} :
                file' = file \o part
    /\ UNCHANGED <<fresh, signed, inbox, durable, tried>>

\* Mutant of load_keypair: a key pair of its own is made.
load_keypair_anew ==
    /\ saving = None
    /\ parse(file) # None
    /\ keypair' \in PrivateKey /\ loaded' = TRUE
    /\ UNCHANGED <<file, saving, fresh, signed, inbox, durable, tried>>

\* The process takes its identity from the file; if load_keypair raises,
\* nothing changes.
load_keypair ==
    /\ saving = None
    /\ parse(file) # None
    /\ keypair' = parse(file) /\ loaded' = TRUE
    /\ UNCHANGED <<file, saving, fresh, signed, inbox, durable, tried>>

-----------------------------------------------------------------------------
(* Messages *)

\* A payload is a dictionary: its keys, and whether they are integers or the
\* strings of these integers.
Payload == [ints : BOOLEAN, keys : PayloadKeys]

\* json.dumps with sort_keys: integers are sorted by value, strings by
\* character, and both are written as strings.
dumps(p) ==
    SetToSortSeq(p.keys, LAMBDA i, j : IF p.ints THEN i < j
                                       ELSE TextRank[i] < TextRank[j])

\* Mutant of canonical_payload: the signature is not left out.
canonical_with_signature(m) ==
    [type |-> m.type, sender_id |-> m.sender_id, task_id |-> m.task_id,
     payload |-> dumps(m.payload), signature |-> m.signature]

\* Mutant of canonical_payload: the task identifier is left out.
canonical_without_task(m) ==
    [type |-> m.type, sender_id |-> m.sender_id, payload |-> dumps(m.payload)]

canonical_payload(m) ==
    [type |-> m.type, sender_id |-> m.sender_id, task_id |-> m.task_id,
     payload |-> dumps(m.payload)]

\* Everything but the signature.
canonical_bytes(m) ==
    [type |-> m.type, sender_id |-> m.sender_id, task_id |-> m.task_id,
     payload |-> dumps(m.payload), request_id |-> m.request_id]

\* The `signature' of a message is a set: empty, or one HMAC.
hmac(key, bytes) == [key |-> key, over |-> bytes]

\* TaskSigner.sign_request
sign_request(m, k) ==
    [m EXCEPT !.signature = {hmac(public_key(k), canonical_payload(m))}]

sign_message(m, secret) ==
    [m EXCEPT !.signature = {hmac(secret, canonical_bytes(m))}]

\* SignatureVerifier.verify_request: a message of another type, or without a
\* signature, is refused.
verify_request(m, pub) ==
    /\ m.type = "TASK_REQUEST"
    /\ m.signature = {hmac(pub, canonical_payload(m))}

verify_message_signature(m, secret) ==
    m.signature = {hmac(secret, canonical_bytes(m))}

\* Every task that is sent has a task_id, so nothing else is looked at.
validate_signed_task(m, secret) == verify_message_signature(m, secret)

\* decode_message of what encode_message makes of m: the keys of a JSON object
\* are strings.
Received(m) == [m EXCEPT !.payload = [ints |-> FALSE, keys |-> m.payload.keys]]

\* Message m is signed with key, encoded and sent.
Send(key, m) ==
    /\ saving = None /\ Cardinality(signed) < MaxSigned
    /\ signed' = signed \cup {[key |-> key, msg |-> m]}
    /\ UNCHANGED <<keypair, file, saving, fresh, inbox, durable, tried, loaded>>

\* build_task_request, sign_request, encode_message
SendRequest(t, p) ==
    /\ keypair # None
    /\ Send(public_key(keypair),
            sign_request([type |-> "TASK_REQUEST", task_id |-> t, payload |-> p,
                          sender_id |-> node_id_from_keypair(keypair),
                          request_id |-> None, signature |-> {}], keypair))

\* NodeIdentity.sign of a TASK_SUBMIT, which carries its task_id in the payload.
SendSubmit(t, p, r) ==
    /\ keypair # None
    /\ Send(Secret,
            sign_message([type |-> "TASK_SUBMIT", task_id |-> t, payload |-> p,
                          sender_id |-> node_id_from_keypair(keypair),
                          request_id |-> r, signature |-> {}], Secret))

\* A message arrives with one of its fields changed or without its signature.
Altered(m) ==
    {[m EXCEPT !.type = y] : y \in {"TASK_REQUEST", "TASK_SUBMIT"}}
      \cup {[m EXCEPT !.task_id = t] : t \in Task}
      \cup {[m EXCEPT !.payload = [ints |-> FALSE, keys |-> q]] : q \in PayloadKeys}
      \cup {[m EXCEPT !.request_id = r] : r \in RequestId \cup {None}}
      \cup {[m EXCEPT !.sender_id = node_id_from_keypair(k)] : k \in PrivateKey}
      \cup {[m EXCEPT !.signature = {}]}

\* A message arrives, however late and however often.
Arrives ==
    /\ \E s \in signed : inbox' \in {Received(s.msg)} \cup Altered(Received(s.msg))
    /\ UNCHANGED <<keypair, file, saving, fresh, signed, durable, tried, loaded>>

-----------------------------------------------------------------------------

Next ==
    \/ \E k \in PrivateKey : generate_keypair(k)
    \/ SaveOpens \/ SaveReturns \/ SaveRaises \/ Crash \/ load_keypair
    \/ \E t \in Task, p \in Payload : SendRequest(t, p)
    \/ \E t \in Task, p \in Payload, r \in RequestId : SendSubmit(t, p, r)
    \/ Arrives

Spec == Init /\ [][Next]_vars

-----------------------------------------------------------------------------
(* Properties *)

Lines == {Header, Footer, Torn} \cup {Body(k) : k \in PrivateKey}

TypeOK ==
    /\ keypair \in PrivateKey \cup {None}
    /\ file \in Seq(Lines)
    /\ saving \in PrivateKey \cup {None}
    /\ fresh \in SUBSET PrivateKey
    /\ \A s \in signed : s.key = Secret \/ \E k \in PrivateKey : s.key = public_key(k)
    /\ durable \in PrivateKey \cup {None}
    /\ tried \in PrivateKey \cup {None}
    /\ loaded \in BOOLEAN

\* The identity survives a crash, and a file that was written in part is never
\* taken for a key: once save_keypair has returned, the file gives that key
\* until the next save opens it, and whatever it gives is the key of the last
\* save.  Between the open and the end of a save neither key can be loaded.
KeyFileSound ==
    /\ durable # None => parse(file) = durable
    /\ parse(file) # None => parse(file) = tried

\* Whether a receiver that has the key accepts m.
Accepts(m, key) ==
    IF key = Secret THEN validate_signed_task(m, key) ELSE verify_request(m, key)

\* The keys of the payload sort alike as integers and as strings.
SortsAlike(m) == dumps(m.payload) = dumps(Received(m).payload)

\* What a node signed is accepted by a receiver that has its key, after it was
\* encoded and decoded.  The condition is needed: the signature is made over
\* the dictionary before json.dumps turns its keys into strings.
GenuineAccepted ==
    \A s \in signed : SortsAlike(s.msg) => Accepts(Received(s.msg), s.key)

\* A node keeps its identity through crashes: what it signs with a key it
\* loaded is accepted by peers that have the public key of the last save that
\* returned, however many processes and failed saves there were before.
RestartedNodeTrusted ==
    [][loaded /\ durable # None =>
         \A s \in signed' \ signed :
            s.msg.type = "TASK_REQUEST" /\ SortsAlike(s.msg) =>
              verify_request(Received(s.msg), public_key(durable))]_vars

\* The message that was signed with key says what m says.
Covers(s, m, key) ==
    /\ s.key = key
    /\ s.msg.type = m.type /\ s.msg.sender_id = m.sender_id
    /\ s.msg.task_id = m.task_id /\ dumps(s.msg.payload) = dumps(m.payload)
    /\ key = Secret => s.msg.request_id = m.request_id

\* verifier.py 12: a message that was changed after signing is rejected: what
\* is accepted says what a message signed with that key said, the request_id
\* of a request excepted.
AcceptedWasSigned ==
    inbox # None =>
        \A key \in {Secret} \cup {public_key(k) : k \in PrivateKey} :
            Accepts(inbox, key) => \E s \in signed : Covers(s, inbox, key)
=============================================================================
