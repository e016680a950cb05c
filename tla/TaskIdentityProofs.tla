------------------------ MODULE TaskIdentityProofs --------------------------
(***************************************************************************)
(* Proofs about module TaskIdentity, for any keys, tasks and payloads and  *)
(* any number of processes, saves and messages.                            *)
(*                                                                         *)
(* About the key file: FileShape says what the file looks like at every    *)
(* point of a save, LoadedKey that a loaded key is the saved one.  About   *)
(* the messages: SignedWell says what every signature was made of,         *)
(* InboxFrom where the message in the inbox has its signature from.        *)
(***************************************************************************)
EXTENDS TaskIdentity, SequenceTheorems, TLAPS

FileShape ==
    /\ saving # None => /\ file = << >> /\ saving = tried /\ keypair = saving
                        /\ durable = None
    /\ tried = None => file = << >>
    /\ saving = None /\ tried # None =>
          file = content(tried) \/ file \in Partial(content(tried))
    /\ durable # None => durable = tried /\ file = content(durable)

LoadedKey == loaded /\ durable # None => keypair = durable

\* m has the fields of a message and no others.
IsMessage(m) ==
    m = [type |-> m.type, task_id |-> m.task_id, payload |-> m.payload,
         sender_id |-> m.sender_id, request_id |-> m.request_id,
         signature |-> m.signature]

Keys == {Secret} \cup {public_key(k) : k \in PrivateKey}

SignedWell ==
    \A s \in signed :
        /\ s = [key |-> s.key, msg |-> s.msg]
        /\ IsMessage(s.msg) /\ s.key \in Keys
        /\ s.key = Secret =>
              s.msg.signature = {hmac(Secret, canonical_bytes(s.msg))}
        /\ s.key # Secret =>
              /\ s.msg.type = "TASK_REQUEST"
              /\ s.msg.signature = {hmac(s.key, canonical_payload(s.msg))}

InboxFrom ==
    inbox # None =>
        \E s \in signed : inbox.signature \in {s.msg.signature, {}}

Inv == TypeOK /\ FileShape /\ LoadedKey /\ SignedWell /\ InboxFrom

-----------------------------------------------------------------------------
(* The key file *)

\* A complete key file is a sequence of lines.
LEMMA ContentType ==
    ASSUME NEW k \in PrivateKey
    PROVE  /\ content(k) \in Seq(Lines) /\ Len(content(k)) = 3
           /\ content(k)[1] = Header /\ content(k)[2] = Body(k)
           /\ content(k)[3] = Footer
BY DEF content, Lines

\* The lines of a key file are all different.
LEMMA LinesDiffer ==
    ASSUME NEW k \in PrivateKey
    PROVE  Header # Footer /\ Header # Body(k) /\ Footer # Body(k) /\ Torn # Footer
BY DEF Header, Footer, Body, Torn

\* A key file that was written in part has no footer.
LEMMA PartialType ==
    ASSUME NEW k \in PrivateKey, NEW part \in Partial(content(k))
    PROVE  part \in Seq(Lines) /\ \A i \in DOMAIN part : part[i] # Footer
<1>1. Torn \in Lines
  BY DEF Lines
<1>2. ASSUME NEW n \in 0 .. 2
      PROVE  /\ SubSeq(content(k), 1, n) \in Seq(Lines)
             /\ Len(SubSeq(content(k), 1, n)) = n
             /\ \A i \in 1 .. n : SubSeq(content(k), 1, n)[i] # Footer
  <2>1. /\ SubSeq(content(k), 1, n) \in Seq(Lines)
        /\ Len(SubSeq(content(k), 1, n)) = n
        /\ \A i \in 1 .. n : SubSeq(content(k), 1, n)[i] = content(k)[i]
    BY ContentType
  <2>2. \A i \in 1 .. n : content(k)[i] # Footer
    BY ContentType, LinesDiffer
  <2> QED
    BY <2>1, <2>2
<1>3. CASE \E n \in 0 .. 2 : part = SubSeq(content(k), 1, n)
  BY <1>2, <1>3
<1>4. ASSUME NEW n \in 0 .. 2, part = SubSeq(content(k), 1, n) \o <<Torn>>
      PROVE  part \in Seq(Lines) /\ \A i \in DOMAIN part : part[i] # Footer
  <2> DEFINE q == SubSeq(content(k), 1, n)
  <2>1. q \in Seq(Lines) /\ Len(q) = n /\ \A i \in 1 .. n : q[i] # Footer
    BY <1>2
  <2> HIDE DEF q
  <2>2. part = q \o <<Torn>>
    BY <1>4 DEF q
  <2>3. part \in Seq(Lines) /\ Len(part) = n + 1
    BY <1>1, <2>1, <2>2
  <2>4. \A i \in 1 .. n + 1 : part[i] = IF i <= n THEN q[i] ELSE Torn
    BY <2>1, <2>2
  <2> QED
    BY <2>1, <2>3, <2>4, LinesDiffer
<1>5. \/ \E n \in 0 .. 2 : part = SubSeq(content(k), 1, n)
      \/ \E n \in 0 .. 2 : part = SubSeq(content(k), 1, n) \o <<Torn>>
  <2>1. 0 .. Len(content(k)) - 1 = 0 .. 2
    <3>1. Len(content(k)) = 3
      BY ContentType
    <3> QED
      BY <3>1
  <2> QED
    BY <2>1, Zenon DEF Partial
<1> QED
  BY <1>3, <1>4, <1>5

\* load_keypair returns the key of a complete file.
LEMMA ParseContent ==
    ASSUME NEW k \in PrivateKey
    PROVE  parse(content(k)) = k
<1> DEFINE lines == content(k)
           Has(j) == \E h, f \in DOMAIN lines :
                        /\ FirstAt(lines, Header, h) /\ FirstAt(lines, Footer, f)
                        /\ h < f
                        /\ SubSeq(lines, h + 1, f - 1) = <<Body(j)>>
<1>1. /\ lines \in Seq(Lines) /\ Len(lines) = 3 /\ lines[1] = Header
      /\ lines[2] = Body(k) /\ lines[3] = Footer
  BY ContentType
<1> HIDE DEF lines
<1>2. SubSeq(lines, 2, 2) = <<Body(k)>>
  <2>1. 2 \in 1 .. Len(lines) /\ 2 \in 2 .. Len(lines) /\ 3 \in Int /\ 2 \in Int /\ 2 < 3
    BY <1>1
  <2>2. SubSeq(lines, 2, 2) = <<lines[2]>> \o SubSeq(lines, 2 + 1, 2)
    BY <1>1, <2>1, SubSeqRecursiveFirst
  <2>3. SubSeq(lines, 3, 2) = << >>
    BY <2>1, SubSeqEmpty
  <2>4. <<Body(k)>> \o << >> = <<Body(k)>>
    <3>1. <<Body(k)>> \in Seq(Lines)
      BY DEF Lines
    <3> QED
      BY <3>1, ConcatEmptySeq
  <2>5. 2 + 1 = 3
    OBVIOUS
  <2> QED
    BY <1>1, <2>2, <2>3, <2>4, <2>5
<1>3. DOMAIN lines = {1, 2, 3}
  BY <1>1
<1>4. FirstAt(lines, Header, 1) /\ FirstAt(lines, Footer, 3)
  BY <1>1, LinesDiffer DEF FirstAt
<1>5. Has(k)
  BY <1>2, <1>3, <1>4
<1>6. ASSUME NEW j \in PrivateKey, Has(j)
      PROVE  j = k
  <2>1. PICK h \in DOMAIN lines, f \in DOMAIN lines :
           /\ lines[h] = Header /\ lines[f] = Footer
           /\ SubSeq(lines, h + 1, f - 1) = <<Body(j)>>
    BY <1>6 DEF FirstAt
  <2>2. h = 1 /\ f = 3
    BY <1>1, <1>3, <2>1, LinesDiffer
  <2>3. Body(j) = Body(k)
    BY <1>2, <2>1, <2>2
  <2> QED
    BY <2>3 DEF Body
<1>7. parse(lines) = IF \E j \in PrivateKey : Has(j)
                     THEN CHOOSE j \in PrivateKey : Has(j) ELSE None
  BY DEF parse
<1> HIDE DEF Has
<1>8. (CHOOSE j \in PrivateKey : Has(j)) = k
  BY <1>5, <1>6
<1> QED
  BY <1>5, <1>7, <1>8 DEF lines

\* load_keypair raises on a file without a footer.
LEMMA ParseNoFooter ==
    ASSUME NEW lines, \A i \in DOMAIN lines : lines[i] # Footer
    PROVE  parse(lines) = None
BY DEF parse, FirstAt

\* The file of a save that is over: complete, or cut off somewhere.
LEMMA FileAfterSave ==
    ASSUME NEW k \in PrivateKey,
           NEW part \in Partial(content(k)) \cup {content(k)}
    PROVE  << >> \o part = part /\ part \in Seq(Lines)
<1>1. part \in Seq(Lines)
  BY ContentType, PartialType
<1> QED
  BY <1>1, ConcatEmptySeq

\* The shape of the file decides what can be loaded.
LEMMA ShapeIsSound ==
    ASSUME TypeOK, FileShape
    PROVE  KeyFileSound
<1>1. CASE file = << >>
  <2>1. parse(file) = None
    BY <1>1, ParseNoFooter
  <2>2. durable = None
    <3>1. ASSUME durable # None PROVE FALSE
      <4>1. durable \in PrivateKey /\ file = content(durable)
        BY <3>1 DEF TypeOK, FileShape
      <4> QED
        BY <1>1, <2>1, <3>1, <4>1, ParseContent
    <3> QED
      BY <3>1
  <2> QED
    BY <2>1, <2>2 DEF KeyFileSound
<1>2. CASE file # << >>
  <2>1. tried \in PrivateKey /\ (file = content(tried) \/ file \in Partial(content(tried)))
    BY <1>2 DEF TypeOK, FileShape
  <2>2. file = content(tried) => parse(file) = tried
    BY <2>1, ParseContent
  <2>3. file \in Partial(content(tried)) => parse(file) = None
    BY <2>1, PartialType, ParseNoFooter
  <2>4. durable # None => file = content(tried) /\ durable = tried
    BY DEF FileShape
  <2> QED
    BY <2>1, <2>2, <2>3, <2>4 DEF KeyFileSound
<1> QED
  BY <1>1, <1>2

\* The actions on keys and on the key file.
KeyStep ==
    \/ \E k \in PrivateKey : generate_keypair(k)
    \/ SaveOpens \/ SaveReturns \/ SaveRaises \/ Crash \/ load_keypair

\* They keep the invariant.
LEMMA InvKeyStep ==
    ASSUME Inv, KeyStep
    PROVE  Inv'
<1> USE DEF TypeOK, FileShape, LoadedKey
<1>1. None \notin PrivateKey
  BY TaskIdentityAssumption
<1>2. TypeOK /\ FileShape /\ LoadedKey
  BY DEF Inv
<1>3. KeyFileSound
  BY <1>2, ShapeIsSound
<1>4. UNCHANGED <<signed, inbox>>
  BY DEF KeyStep, generate_keypair, SaveOpens, SaveReturns, SaveRaises, Crash,
         load_keypair
<1>5. SignedWell' /\ InboxFrom'
  BY <1>4 DEF Inv, SignedWell, InboxFrom
<1> SUFFICES TypeOK' /\ FileShape' /\ LoadedKey'
  BY <1>5 DEF Inv
<1>6. ASSUME saving # None
      PROVE  /\ saving \in PrivateKey /\ saving = tried /\ keypair = saving
             /\ file = << >>
             /\ \A part \in Partial(content(saving)) \cup {content(saving)} :
                   file \o part = part /\ part \in Seq(Lines)
  BY <1>2, <1>6, FileAfterSave
<1>7. ASSUME NEW k \in PrivateKey, generate_keypair(k)
      PROVE  TypeOK' /\ FileShape' /\ LoadedKey'
  BY <1>2, <1>7 DEF generate_keypair
<1>8. CASE SaveOpens
  BY <1>1, <1>2, <1>8 DEF SaveOpens, Opened
<1>9. CASE SaveReturns
  <2>1. /\ file' = content(saving) /\ file' \in Seq(Lines)
        /\ saving' = None /\ durable' = saving
        /\ UNCHANGED <<keypair, fresh, signed, inbox, tried, loaded>>
    BY <1>6, <1>9 DEF SaveReturns
  <2> QED
    BY <1>1, <1>2, <1>6, <1>9, <2>1 DEF SaveReturns
<1>10. CASE SaveRaises
  <2>1. /\ file' \in Partial(content(saving)) \cup {content(saving)}
        /\ file' \in Seq(Lines)
        /\ saving' = None
        /\ UNCHANGED <<keypair, fresh, signed, inbox, durable, tried, loaded>>
    BY <1>6, <1>10 DEF SaveRaises
  <2> QED
    BY <1>1, <1>2, <1>6, <1>10, <2>1 DEF SaveRaises
<1>11. CASE Crash
  <2>1. /\ keypair' = None /\ saving' = None /\ loaded' = FALSE
        /\ UNCHANGED <<fresh, signed, inbox, durable, tried>>
    BY <1>11 DEF Crash
  <2>2. CASE saving = None
    BY <1>1, <1>2, <1>11, <2>1, <2>2 DEF Crash
  <2>3. CASE saving # None
    <3>1. /\ file' \in Partial(content(saving)) \cup {content(saving)}
          /\ file' \in Seq(Lines)
      BY <1>6, <1>11, <2>3 DEF Crash
    <3> QED
      BY <1>1, <1>2, <1>6, <2>1, <2>3, <3>1
  <2> QED
    BY <2>2, <2>3
<1>12. CASE load_keypair
  BY <1>1, <1>2, <1>3, <1>12 DEF load_keypair, KeyFileSound
<1> QED
  BY <1>7, <1>8, <1>9, <1>10, <1>11, <1>12 DEF KeyStep

-----------------------------------------------------------------------------
(* The messages *)

\* What signing and sending add to `signed'.
LEMMA SendEffect ==
    ASSUME Inv, NEW key, NEW m, Send(key, m),
           key \in Keys, IsMessage(m),
           key = Secret => m.signature = {hmac(Secret, canonical_bytes(m))},
           key # Secret => /\ m.type = "TASK_REQUEST"
                           /\ m.signature = {hmac(key, canonical_payload(m))}
    PROVE  Inv'
<1>1. /\ signed' = signed \cup {[key |-> key, msg |-> m]}
      /\ UNCHANGED <<keypair, file, saving, fresh, inbox, durable, tried, loaded>>
  BY DEF Send
<1>2. TypeOK'
  BY <1>1 DEF Inv, TypeOK, Keys
<1>3. FileShape' /\ LoadedKey'
  BY <1>1 DEF Inv, FileShape, LoadedKey
<1>4. SignedWell'
  BY <1>1 DEF Inv, SignedWell
<1>5. InboxFrom'
  BY <1>1 DEF Inv, InboxFrom
<1> QED
  BY <1>2, <1>3, <1>4, <1>5 DEF Inv

\* The message that sign_request returns: its signature is over itself.
LEMMA RequestSigned ==
    ASSUME NEW t, NEW p, NEW k \in PrivateKey
    PROVE  LET m == sign_request(
                      [type |-> "TASK_REQUEST", task_id |-> t, payload |-> p,
                       sender_id |-> node_id_from_keypair(k),
                       request_id |-> None, signature |-> {}], k)
           IN  /\ IsMessage(m) /\ m.type = "TASK_REQUEST"
               /\ m.signature = {hmac(public_key(k), canonical_payload(m))}
BY DEF sign_request, IsMessage, canonical_payload

\* The message that NodeIdentity.sign returns: its signature is over itself.
LEMMA SubmitSigned ==
    ASSUME NEW t, NEW p, NEW r, NEW k \in PrivateKey
    PROVE  LET m == sign_message(
                      [type |-> "TASK_SUBMIT", task_id |-> t, payload |-> p,
                       sender_id |-> node_id_from_keypair(k),
                       request_id |-> r, signature |-> {}], Secret)
           IN  /\ IsMessage(m)
               /\ m.signature = {hmac(Secret, canonical_bytes(m))}
BY DEF sign_message, IsMessage, canonical_bytes

\* Sending a request keeps the invariant.
LEMMA InvSendRequest ==
    ASSUME Inv, NEW t \in Task, NEW p \in Payload, SendRequest(t, p)
    PROVE  Inv'
<1> DEFINE m == sign_request(
                  [type |-> "TASK_REQUEST", task_id |-> t, payload |-> p,
                   sender_id |-> node_id_from_keypair(keypair),
                   request_id |-> None, signature |-> {}], keypair)
<1>1. keypair \in PrivateKey
  BY DEF Inv, TypeOK, SendRequest
<1>2. public_key(keypair) \in Keys /\ public_key(keypair) # Secret
  BY <1>1, SecretAssumption DEF Keys
<1>3. Send(public_key(keypair), m)
  BY DEF SendRequest
<1>4. /\ IsMessage(m) /\ m.type = "TASK_REQUEST"
      /\ m.signature = {hmac(public_key(keypair), canonical_payload(m))}
  BY <1>1, RequestSigned
<1> HIDE DEF m
<1> QED
  BY <1>2, <1>3, <1>4, SendEffect

\* Sending a TASK_SUBMIT keeps the invariant.
LEMMA InvSendSubmit ==
    ASSUME Inv, NEW t \in Task, NEW p \in Payload, NEW r \in RequestId,
           SendSubmit(t, p, r)
    PROVE  Inv'
<1> DEFINE m == sign_message(
                  [type |-> "TASK_SUBMIT", task_id |-> t, payload |-> p,
                   sender_id |-> node_id_from_keypair(keypair),
                   request_id |-> r, signature |-> {}], Secret)
<1>1. keypair \in PrivateKey /\ Secret \in Keys
  BY DEF Inv, TypeOK, SendSubmit, Keys
<1>2. Send(Secret, m)
  BY DEF SendSubmit
<1>3. /\ IsMessage(m)
      /\ m.signature = {hmac(Secret, canonical_bytes(m))}
  BY <1>1, SubmitSigned
<1> HIDE DEF m
<1> QED
  BY <1>1, <1>2, <1>3, SendEffect

\* Decoding keeps the fields, but for the kind of the payload's keys.
LEMMA ReceivedFields ==
    ASSUME NEW m, IsMessage(m)
    PROVE  /\ IsMessage(Received(m))
           /\ Received(m).type = m.type /\ Received(m).task_id = m.task_id
           /\ Received(m).sender_id = m.sender_id
           /\ Received(m).request_id = m.request_id
           /\ Received(m).signature = m.signature
<1> DEFINE q == [ints |-> FALSE, keys |-> m.payload.keys]
<1>1. m = [type |-> m.type, task_id |-> m.task_id, payload |-> m.payload,
           sender_id |-> m.sender_id, request_id |-> m.request_id,
           signature |-> m.signature]
  BY DEF IsMessage
<1>2. Received(m) = [m EXCEPT !.payload = q]
  BY DEF Received
<1> HIDE DEF q
<1>3. [m EXCEPT !.payload = q] =
        [type |-> m.type, task_id |-> m.task_id, payload |-> q,
         sender_id |-> m.sender_id, request_id |-> m.request_id,
         signature |-> m.signature]
  BY <1>1
<1> QED
  BY <1>2, <1>3 DEF IsMessage

\* A message that is changed on the way keeps its signature or loses it.
LEMMA AlteredSignature ==
    ASSUME NEW m, IsMessage(m), NEW a \in Altered(m)
    PROVE  a.signature \in {m.signature, {}}
<1> DEFINE Same == m.signature
<1>1. \A y : [m EXCEPT !.type = y].signature = Same
  BY DEF IsMessage
<1>2. \A y : [m EXCEPT !.task_id = y].signature = Same
  BY DEF IsMessage
<1>3. \A y : [m EXCEPT !.payload = y].signature = Same
  BY DEF IsMessage
<1>4. \A y : [m EXCEPT !.request_id = y].signature = Same
  BY DEF IsMessage
<1>5. \A y : [m EXCEPT !.sender_id = y].signature = Same
  BY DEF IsMessage
<1>6. [m EXCEPT !.signature = {}].signature = {}
  BY DEF IsMessage
<1> HIDE DEF Same
<1> QED
  BY <1>1, <1>2, <1>3, <1>4, <1>5, <1>6 DEF Altered, Same

\* The arrival of a message keeps the invariant.
LEMMA InvArrives ==
    ASSUME Inv, Arrives
    PROVE  Inv'
<1>1. PICK s \in signed :
        inbox' \in {Received(s.msg)} \cup Altered(Received(s.msg))
  BY DEF Arrives
<1>2. IsMessage(s.msg)
  BY DEF Inv, SignedWell
<1>3. IsMessage(Received(s.msg)) /\ Received(s.msg).signature = s.msg.signature
  BY <1>2, ReceivedFields
<1>4. inbox'.signature \in {s.msg.signature, {}}
  BY <1>1, <1>3, AlteredSignature
<1>5. InboxFrom'
  BY <1>4 DEF InboxFrom, Arrives
<1>6. TypeOK' /\ FileShape' /\ LoadedKey' /\ SignedWell'
  BY DEF Inv, TypeOK, FileShape, LoadedKey, SignedWell, Arrives
<1> QED
  BY <1>5, <1>6 DEF Inv

\* The initial state satisfies the invariant.
LEMMA InvInit == Init => Inv
<1> SUFFICES ASSUME Init PROVE Inv
  OBVIOUS
<1>1. << >> \in Seq(Lines)
  OBVIOUS
<1>2. TypeOK
  BY <1>1 DEF Init, TypeOK
<1>3. FileShape /\ LoadedKey
  BY DEF Init, FileShape, LoadedKey
<1>4. SignedWell /\ InboxFrom
  BY DEF Init, SignedWell, InboxFrom
<1> QED
  BY <1>2, <1>3, <1>4 DEF Inv

\* Every step keeps the invariant.
LEMMA InvNext == Inv /\ [Next]_vars => Inv'
<1> SUFFICES ASSUME Inv, [Next]_vars PROVE Inv'
  OBVIOUS
<1>1. CASE KeyStep
  BY <1>1, InvKeyStep
<1>2. CASE \E t \in Task, p \in Payload : SendRequest(t, p)
  <2>1. PICK t \in Task, p \in Payload : SendRequest(t, p)
    BY <1>2
  <2> QED
    BY <2>1, InvSendRequest
<1>3. CASE \E t \in Task, p \in Payload, r \in RequestId : SendSubmit(t, p, r)
  BY <1>3, InvSendSubmit
<1>4. CASE Arrives
  BY <1>4, InvArrives
<1>5. CASE UNCHANGED vars
  BY <1>5 DEF vars, Inv, TypeOK, FileShape, LoadedKey, SignedWell, InboxFrom
<1> QED
  BY <1>1, <1>2, <1>3, <1>4, <1>5 DEF Next, KeyStep

-----------------------------------------------------------------------------
(* The theorems *)

\* The inductive invariant holds in every reachable state.
THEOREM Safe == Spec => []Inv
BY InvInit, InvNext, PTL DEF Spec

\* Every variable of TaskIdentity has its type in every reachable state.
THEOREM TypeCorrect == Spec => []TypeOK
<1>1. Inv => TypeOK
  BY DEF Inv
<1> QED
  BY <1>1, Safe, PTL

\* A saved identity can be loaded until the next save opens the file, and a
\* file that was written in part is never taken for a key.
THEOREM KeyFileStaysSound == Spec => []KeyFileSound
<1>1. Inv => KeyFileSound
  BY ShapeIsSound DEF Inv
<1> QED
  BY <1>1, Safe, PTL

\* Equal text of the payload makes equal canonical forms.
LEMMA CanonicalSame ==
    ASSUME NEW m, IsMessage(m), SortsAlike(m)
    PROVE  /\ canonical_payload(Received(m)) = canonical_payload(m)
           /\ canonical_bytes(Received(m)) = canonical_bytes(m)
BY ReceivedFields DEF SortsAlike, canonical_payload, canonical_bytes

\* What was signed is accepted after encoding and decoding.
LEMMA SignedIsAccepted ==
    ASSUME Inv, NEW s \in signed, SortsAlike(s.msg)
    PROVE  Accepts(Received(s.msg), s.key)
<1>1. /\ IsMessage(s.msg) /\ s.key \in Keys
      /\ s.key = Secret =>
            s.msg.signature = {hmac(Secret, canonical_bytes(s.msg))}
      /\ s.key # Secret =>
            /\ s.msg.type = "TASK_REQUEST"
            /\ s.msg.signature = {hmac(s.key, canonical_payload(s.msg))}
  BY DEF Inv, SignedWell
<1>2. /\ Received(s.msg).signature = s.msg.signature
      /\ Received(s.msg).type = s.msg.type
  BY <1>1, ReceivedFields
<1> QED
  BY <1>1, <1>2, CanonicalSame DEF Accepts, validate_signed_task,
      verify_message_signature, verify_request

\* Whatever a node signed is accepted by whoever has the key, if the keys of
\* its payload sort alike as integers and as strings.
THEOREM GenuineIsAccepted == Spec => []GenuineAccepted
<1>1. Inv => GenuineAccepted
  BY SignedIsAccepted DEF GenuineAccepted
<1> QED
  BY <1>1, Safe, PTL

\* Nothing is accepted that was not signed as it stands.
THEOREM OnlySignedAccepted == Spec => []AcceptedWasSigned
<1>1. ASSUME Inv, inbox # None, NEW key \in Keys, Accepts(inbox, key)
      PROVE  \E s \in signed : Covers(s, inbox, key)
  <2>1. PICK s \in signed : inbox.signature \in {s.msg.signature, {}}
    BY <1>1 DEF Inv, InboxFrom
  <2>2. /\ s.key \in Keys
        /\ s.key = Secret =>
              s.msg.signature = {hmac(Secret, canonical_bytes(s.msg))}
        /\ s.key # Secret =>
              /\ s.msg.type = "TASK_REQUEST"
              /\ s.msg.signature = {hmac(s.key, canonical_payload(s.msg))}
    BY <1>1 DEF Inv, SignedWell
  <2>3. CASE key = Secret
    <3>1. inbox.signature = {hmac(Secret, canonical_bytes(inbox))}
      BY <1>1, <2>3 DEF Accepts, validate_signed_task,
          verify_message_signature
    <3>2. inbox.signature = s.msg.signature
      BY <2>1, <3>1
    <3>3. s.key = Secret
      <4>1. s.key # Secret => hmac(s.key, canonical_payload(s.msg)) =
                              hmac(Secret, canonical_bytes(inbox))
        BY <2>2, <3>1, <3>2
      <4> QED
        BY <4>1 DEF hmac
    <3>4. canonical_bytes(s.msg) = canonical_bytes(inbox)
      <4>1. hmac(Secret, canonical_bytes(s.msg)) = hmac(Secret, canonical_bytes(inbox))
        BY <2>2, <3>1, <3>2, <3>3
      <4> QED
        BY <4>1 DEF hmac
    <3> QED
      BY <2>3, <3>3, <3>4 DEF Covers, canonical_bytes
  <2>4. CASE key # Secret
    <3>1. inbox.signature = {hmac(key, canonical_payload(inbox))}
      BY <1>1, <2>4 DEF Accepts, verify_request
    <3>2. inbox.signature = s.msg.signature
      BY <2>1, <3>1
    <3>3. s.key = key
      <4>1. s.key = Secret => hmac(Secret, canonical_bytes(s.msg)) =
                              hmac(key, canonical_payload(inbox))
        BY <2>2, <3>1, <3>2
      <4>2. s.key # Secret => hmac(s.key, canonical_payload(s.msg)) =
                              hmac(key, canonical_payload(inbox))
        BY <2>2, <3>1, <3>2
      <4> QED
        BY <2>4, <4>1, <4>2 DEF hmac
    <3>4. canonical_payload(s.msg) = canonical_payload(inbox)
      <4>1. hmac(key, canonical_payload(s.msg)) = hmac(key, canonical_payload(inbox))
        BY <2>2, <2>4, <3>1, <3>2, <3>3
      <4> QED
        BY <4>1 DEF hmac
    <3> QED
      BY <2>4, <3>3, <3>4 DEF Covers, canonical_payload
  <2> QED
    BY <2>3, <2>4
<1>2. Inv => AcceptedWasSigned
  BY <1>1 DEF AcceptedWasSigned, Keys
<1> QED
  BY <1>2, Safe, PTL

\* A node that has loaded its key signs as the node that was saved.
THEOREM RestartedNodesTrusted == Spec => RestartedNodeTrusted
<1> DEFINE Step ==
             loaded /\ durable # None =>
               \A s \in signed' \ signed :
                  s.msg.type = "TASK_REQUEST" /\ SortsAlike(s.msg) =>
                    verify_request(Received(s.msg), public_key(durable))
<1>1. ASSUME Inv, [Next]_vars, loaded, durable # None, NEW s \in signed' \ signed,
             s.msg.type = "TASK_REQUEST", SortsAlike(s.msg)
      PROVE  verify_request(Received(s.msg), public_key(durable))
  <2>1. signed' # signed
    BY <1>1
  <2>2. CASE \E t \in Task, p \in Payload : SendRequest(t, p)
    <3>1. PICK t \in Task, p \in Payload : SendRequest(t, p)
      BY <2>2
    <3>2. keypair = durable /\ keypair \in PrivateKey
      BY <1>1 DEF Inv, LoadedKey, TypeOK
    <3>3. s.key = public_key(keypair)
      BY <1>1, <3>1 DEF SendRequest, Send
    <3>4. s.key # Secret
      BY <3>2, <3>3, SecretAssumption
    <3>5. Inv'
      BY <1>1, InvNext
    <3>6. /\ IsMessage(s.msg) /\ s.msg.type = "TASK_REQUEST"
          /\ s.msg.signature = {hmac(s.key, canonical_payload(s.msg))}
      BY <1>1, <3>4, <3>5 DEF Inv, SignedWell
    <3> QED
      BY <1>1, <3>2, <3>3, <3>6, ReceivedFields, CanonicalSame DEF verify_request
  <2>3. CASE \E t \in Task, p \in Payload, r \in RequestId : SendSubmit(t, p, r)
    <3>1. PICK t \in Task, p \in Payload, r \in RequestId : SendSubmit(t, p, r)
      BY <2>3
    <3>2. s.msg.type = "TASK_SUBMIT"
      BY <1>1, <3>1 DEF SendSubmit, Send, sign_message
    <3> QED
      BY <1>1, <3>2
  <2> QED
    BY <1>1, <2>1, <2>2, <2>3
       DEF Next, vars, generate_keypair, SaveOpens, SaveReturns, SaveRaises,
           Crash, load_keypair, Arrives
<1>2. Inv /\ [Next]_vars => Step
  BY <1>1
<1> QED
  BY <1>2, Safe, PTL DEF Spec, RestartedNodeTrusted

=============================================================================
