------------------------ MODULE SpakeHandshakeProofs ------------------------
(***************************************************************************)
(* The SPAKE2+ handshake, for any clients, passwords, requests, duplicates *)
(* and limit of failures: a token is proven and set once, and a lock-out   *)
(* does not last longer than the client was told.                          *)
(***************************************************************************)
EXTENDS SpakeHandshake, TLAPS

-----------------------------------------------------------------------------
(* The inductive invariant.                                                *)

\* What a party can hold: a share is the public one of a key pair, made with
\* the w of its owner; a key is the transcript; a confirmation is a key and pB.
AnyW     == [password : BOOLEAN, salt : Salts \cup {Garbage}]
AnyShare == [x : Nat, c : Clients \cup {"device", "none"}, w : AnyW]
AnyKey   == {NoKey} \cup (AnyShare \X AnyShare \X AnyW)

\* A confirmation made by a client: its share and its key have one w.
Confirmation(ca) ==
  \E pa \in AnyShare, pb \in AnyShare, w \in AnyW :
    ca = ConfirmP(Transcript(pa, pb, w), pb) /\ pa.w = w

PaseType ==
  /\ pase \in [salt : Salts, id : Clients \cup {DefaultId}, pa : AnyShare,
               pb : AnyShare, ca : {pase.ca}, k : AnyKey]
  /\ pase.ca = NoConfirm \/ Confirmation(pase.ca)

NetType ==
  \A m \in net :
    /\ m.c \in Clients /\ m.n \in Ids
    /\ m.to = "device" =>
         /\ m.kind = "rnd" => m.body \in Clients
         /\ m.kind = "pa"  => m.body \in AnyShare
         /\ m.kind = "ca"  => Confirmation(m.body)
    /\ m.to = "client" =>
         /\ m.kind = "rnd" => m.body \in Salts
         /\ m.kind = "pa"  => m.body \in AnyShare

\* A client has its share and its w from the same salt, or neither.
ClientType ==
  /\ client \in [Clients -> [w : AnyW, pa : AnyShare, k : AnyKey]]
  /\ \A c \in Clients : client[c].pa.w = client[c].w
  /\ used \in [Clients -> Nat]

\* The key of the device is the one of its share and of its password.
KeyOfDevice ==
  pase.k # NoKey =>
    /\ pase.k[2] = pase.pb /\ pase.pb.x <= fresh
    /\ pase.k[3].password

\* Every token is of a key pair of its own, and none of the one in use.
GrantedType == granted \in Seq([id : Clients \cup {DefaultId}, key : AnyKey])
KeyPairs ==
  /\ \A i \in DOMAIN granted :
       /\ granted[i].key # NoKey
       /\ granted[i].key[2].x <= fresh
       /\ pase.k # NoKey => granted[i].key[2].x # pase.pb.x
  /\ \A i, j \in DOMAIN granted :
       granted[i].key[2].x = granted[j].key[2].x => i = j

\* Nobody waits for an answer while the device blocks: the handler that counts
\* failures has to be active.
BlockedIsIdle ==
  /\ active => failed <= MaxFailed
  /\ blocking => ~ active

\* The counters and the lock-out; the messages, and what the parties hold; the
\* tokens.
Lockout ==
  /\ BlockedIsIdle /\ RetryAfterKept
  /\ failed \in 0 .. MaxFailed + 1 /\ promised \in 0 .. MaxFailed + 1
  /\ active \in BOOLEAN /\ blocking \in BOOLEAN

Messages ==
  /\ PaseType /\ NetType /\ ClientType
  /\ separate \in Seq([c : Clients, n : Ids]) /\ active \in BOOLEAN
  /\ waiting \subseteq [c : Clients, n : Ids, kind : Kinds]
  /\ copies \in 0 .. MaxCopies /\ fresh \in Nat
  /\ validRequest \in Kinds \cup {"none"} /\ callbacks \in Nat
  /\ \A c \in Clients : used[c] \in 0 .. MaxRequests[c]

Tokens == GrantedType /\ KeyOfDevice /\ KeyPairs /\ TokensProven

Inv == Lockout /\ Messages /\ Tokens

-----------------------------------------------------------------------------
(* What the wiped buffers and the new values are.                          *)

LEMMA WipedTypes ==
  /\ NoSecret \in AnyW /\ NoShare \in AnyShare /\ NoKey \in AnyKey
  /\ NoShare.w = NoSecret
  /\ NoSecrets \in [w : AnyW, pa : AnyShare, k : AnyKey]
BY DEF NoSecret, NoShare, NoKey, NoSecrets, Secret, AnyW, AnyShare, AnyKey, Salts

LEMMA SecretType ==
  ASSUME NEW known \in BOOLEAN, NEW salt \in Salts \cup {Garbage}
  PROVE  Secret(known, salt) \in AnyW
BY DEF Secret, AnyW

LEMMA Elements ==
  ASSUME NEW S, NEW s \in Seq(S), NEW i \in DOMAIN s
  PROVE  s[i] \in S
OBVIOUS

LEMMA EmptySequence == \A S : <<>> \in Seq(S)
OBVIOUS

LEMMA TranscriptType ==
  ASSUME NEW pa \in AnyShare, NEW pb \in AnyShare, NEW w \in AnyW
  PROVE  /\ Transcript(pa, pb, w) \in AnyKey
         /\ Transcript(pa, pb, w) # NoKey
         /\ Transcript(pa, pb, w)[1] = pa
         /\ Transcript(pa, pb, w)[2] = pb
         /\ Transcript(pa, pb, w)[3] = w
BY DEF Transcript, AnyKey, NoKey

\* A key that is not wiped is a transcript.
LEMMA KeyParts ==
  ASSUME NEW k \in AnyKey, k # NoKey
  PROVE  k[1] \in AnyShare /\ k[2] \in AnyShare /\ k[3] \in AnyW
BY DEF AnyKey, NoKey

-----------------------------------------------------------------------------
(* The counters: what TypeOK says of them, and the lock-out.               *)

\* No step of the clients touches the device.
LEMMA ClientStepDevice ==
  ASSUME ClientStep
  PROVE  UNCHANGED device /\ UNCHANGED copies
<1>1. ASSUME NEW c, Initiate(c) \/ SendUnknown(c) PROVE UNCHANGED <<device, copies>>
  BY <1>1 DEF Initiate, SendUnknown
<1>2. ASSUME NEW m, NEW e, CredentialExchange(m, e) \/ CredentialVerification(m, e) \/ Finish(m, e)
      PROVE  UNCHANGED <<device, copies>>
  BY <1>2 DEF CredentialExchange, CredentialVerification, Finish
<1>3. ASSUME NEW m, NEW e, Crashes(m, e) \/ Refused(m, e) PROVE UNCHANGED <<device, copies>>
  BY <1>3 DEF Crashes, Refused
<1>4. ASSUME NEW e, TimesOut(e) PROVE UNCHANGED <<device, copies>>
  BY <1>4 DEF TimesOut
<1> QED BY <1>1, <1>2, <1>3, <1>4 DEF ClientStep

LEMMA LockoutPreserved ==
  ASSUME Lockout, [Next]_vars
  PROVE  Lockout'
<1> USE HandshakeAssumption DEF Lockout, BlockedIsIdle, RetryAfterKept
<1>1. CASE DecrementCounter
  BY <1>1 DEF DecrementCounter
<1>2. ASSUME NEW r \in net, PostBlocked(r) PROVE Lockout'
  BY <1>2 DEF PostBlocked, is_handshake_blocked, get_seconds_until_unblocked
<1>3. ASSUME NEW r \in net, PostUnknown(r) PROVE Lockout'
  BY <1>3 DEF PostUnknown
<1>4. ASSUME NEW r \in net, Post(r) PROVE Lockout'
  BY <1>4 DEF Post, Accepted, is_handshake_blocked
<1>5. CASE Callback
  <2>1. UNCHANGED <<blocking, promised>>
    BY <1>5 DEF Callback, CallbackInactive, AnswerRnd, AnswerPa, AnswerCa, AnswerError
  <2>2. \/ failed' = failed /\ active' = active
        \/ failed' = failed /\ active' = FALSE
        \/ failed' = failed + 1 /\ active' = FALSE /\ active
    BY <1>5 DEF Callback, CallbackInactive, AnswerRnd, AnswerPa, AnswerCa, AnswerError, Answer
  <2>3. CASE failed' = failed /\ active' = active
    BY <2>1, <2>3
  <2>4. CASE failed' = failed /\ active' = FALSE
    BY <2>1, <2>4
  <2>5. CASE failed' = failed + 1 /\ active' = FALSE /\ active
    <3>1. failed <= MaxFailed /\ blocking = FALSE
      BY <2>5
    <3>2. failed' \in 0 .. MaxFailed + 1
      BY <2>5, <3>1
    <3>3. blocking' = FALSE /\ active' = FALSE /\ promised' = promised
      BY <2>1, <2>5, <3>1
    <3> QED BY <3>2, <3>3
  <2> QED BY <2>2, <2>3, <2>4, <2>5
<1>6. CASE ClientStep
  BY <1>6, ClientStepDevice DEF device
<1>7. CASE UNCHANGED vars
  BY <1>7 DEF vars, device
<1> QED BY <1>1, <1>2, <1>3, <1>4, <1>5, <1>6, <1>7 DEF Next, Device

-----------------------------------------------------------------------------
(* The messages, and what the clients hold.                                *)

\* A response has no share in it but the one it is made with.
LEMMA ResponseFits ==
  ASSUME NetType,
         NEW r, r.c \in Clients, r.n \in Ids, NEW code, NEW kind, NEW body,
         kind = "rnd" => body \in Salts, kind = "pa" => body \in AnyShare
  PROVE  LET m == Response(r, code, kind, body)
         IN  /\ m.c \in Clients /\ m.n \in Ids
             /\ m.to # "device" /\ m.to = "client"
             /\ m.kind = "rnd" => m.body \in Salts
             /\ m.kind = "pa"  => m.body \in AnyShare
BY DEF Response

\* Answering stored requests.
LEMMA AnswerFits ==
  ASSUME Messages, NEW code, NEW kind, NEW body,
         kind = "rnd" => body \in Salts, kind = "pa" => body \in AnyShare,
         Answer(code, kind, body)
  PROVE  NetType' /\ separate' \in Seq([c : Clients, n : Ids]) /\ active' \in BOOLEAN
<1>1. \A i \in DOMAIN separate : separate[i].c \in Clients /\ separate[i].n \in Ids
  <2>1. \A i \in DOMAIN separate : separate[i] \in [c : Clients, n : Ids]
    BY Elements DEF Messages
  <2> QED BY <2>1
<1>2. separate' \in Seq([c : Clients, n : Ids]) /\ active' \in BOOLEAN
  BY EmptySequence DEF Answer
<1>3. \A m \in net' : m \in net \/ \E i \in DOMAIN separate :
                        m = Response(separate[i], code, kind, body)
  BY DEF Answer, Response
<1>4. NetType'
  BY <1>1, <1>3, ResponseFits DEF Messages, NetType
<1> QED BY <1>2, <1>4

LEMMA TakeFits ==
  ASSUME NetType, net' \subseteq net
  PROVE  NetType'
BY DEF NetType

\* A step of a client: one entry changes.
LEMMA ShareUpdate ==
  ASSUME ClientType, NEW c \in Clients, NEW w \in AnyW, NEW pa \in AnyShare, pa.w = w,
         client' = [client EXCEPT ![c].w = w, ![c].pa = pa],
         used' \in [Clients -> Nat]
  PROVE  ClientType'
<1> DEFINE Rec == [w : AnyW, pa : AnyShare, k : AnyKey]
           r1 == [client[c] EXCEPT !.w = w]
           r2 == [r1 EXCEPT !.pa = pa]
<1>1. client[c] \in Rec /\ client \in [Clients -> Rec]
  BY DEF ClientType
<1>2. r1 \in Rec /\ r1.w = w
  BY <1>1
<1> HIDE DEF r1
<1>3. r2 \in Rec /\ r2.w = w /\ r2.pa = pa
  BY <1>2
<1>4. client' = [client EXCEPT ![c] = r2]
  BY <1>1 DEF r1
<1> HIDE DEF r2, Rec
<1>5. /\ client' \in [Clients -> Rec]
      /\ \A d \in Clients : client'[d] = IF d = c THEN r2 ELSE client[d]
  BY <1>1, <1>3, <1>4
<1> QED BY <1>3, <1>5 DEF ClientType, Rec

LEMMA KeyUpdate ==
  ASSUME ClientType, NEW c \in Clients, NEW k \in AnyKey,
         client' = [client EXCEPT ![c].k = k],
         used' \in [Clients -> Nat]
  PROVE  ClientType'
<1> DEFINE Rec == [w : AnyW, pa : AnyShare, k : AnyKey]
           r1 == [client[c] EXCEPT !.k = k]
<1>1. client[c] \in Rec /\ client \in [Clients -> Rec] /\ client[c].pa.w = client[c].w
  BY DEF ClientType
<1>2. r1 \in Rec /\ r1.w = client[c].w /\ r1.pa = client[c].pa
  BY <1>1
<1>3. client' = [client EXCEPT ![c] = r1]
  BY <1>1
<1> HIDE DEF r1, Rec
<1>4. /\ client' \in [Clients -> Rec]
      /\ \A d \in Clients : client'[d] = IF d = c THEN r1 ELSE client[d]
  BY <1>1, <1>2, <1>3
<1> QED BY <1>1, <1>2, <1>4 DEF ClientType, Rec

\* A handshake that is over at the client.
LEMMA FreedFits ==
  ASSUME ClientType, NEW c \in Clients, used' = used,
         client' = [client EXCEPT ![c] = NoSecrets] \/ client' = Freed(c)
  PROVE  ClientType'
<1>1. CASE client' = [client EXCEPT ![c] = NoSecrets]
  BY <1>1, WipedTypes DEF ClientType, NoSecrets
<1>2. CASE client' = Freed(c)
  <2>1. client' = [client EXCEPT ![c].w = NoSecret, ![c].pa = NoShare]
    BY <1>2 DEF Freed
  <2> QED BY <2>1, WipedTypes, ShareUpdate DEF ClientType
<1> QED BY <1>1, <1>2

\* What a client with requests left has sent.
LEMMA CanSendFits ==
  ASSUME Messages, NEW c \in Clients, CanSend(c)
  PROVE  /\ used' \in [Clients -> Nat]
         /\ \A d \in Clients : used'[d] \in 0 .. MaxRequests[d]
         /\ used[c] + 1 \in Ids
<1>1. /\ used \in [Clients -> Nat] /\ used[c] \in Nat
      /\ \A d \in Clients : used[d] \in 0 .. MaxRequests[d]
  BY DEF Messages, ClientType
<1>2. used' = [used EXCEPT ![c] = used[c] + 1] /\ used[c] < MaxRequests[c]
  BY DEF CanSend
<1>3. used' \in [Clients -> Nat]
  BY <1>1, <1>2
<1>4. \A d \in Clients : used'[d] = IF d = c THEN used[c] + 1 ELSE used[d]
  BY <1>1, <1>2
<1>5. \A d \in Clients : MaxRequests[d] \in Nat
  BY HandshakeAssumption
<1>6. \A d \in Clients : used'[d] \in 0 .. MaxRequests[d]
  BY <1>1, <1>2, <1>4, <1>5
<1>7. used[c] + 1 \in Ids
  BY <1>1 DEF Ids
<1> QED BY <1>3, <1>6, <1>7

LEMMA MessagesPreserved ==
  ASSUME Messages, [Next]_vars
  PROVE  Messages'
<1> DEFINE Accepts == [c : Clients, n : Ids]
<1> USE HandshakeAssumption
<1>1. CASE DecrementCounter
  BY <1>1 DEF DecrementCounter, clients, Messages, PaseType, NetType, ClientType
<1>2. ASSUME NEW r \in net, PostBlocked(r) \/ PostUnknown(r) PROVE Messages'
  <2>1. r.c \in Clients /\ r.n \in Ids
    BY DEF Messages, NetType
  <2>2. PICK code \in {"blocked", "bad"} : net' \subseteq net \cup {Response(r, code, "none", 0)}
    BY <1>2 DEF PostBlocked, PostUnknown
  <2>3. NetType'
    <3> DEFINE rsp == Response(r, code, "none", 0)
    <3>1. rsp.c \in Clients /\ rsp.n \in Ids /\ rsp.to = "client" /\ rsp.kind = "none"
      BY <2>1 DEF Response
    <3>2. net' \subseteq net \cup {rsp}
      BY <2>2
    <3> HIDE DEF rsp
    <3> QED BY <3>1, <3>2 DEF NetType, Messages
  <2>4. UNCHANGED <<pase, separate, active, callbacks, fresh, clients, used, copies>>
    BY <1>2 DEF PostBlocked, PostUnknown
  <2>5. validRequest' \in Kinds \cup {"none"}
    BY <1>2 DEF PostBlocked, PostUnknown, Messages
  <2> QED BY <2>3, <2>4, <2>5 DEF clients, Messages, PaseType, ClientType
<1>3. ASSUME NEW r \in net, Post(r) PROVE Messages'
  <2>1. /\ r.c \in Clients /\ r.n \in Ids /\ r.to = "device"
        /\ r.kind = "rnd" => r.body \in Clients
        /\ r.kind = "pa"  => r.body \in AnyShare
        /\ r.kind = "ca"  => Confirmation(r.body)
    BY <1>3 DEF Messages, NetType, Post, Taken
  <2>2. NetType' /\ copies' \in 0 .. MaxCopies
    <3>1. CASE net' = net \ {r} /\ copies' = copies
      BY <3>1, TakeFits DEF Messages
    <3>2. CASE copies < MaxCopies /\ net' = net /\ copies' = copies + 1
      BY <3>2, TakeFits DEF Messages
    <3> QED BY <1>3, <3>1, <3>2 DEF Post, Taken
  <2>3. PaseType'
    <3>1. CASE r.kind = "rnd"
      <4>1. pase' = [pase EXCEPT !.id = r.body]
        BY <1>3, <3>1 DEF Post
      <4> QED BY <2>1, <3>1, <4>1 DEF Messages, PaseType
    <3>2. CASE r.kind = "pa"
      <4>1. pase' = [pase EXCEPT !.pa = r.body]
        BY <1>3, <3>2 DEF Post
      <4> QED BY <2>1, <3>2, <4>1 DEF Messages, PaseType
    <3>3. CASE r.kind = "ca"
      <4>1. pase' = [pase EXCEPT !.ca = r.body]
        BY <1>3, <3>3 DEF Post
      <4>2. pase'.ca = r.body
        BY <4>1 DEF Messages, PaseType
      <4> QED BY <2>1, <3>3, <4>1, <4>2 DEF Messages, PaseType
    <3> QED BY <1>3, <3>1, <3>2, <3>3 DEF Post, Kinds
  <2>4. separate' \in Seq(Accepts) /\ active' \in BOOLEAN
    <3>1. [c |-> r.c, n |-> r.n] \in Accepts
      BY <2>1
    <3>2. <<>> \in Seq(Accepts) /\ <<[c |-> r.c, n |-> r.n]>> \in Seq(Accepts)
      BY <3>1, EmptySequence
    <3>3. \E s \in Seq(Accepts), t \in Seq(Accepts) : separate' = s \o t
      BY <1>3, <3>2 DEF Post, Accepted, Messages
    <3>4. active' \in BOOLEAN
      BY <1>3 DEF Post, Accepted
    <3> QED BY <3>3, <3>4
  <2>5. UNCHANGED <<fresh, clients, used>> /\ validRequest' \in Kinds \cup {"none"}
        /\ callbacks' = callbacks + 1
    BY <1>3 DEF Post
  <2> QED BY <2>2, <2>3, <2>4, <2>5 DEF clients, Messages, ClientType
<1>4. CASE Callback
  <2>1. /\ UNCHANGED <<validRequest, clients, used, copies>>
        /\ callbacks' \in Nat
    BY <1>4 DEF Callback, CallbackInactive, AnswerRnd, AnswerPa, AnswerCa, AnswerError, Called,
                Messages
  <2>2. /\ NetType' /\ PaseType' /\ fresh' \in Nat
        /\ separate' \in Seq(Accepts) /\ active' \in BOOLEAN
    <3>1. CASE CallbackInactive
      BY <3>1 DEF CallbackInactive, Messages, NetType, PaseType
    <3>2. CASE AnswerRnd
      <4>1. PICK salt \in Salts : /\ pase' = [pase EXCEPT !.salt = salt]
                                  /\ Answer("changed", "rnd", salt)
        BY <3>2 DEF AnswerRnd, Salts, Messages
      <4>2. PaseType'
        BY <4>1 DEF Messages, PaseType
      <4>3. fresh' \in Nat
        BY <3>2 DEF AnswerRnd, Messages
      <4> QED BY <4>1, <4>2, <4>3, AnswerFits
    <3>3. CASE AnswerPa
      <4> DEFINE pb == [x |-> fresh + 1, c |-> "device", w |-> DeviceSecret]
      <4>1. DeviceSecret \in AnyW
        BY SecretType DEF DeviceSecret, Salts, Messages, PaseType
      <4>2. pb \in AnyShare
        BY <4>1 DEF AnyShare, Messages
      <4>3. Transcript(pase.pa, pb, DeviceSecret) \in AnyKey
        BY <4>1, <4>2, TranscriptType DEF Messages, PaseType
      <4>4. /\ pase' = [pase EXCEPT !.pb = pb, !.k = Transcript(pase.pa, pb, DeviceSecret)]
            /\ Answer("changed", "pa", pb) /\ fresh' = fresh + 1
        BY <3>3 DEF AnswerPa
      <4> HIDE DEF pb
      <4>5. PaseType'
        BY <4>2, <4>3, <4>4 DEF Messages, PaseType
      <4>6. fresh' \in Nat
        BY <4>4 DEF Messages
      <4> QED BY <4>2, <4>4, <4>5, <4>6, AnswerFits
    <3>4. CASE AnswerCa \/ AnswerError
      <4>1. /\ pase' = Wiped(pase.id) /\ fresh' = fresh
            /\ \E code \in {"changed", "bad"} : Answer(code, "none", 0)
        BY <3>4 DEF AnswerCa, AnswerError
      <4>2. PaseType'
        BY <4>1, WipedTypes DEF Messages, PaseType, Wiped, Salts
      <4> QED BY <4>1, <4>2, AnswerFits DEF Messages
    <3> QED BY <1>4, <3>1, <3>2, <3>3, <3>4 DEF Callback
  <2> QED BY <2>1, <2>2 DEF clients, Messages, ClientType
<1>5. CASE ClientStep
  <2>1. /\ UNCHANGED <<pase, validRequest, separate, active, callbacks, fresh, copies>>
    BY <1>5, ClientStepDevice DEF device
  <2>2. SUFFICES /\ NetType' /\ ClientType'
                 /\ waiting' \subseteq [c : Clients, n : Ids, kind : Kinds]
                 /\ \A c \in Clients : used'[c] \in 0 .. MaxRequests[c]
    BY <2>1 DEF Messages, PaseType
  <2>3. ASSUME NEW c \in Clients, Initiate(c) \/ SendUnknown(c)
        PROVE  /\ NetType' /\ ClientType'
               /\ waiting' \subseteq [c : Clients, n : Ids, kind : Kinds]
               /\ \A d \in Clients : used'[d] \in 0 .. MaxRequests[d]
    <3>1. CanSend(c)
      BY <2>3 DEF Initiate, SendUnknown
    <3>2. ClientType'
      BY <2>3, <3>1, CanSendFits DEF Initiate, SendUnknown, clients, Messages, ClientType
    <3>3. NetType'
      <4>1. PICK req \in {Request(c, "rnd", c), Request(c, "unknown", 0)} :
              net' = net \cup {req}
        BY <2>3 DEF Initiate, SendUnknown
      <4>2. /\ req.c \in Clients /\ req.n \in Ids /\ req.to = "device"
            /\ req.kind \in {"rnd", "unknown"}
            /\ req.kind = "rnd" => req.body \in Clients
        BY <3>1, CanSendFits DEF Request
      <4> QED BY <4>1, <4>2 DEF NetType, Messages
    <3>4. waiting' \subseteq [c : Clients, n : Ids, kind : Kinds]
      <4>1. [c |-> c, n |-> used[c] + 1, kind |-> "rnd"] \in [c : Clients, n : Ids, kind : Kinds]
        BY <3>1, CanSendFits DEF Kinds
      <4> QED BY <2>3, <4>1 DEF Initiate, SendUnknown, clients, Messages
    <3> QED BY <3>1, <3>2, <3>3, <3>4, CanSendFits
  <2>4. ASSUME NEW m \in net, NEW e \in waiting,
               CredentialExchange(m, e) \/ CredentialVerification(m, e) \/ Crashes(m, e)
                 \/ Finish(m, e) \/ Refused(m, e)
        PROVE  /\ NetType' /\ ClientType'
               /\ waiting' \subseteq [c : Clients, n : Ids, kind : Kinds]
               /\ \A d \in Clients : used'[d] \in 0 .. MaxRequests[d]
    <3>1. m.c \in Clients /\ Delivered(m, e) /\ m.to = "client"
      BY <2>4 DEF Messages, NetType, CredentialExchange, CredentialVerification, Crashes,
                  Finish, Refused, Delivered
    <3>2. client[m.c] \in [w : AnyW, pa : AnyShare, k : AnyKey]
          /\ client[m.c].pa.w = client[m.c].w
      BY <3>1 DEF Messages, ClientType
    <3>3. CASE CredentialExchange(m, e)
      <4> DEFINE salt == IF m.kind = "rnd" THEN m.body ELSE Garbage
                 w    == Secret(m.c \in Knows, salt)
                 pa   == [x |-> used[m.c] + 1, c |-> m.c, w |-> w]
      <4>1. w \in AnyW
        <5>1. salt \in Salts \cup {Garbage}
          BY <3>1 DEF Messages, NetType
        <5>2. (m.c \in Knows) \in BOOLEAN
          OBVIOUS
        <5> QED BY <5>1, <5>2, SecretType
      <4>2. /\ client' = [client EXCEPT ![m.c].w = w, ![m.c].pa = pa]
            /\ net' = (net \ {m}) \cup {Request(m.c, "pa", pa)}
            /\ waiting' = (waiting \ {e}) \cup {[c |-> m.c, n |-> used[m.c] + 1, kind |-> "pa"]}
            /\ CanSend(m.c)
        BY <3>3 DEF CredentialExchange
      <4> HIDE DEF w
      <4>3. pa \in AnyShare /\ pa.w = w
        BY <3>1, <4>1 DEF AnyShare, Messages, ClientType
      <4> HIDE DEF pa
      <4>4. used' \in [Clients -> Nat] /\ used[m.c] + 1 \in Ids
        BY <3>1, <4>2, CanSendFits
      <4>5. ClientType'
        BY <3>1, <4>1, <4>2, <4>3, <4>4, ShareUpdate DEF Messages
      <4>6. NetType'
        <5> DEFINE req == Request(m.c, "pa", pa)
        <5>1. /\ req.c \in Clients /\ req.n \in Ids /\ req.to = "device"
              /\ req.kind = "pa" /\ req.body \in AnyShare
          BY <3>1, <4>3, <4>4 DEF Request
        <5>2. net' \subseteq net \cup {req}
          BY <4>2
        <5> HIDE DEF req
        <5> QED BY <5>1, <5>2 DEF NetType, Messages
      <4>7. [c |-> m.c, n |-> used[m.c] + 1, kind |-> "pa"] \in [c : Clients, n : Ids, kind : Kinds]
        BY <3>1, <4>2, CanSendFits DEF Kinds
      <4> QED BY <3>1, <4>2, <4>5, <4>6, <4>7, CanSendFits DEF Messages
    <3>4. CASE CredentialVerification(m, e)
      <4> DEFINE k == Transcript(client[m.c].pa, m.body, client[m.c].w)
      <4>1. /\ client' = [client EXCEPT ![m.c].k = k]
            /\ net' = (net \ {m}) \cup {Request(m.c, "ca", ConfirmP(k, m.body))}
            /\ waiting' = (waiting \ {e}) \cup {[c |-> m.c, n |-> used[m.c] + 1, kind |-> "ca"]}
            /\ CanSend(m.c)
        BY <3>4 DEF CredentialVerification
      <4>2. m.body \in AnyShare
        BY <3>1, <3>4 DEF CredentialVerification, Messages, NetType
      <4>3. k \in AnyKey
        BY <3>2, <4>2, TranscriptType
      <4>4. Confirmation(ConfirmP(k, m.body))
        BY <3>2, <4>2 DEF Confirmation
      <4> HIDE DEF k
      <4>5. used' \in [Clients -> Nat] /\ used[m.c] + 1 \in Ids
        BY <3>1, <4>1, CanSendFits
      <4>6. ClientType'
        BY <3>1, <4>1, <4>3, <4>5, KeyUpdate DEF Messages
      <4>7. NetType'
        <5> DEFINE req == Request(m.c, "ca", ConfirmP(k, m.body))
        <5>1. /\ req.c \in Clients /\ req.n \in Ids /\ req.to = "device"
              /\ req.kind = "ca" /\ Confirmation(req.body)
          BY <3>1, <4>4, <4>5 DEF Request
        <5>2. net' \subseteq net \cup {req}
          BY <4>1
        <5> HIDE DEF req
        <5> QED BY <5>1, <5>2 DEF NetType, Messages
      <4>8. [c |-> m.c, n |-> used[m.c] + 1, kind |-> "ca"] \in [c : Clients, n : Ids, kind : Kinds]
        BY <3>1, <4>1, CanSendFits DEF Kinds
      <4> QED BY <3>1, <4>1, <4>6, <4>7, <4>8, CanSendFits DEF Messages
    <3>5. CASE Crashes(m, e) \/ Finish(m, e) \/ Refused(m, e)
      <4>1. /\ net' \subseteq net /\ waiting' \subseteq waiting /\ used' = used
        BY <3>5 DEF Crashes, Finish, Refused
      <4>2. client' = [client EXCEPT ![m.c] = NoSecrets] \/ client' = Freed(m.c)
        BY <3>5 DEF Crashes, Finish, Refused
      <4>3. ClientType'
        BY <3>1, <4>1, <4>2, FreedFits DEF Messages
      <4> QED BY <4>1, <4>3, TakeFits DEF Messages
    <3> QED BY <2>4, <3>3, <3>4, <3>5
  <2>5. ASSUME NEW e \in waiting, TimesOut(e)
        PROVE  /\ NetType' /\ ClientType'
               /\ waiting' \subseteq [c : Clients, n : Ids, kind : Kinds]
               /\ \A d \in Clients : used'[d] \in 0 .. MaxRequests[d]
    <3>1. e.c \in Clients
      BY DEF Messages
    <3>2. net' = net /\ waiting' \subseteq waiting /\ client' = Freed(e.c) /\ used' = used
      BY <2>5 DEF TimesOut
    <3> QED BY <3>1, <3>2, FreedFits DEF Messages, NetType
  <2> QED BY <1>5, <2>3, <2>4, <2>5, HandshakeAssumption DEF ClientStep
<1>6. CASE UNCHANGED vars
  BY <1>6 DEF vars, device, clients, Messages, PaseType, NetType, ClientType
<1> QED BY <1>1, <1>2, <1>3, <1>4, <1>5, <1>6 DEF Next, Device

-----------------------------------------------------------------------------
(* The tokens.                                                             *)

\* Nothing a request or the wiping of a handshake does touches the key pair.
LEMMA TokensKept ==
  ASSUME Tokens, granted' = granted, fresh' = fresh,
         pase'.k = NoKey \/ (pase'.k = pase.k /\ pase'.pb = pase.pb)
  PROVE  Tokens'
BY DEF Tokens, GrantedType, KeyOfDevice, KeyPairs, TokensProven

\* A key pair drawn later than every token.
LEMMA NewPairKeeps ==
  ASSUME Tokens, Messages, granted' = granted, fresh' = fresh + 1,
         \/ pase'.k = pase.k /\ pase'.pb = pase.pb
         \/ /\ pase'.k \in AnyKey /\ pase'.k[2] = pase'.pb /\ pase'.pb.x = fresh + 1
            /\ pase'.k[3].password
  PROVE  Tokens'
<1>1. fresh \in Nat
  BY DEF Messages
<1>2. GrantedType'
  BY DEF Tokens, GrantedType
<1>3. \A i \in DOMAIN granted : granted[i].key # NoKey /\ granted[i].key[2].x \in Nat
  <2>1. \A i \in DOMAIN granted : granted[i] \in [id : Clients \cup {DefaultId}, key : AnyKey]
    BY Elements DEF Tokens, GrantedType
  <2>2. \A i \in DOMAIN granted : granted[i].key # NoKey
    BY DEF Tokens, KeyPairs
  <2> QED BY <2>1, <2>2, KeyParts DEF AnyShare
<1>4. CASE pase'.k = pase.k /\ pase'.pb = pase.pb
  <2>1. pase.k # NoKey => pase.pb.x \in Nat
    BY DEF Messages, PaseType, AnyShare
  <2>2. KeyOfDevice'
    BY <1>1, <1>4, <2>1 DEF Tokens, KeyOfDevice
  <2>3. KeyPairs'
    BY <1>1, <1>3, <1>4 DEF Tokens, KeyPairs
  <2> QED BY <1>2, <2>2, <2>3 DEF Tokens, TokensProven
<1>5. CASE /\ pase'.k \in AnyKey /\ pase'.k[2] = pase'.pb /\ pase'.pb.x = fresh + 1
           /\ pase'.k[3].password
  <2>1. KeyOfDevice'
    BY <1>1, <1>5 DEF KeyOfDevice
  <2>2. KeyPairs'
    BY <1>1, <1>3, <1>5 DEF Tokens, KeyPairs
  <2> QED BY <1>2, <2>1, <2>2 DEF Tokens, TokensProven
<1> QED BY <1>4, <1>5

LEMMA TokensPreserved ==
  ASSUME Tokens, Messages, [Next]_vars
  PROVE  Tokens'
<1>1. CASE DecrementCounter \/ ClientStep \/ UNCHANGED vars
  <2>1. UNCHANGED <<granted, fresh, pase>>
    BY <1>1, ClientStepDevice DEF DecrementCounter, device, vars
  <2> QED BY <2>1, TokensKept
<1>2. ASSUME NEW r \in net, PostBlocked(r) \/ PostUnknown(r) \/ Post(r) PROVE Tokens'
  <2>1. granted' = granted /\ fresh' = fresh
    BY <1>2 DEF PostBlocked, PostUnknown, Post
  <2>2. pase'.k = pase.k /\ pase'.pb = pase.pb
    <3>1. CASE UNCHANGED pase
      BY <3>1
    <3>2. CASE Post(r)
      <4>1. \/ pase' = [pase EXCEPT !.id = r.body]
            \/ pase' = [pase EXCEPT !.pa = r.body]
            \/ pase' = [pase EXCEPT !.ca = r.body]
        BY <3>2 DEF Post, Kinds
      <4> QED BY <4>1 DEF Messages, PaseType
    <3> QED BY <1>2, <3>1, <3>2 DEF PostBlocked, PostUnknown
  <2> QED BY <2>1, <2>2, TokensKept
<1>3. CASE CallbackInactive
  BY <1>3, TokensKept DEF CallbackInactive
<1>4. CASE AnswerRnd
  <2>1. granted' = granted /\ fresh' = fresh + 1 /\ \E salt : pase' = [pase EXCEPT !.salt = salt]
    BY <1>4 DEF AnswerRnd
  <2>2. pase'.k = pase.k /\ pase'.pb = pase.pb
    BY <2>1 DEF Messages, PaseType
  <2> QED BY <2>1, <2>2, NewPairKeeps
<1>5. CASE AnswerPa
  <2> DEFINE pb == [x |-> fresh + 1, c |-> "device", w |-> DeviceSecret]
             k  == Transcript(pase.pa, pb, DeviceSecret)
  <2>1. /\ granted' = granted /\ fresh' = fresh + 1
        /\ pase' = [pase EXCEPT !.pb = pb, !.k = k]
    BY <1>5 DEF AnswerPa
  <2>2. DeviceSecret \in AnyW /\ DeviceSecret.password
    BY SecretType DEF DeviceSecret, Secret, Salts, Messages, PaseType
  <2>3. pb \in AnyShare /\ pb.x = fresh + 1
    BY <2>2 DEF AnyShare, Messages
  <2>4. k \in AnyKey /\ k[2] = pb /\ k[3] = DeviceSecret
    BY <2>2, <2>3, TranscriptType DEF Messages, PaseType
  <2> HIDE DEF k, pb
  <2>5. pase'.pb = pb /\ pase'.k = k
    BY <2>1 DEF Messages, PaseType
  <2> QED BY <2>1, <2>2, <2>3, <2>4, <2>5, NewPairKeeps
<1>6. CASE AnswerError
  <2>1. granted' = granted /\ fresh' = fresh /\ pase'.k = NoKey
    BY <1>6 DEF AnswerError, Wiped
  <2> QED BY <2>1, TokensKept
<1>7. CASE AnswerCa
  <2> DEFINE t == [id |-> pase.id, key |-> pase.k]
  <2>1. /\ pase.ca = ConfirmP(pase.k, pase.pb) /\ granted' = Append(granted, t)
        /\ pase'.k = NoKey /\ fresh' = fresh
    BY <1>7 DEF AnswerCa, Wiped
  <2>2. pase.ca # NoConfirm
    BY <2>1 DEF ConfirmP, NoConfirm
  <2>3. PICK pa \in AnyShare, pb \in AnyShare, w \in AnyW :
          pase.ca = ConfirmP(Transcript(pa, pb, w), pb) /\ pa.w = w
    BY <2>2 DEF Messages, PaseType, Confirmation
  <2>4. pase.k = Transcript(pa, pb, w)
    BY <2>1, <2>3 DEF ConfirmP
  <2>5. pase.k # NoKey /\ pase.k[1] = pa /\ pase.k[2] = pb /\ pase.k[3] = w
    BY <2>4, TranscriptType
  <2>6. pase.k[2] = pase.pb /\ pase.pb.x <= fresh /\ w.password
    BY <2>5 DEF Tokens, KeyOfDevice
  <2>7. pa # NoShare
    BY <2>3, <2>6, WipedTypes DEF NoSecret, Secret
  <2>8. t \in [id : Clients \cup {DefaultId}, key : AnyKey]
    BY DEF Messages, PaseType
  <2>9. t.key = pase.k
    OBVIOUS
  <2> HIDE DEF t
  <2>10. GrantedType'
    BY <2>1, <2>8 DEF Tokens, GrantedType
  <2>11. \A i \in DOMAIN granted' : \/ i \in DOMAIN granted /\ granted'[i] = granted[i]
                                    \/ i = Len(granted) + 1 /\ granted'[i] = t
    BY <2>1, <2>8 DEF Tokens, GrantedType
  <2>12. KeyPairs'
    BY <2>1, <2>5, <2>6, <2>9, <2>11 DEF Tokens, KeyPairs
  <2>13. TokensProven'
    BY <2>3, <2>5, <2>6, <2>7, <2>9, <2>11 DEF Tokens, TokensProven
  <2>14. KeyOfDevice'
    BY <2>1 DEF KeyOfDevice
  <2> QED BY <2>10, <2>12, <2>13, <2>14 DEF Tokens
<1> QED BY <1>1, <1>2, <1>3, <1>4, <1>5, <1>6, <1>7 DEF Next, Device, Callback

-----------------------------------------------------------------------------
(* The theorems.                                                           *)

LEMMA InvType == Inv => TypeOK
BY DEF Inv, TypeOK, Lockout, Messages, PaseType

LEMMA InitInv == Init => Inv
<1> SUFFICES ASSUME Init PROVE Inv
  OBVIOUS
<1>1. Lockout
  <2>1. failed = 0 /\ promised = 0 /\ active = FALSE /\ blocking = FALSE
    BY DEF Init
  <2>2. 0 \in 0 .. MaxFailed + 1
    BY HandshakeAssumption
  <2>3. failed \in 0 .. MaxFailed + 1 /\ promised \in 0 .. MaxFailed + 1
    BY <2>1, <2>2
  <2>4. active \in BOOLEAN /\ blocking \in BOOLEAN
    BY <2>1
  <2>5. BlockedIsIdle /\ RetryAfterKept
    BY <2>1 DEF BlockedIsIdle, RetryAfterKept
  <2> QED BY <2>3, <2>4, <2>5 DEF Lockout
<1>2. PaseType
  BY WipedTypes DEF Init, PaseType, Wiped, Salts
<1>3. NetType /\ ClientType
  BY WipedTypes DEF Init, NetType, ClientType, NoSecrets
<1>4. Messages
  <2>1. /\ separate = <<>> /\ active = FALSE /\ waiting = {} /\ copies = 0 /\ fresh = 0
        /\ validRequest = "none" /\ callbacks = 0 /\ used = [c \in Clients |-> 0]
    BY DEF Init
  <2>2. \A c \in Clients : used[c] \in 0 .. MaxRequests[c]
    BY <2>1, HandshakeAssumption
  <2>3. copies \in 0 .. MaxCopies
    BY <2>1, HandshakeAssumption
  <2> QED BY <1>2, <1>3, <2>1, <2>2, <2>3, EmptySequence DEF Messages
<1>5. Tokens
  BY EmptySequence DEF Init, Tokens, GrantedType, KeyOfDevice, KeyPairs, TokensProven, Wiped
<1> QED BY <1>1, <1>4, <1>5 DEF Inv

LEMMA NextInv == Inv /\ [Next]_vars => Inv'
BY LockoutPreserved, MessagesPreserved, TokensPreserved DEF Inv

\* Lock-out, messages and tokens keep together what the two theorems below need.
THEOREM InvHolds == Spec => []Inv
BY InitInv, NextInv, PTL DEF Spec

\* A token the device has set is the outcome of a handshake in which a client
\* that knows the password made its share and both sides have the same w0, and
\* no handshake sets it twice.
THEOREM TokensAreProven == Spec => []TokensSound
<1>1. Inv => TokensSound
  BY InvType DEF Inv, TokensSound, Tokens, KeyPairs, OneTokenPerHandshake
<1> QED BY <1>1, InvHolds, PTL

\* A lock-out is over by the time its last 5.03 gave.
THEOREM LockoutIsAsTold == Spec => []RetryAfterKept
<1>1. Inv => RetryAfterKept
  BY DEF Inv, Lockout
<1> QED BY <1>1, InvHolds, PTL
=============================================================================
