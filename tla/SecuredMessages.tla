-------------------------- MODULE SecuredMessages --------------------------
(***************************************************************************)
(* A client and a server with one OSCORE context, on the way from the      *)
(* packet one engine builds to the packet the other engine gets: the CoAP  *)
(* codec, protection and verification in security/oc_oscore_engine.c, and  *)
(* the answers it gives itself.  The network loses, repeats and reorders.  *)
(* Which requests an application makes and which answers the server's      *)
(* engine gives are constants; ClientExchange, Observe and SpakeHandshake  *)
(* say when.                                                               *)
(***************************************************************************)
EXTENDS CoapCodec

CONSTANTS
  ClientId, ServerId,   \* the ids of the context, sequences of bytes
  IdCtx,                \* its id context
  Requests, Answers(_), \* packets the engines build, the answers of a request's
                        \* code; an answer lacks type and mid
  Multicasts,           \* the requests that go to a group
  Strays,               \* messages of others that reach the server, each alone
  MaxRequests, MaxRetrans, MaxMid    \* bounds; MaxMid a function of the device

ASSUME SecuredAssumption ==
  /\ ClientId # ServerId /\ Len(ClientId) \in 1 .. 7 /\ Len(ServerId) <= 7
  /\ {MaxRequests, MaxRetrans} \subseteq Nat /\ MaxRequests < 100

VARIABLES
  ssn,     \* ctx->ssn of the sender contexts
  exch,    \* the client's requests: callback, transaction, cb->piv
  heard,   \* endpoint.request_piv of the requests the server's engine got
  mid,     \* the message ids the server has used
  wire     \* every message ever sent

vars == <<ssn, exch, heard, mid, wire>>

Devices == {"client", "server"}
NotHeard == [stage |-> "not"]

\* the id of the peer
RecvId(d) == IF d = "client" THEN ServerId ELSE ClientId

NoPacket == [type |-> "none"]

\* the message m from d on its way, to how many, made of the packet p for
\* request x, and whether it is a retransmission
Sent(d, m, group, p, x, again) ==
  [from |-> d, m |-> m, group |-> group, packet |-> p, of |-> x, again |-> again]
Plain(p) == Serialized(p, TRUE, TRUE, FALSE)

\* the bound on the retransmissions of both devices
MayRepeat == Cardinality({s \in wire : s.again}) < MaxRetrans

-----------------------------------------------------------------------------
(* Protecting: oc_oscore_send_message. *)

\* what is encrypted: code, inner options and payload; a notification's number
\* is left to the outer option
Plaintext(p) ==
  Serialized(IF Opt.Observe \in DOMAIN p.opts /\ p.opts[Opt.Observe] > 1
             THEN With(p, Opt.Observe, 0) ELSE p, TRUE, FALSE, TRUE)

\* the outer message: its option of OSCORE is option
Envelope(p, cipher, code, option) ==
  LET aged == IF code = Code.Content THEN With(p, Opt.MaxAge, 0) ELSE p
  IN Serialized([With(aged, Opt.Oscore, option) EXCEPT !.code = code,
                                                       !.payload = <<cipher>>],
                FALSE, TRUE, TRUE)

Cipher(key, nonce, aad, plaintext) ==
  [key |-> key, nonce |-> nonce, aad |-> aad, plaintext |-> plaintext]

ProtectedRequest(p, piv, code) ==
  Envelope(p, Cipher(ClientId, Nonce(ClientId, piv), Aad(ClientId, piv), Plaintext(p)),
           code, OscoreOption(code, piv, ClientId, IdCtx))

\* mutant: a confirmable response has the nonce of its request
OwnPivOfAck(p) == p.type = "ACK" /\ p.code = 0

\* an empty ACK and a confirmable response take a partial IV of their own
OwnPiv(p) == p.type = "CON" \/ (p.type = "ACK" /\ p.code = 0)

\* mutant: the additional data names the response's own partial IV
ResponseForItself(p, requestPiv) ==
  LET own == StorePiv(ssn["server"])
      nonce == IF OwnPiv(p) THEN Nonce(ServerId, own) ELSE Nonce(ClientId, requestPiv)
  IN Envelope(p, Cipher(ServerId, nonce, Aad(ClientId, own), Plaintext(p)),
              OuterCode(p),
              OscoreOption(OuterCode(p), IF OwnPiv(p) THEN own ELSE <<>>, <<>>, <<>>))

ProtectedResponse(p, requestPiv) ==
  LET own == StorePiv(ssn["server"])
      nonce == IF OwnPiv(p) THEN Nonce(ServerId, own) ELSE Nonce(ClientId, requestPiv)
  IN Envelope(p, Cipher(ServerId, nonce, Aad(ClientId, requestPiv), Plaintext(p)),
              OuterCode(p),
              OscoreOption(OuterCode(p), IF OwnPiv(p) THEN own ELSE <<>>, <<>>, <<>>))

-----------------------------------------------------------------------------
(* The client sends. *)

\* bounds: no stray is about, and no request is made twice
Fresh(r) ==
  /\ \A s \in wire : s.of # 0
  /\ \A x \in DOMAIN exch : exch[x].packet.opts # r.opts

Exchange(p, piv, open, trans) ==
  [packet |-> p, piv |-> piv, retrans |-> 0, open |-> open, trans |-> trans]

Numbered(r) == WithToken([r EXCEPT !.mid = Len(exch) + 1], <<Len(exch) + 1>>)

\* what oc_oscore_send_message makes of the engine's message
AsRequest(p, piv) ==
  ProtectedRequest(Parsed(Plain(p), TRUE, TRUE, FALSE).packet, piv, OuterCode(p))

\* A request of the engine; it is not sent when it does not fit
Request(r) ==
  \E x \in {Len(exch) + 1}, p \in {Numbered(r)}, piv \in {StorePiv(ssn["client"])},
     fits \in {Plain(Numbered(r)) # NoMessage} :
     /\ x <= MaxRequests /\ Fresh(r)
     /\ exch' = Append(exch, Exchange(p, piv, fits, fits /\ r.type = "CON"))
     /\ IF fits
        THEN /\ ssn' = [ssn EXCEPT !["client"] = @ + 1]
             /\ wire' = wire \cup {Sent("client", AsRequest(p, piv), FALSE, p, x, FALSE)}
        ELSE UNCHANGED <<ssn, wire>>
     /\ UNCHANGED <<heard, mid>>

\* oc_oscore_send_multicast_message: POST outside, no callback
AsGroupRequest(p, piv) ==
  ProtectedRequest(Parsed(Plain(p), TRUE, TRUE, FALSE).packet, piv, Code.POST)

GroupRequest(r) ==
  \E x \in {Len(exch) + 1}, p \in {Numbered(r)}, piv \in {StorePiv(ssn["client"])} :
     /\ x <= MaxRequests /\ Fresh(r) /\ Plain(p) # NoMessage
     /\ exch' = Append(exch, Exchange(p, piv, FALSE, FALSE))
     /\ ssn' = [ssn EXCEPT !["client"] = @ + 1]
     /\ wire' = wire \cup {Sent("client", AsGroupRequest(p, piv), TRUE, p, x, FALSE)}
     /\ UNCHANGED <<heard, mid>>

\* A retransmission is protected anew, with the next partial IV, and uses none up;
\* without a callback it is refused
Retransmit(x) ==
  LET piv == StorePiv(ssn["client"])
      p == exch[x].packet
  IN /\ exch[x].trans /\ exch[x].open /\ MayRepeat
     /\ exch' = [exch EXCEPT ![x].retrans = @ + 1, ![x].piv = piv]
     /\ wire' = wire \cup {Sent("client", AsRequest(p, piv), FALSE, p, x, TRUE)}
     /\ UNCHANGED <<ssn, heard, mid>>

\* the transaction is given up and takes the callback along, or the callback alone
\* of a request that is not repeated
GiveUp(x) ==
  /\ exch[x].open
  /\ exch' = [exch EXCEPT ![x].open = FALSE, ![x].trans = FALSE]
  /\ UNCHANGED <<ssn, heard, mid, wire>>

-----------------------------------------------------------------------------
(* Receiving: oc_oscore_recv_message. *)

Verifies(d, cipher, nonce, aad) ==
  cipher.key = RecvId(d) /\ cipher.nonce = nonce /\ cipher.aad = aad

\* the packet the engine parses from what is put together of the outer message
\* and the plaintext, whose options are o
PutTogether(outer, plaintext, o) ==
  LET number == IF Opt.Observe \in DOMAIN outer.opts THEN outer.opts[Opt.Observe] ELSE 0
      opts == IF Opt.Observe \in DOMAIN o.opts
              THEN [o.opts EXCEPT ![Opt.Observe] = number] ELSE o.opts
      q == [outer EXCEPT !.code = plaintext.code, !.opts = opts,
                         !.payload = plaintext.payload]
  IN IF o.error # 0 THEN [error |-> Code.BadOption, packet |-> NoPacket]
     ELSE Parsed(Serialized(q, TRUE, TRUE, TRUE), TRUE, TRUE, FALSE)

Opened(outer, plaintext) ==
  PutTogether(outer, plaintext, Options(plaintext.fields, TRUE, FALSE, TRUE))

Failed(code) == [error |-> code, packet |-> NoPacket]

\* A request; the option names the context and has the partial IV
OpenedRequest(outer) ==
  LET o == outer.opts[Opt.Oscore]
  IN IF o.kid = <<>> THEN Failed(Code.BadOption)
     ELSE IF o.kid # ClientId THEN Failed(Code.Unauthorized)
     ELSE IF Verifies("server", outer.payload[1], Nonce(ClientId, o.piv),
                      Aad(ClientId, o.piv))
     THEN Opened(outer, outer.payload[1].plaintext)
     ELSE Failed(Code.BadRequest)

\* oc_oscore_find_context_by_token_mid: by callback, else by transaction, of the
\* token or of the message id
RequestOf(outer) ==
  LET named == {x \in DOMAIN exch : outer.token = exch[x].packet.token
                                     /\ (exch[x].open \/ exch[x].trans)}
  IN IF named # {} THEN named
     ELSE {x \in DOMAIN exch : exch[x].trans /\ outer.mid = exch[x].packet.mid}

\* A response; without a partial IV of its own it has the request's nonce
OpenedResponse(outer) ==
  LET own == outer.opts[Opt.Oscore].piv
      x == CHOOSE y \in RequestOf(outer) : TRUE
      nonce == IF own # <<>> THEN Nonce(ServerId, own) ELSE Nonce(ClientId, exch[x].piv)
  IN IF RequestOf(outer) = {} THEN Failed(Code.Unauthorized)
     ELSE IF Verifies("client", outer.payload[1], nonce, Aad(ClientId, exch[x].piv))
     THEN Opened(outer, outer.payload[1].plaintext)
     ELSE Failed(Code.BadRequest)

\* oscore_parse_outer_message and what follows
OpenedMessage(outer) ==
  IF outer.error # 0 THEN Failed(Code.BadOption)
  ELSE IF outer.packet.code <= Code.FETCH THEN OpenedRequest(outer.packet)
  ELSE OpenedResponse(outer.packet)

Received(m) ==
  IF IsOscore(m) THEN OpenedMessage(Parsed(m, FALSE, TRUE, TRUE))
  ELSE Parsed(m, TRUE, TRUE, FALSE)

\* oscore_send_error: in plain, in the ACK of a confirmable message
Error(d, m, code) ==
  LET p == IF m.type = "CON" THEN Packet("ACK", code, m.mid)
           ELSE Packet("NON", code, mid[d])
  IN With(WithToken(p, m.token), Opt.MaxAge, 0)

\* the message ids that answering m takes
Taken(d, m) == IF m.type = "CON" THEN 0 ELSE 1

\* a message that the OSCORE layer answers with an error
Refuse(d, s) ==
  /\ mid[d] + Taken(d, s.m) <= MaxMid[d]
  /\ mid' = [mid EXCEPT ![d] = @ + Taken(d, s.m)]
  /\ \E p \in {Error(d, s.m, Received(s.m).error)} :
       /\ p.code # 0
       /\ wire' = wire \cup {Sent(d, Plain(p), FALSE, p, s.of, FALSE)}
  /\ UNCHANGED <<ssn, exch>>

\* oc_coap_check_if_duplicate: requests, before they are verified
Seen(s) ==
  s.from = "client" /\ IsOscore(s.m) /\ s.m.code <= Code.FETCH /\ heard[s.of] # NotHeard

ServerRefuses(s) ==
  /\ s.from # "server" /\ ~Seen(s)
  /\ Refuse("server", s)
  /\ UNCHANGED heard

\* the partial IV of a request is kept for its response, unless it observes
KeptPiv(outer) ==
  IF outer.code \in Code.GET .. Code.DELETE THEN outer.opts[Opt.Oscore].piv ELSE <<>>

ServerHears(s) ==
  /\ s.from = "client" /\ s.packet.code \in Code.GET .. Code.DELETE
  /\ ~Seen(s)
  /\ \E r \in {Received(s.m)} :
       /\ r.error = 0
       /\ heard' = [heard EXCEPT ![s.of] =
                      [stage |-> "new", packet |-> r.packet,
                       piv |-> KeptPiv(Parsed(s.m, FALSE, TRUE, TRUE).packet),
                       group |-> s.group, sent |-> NoPacket, retrans |-> 0]]
  /\ UNCHANGED <<ssn, exch, mid, wire>>

ClientRefuses(s) ==
  /\ s.from = "server" /\ s.of # 0
  /\ Refuse("client", s)
  /\ UNCHANGED heard

\* the engine gets a response: it ends the callback of a request that does not
\* observe; a confirmable one ends the transaction and is acknowledged, in plain
Ends(p, x) ==
  p.code # 0 /\ p.token = exch[x].packet.token /\ Opt.Observe \notin DOMAIN p.opts

\* the engine gets p, which answers request x
Take(p, x) ==
  LET ack == WithToken(Packet("ACK", 0, p.mid), p.token)
      Matches(q) == q.mid = p.mid \/ q.token = p.token
  IN /\ exch' = [y \in DOMAIN exch |->
                   [exch[y] EXCEPT
                      !.open = @ /\ ~Ends(p, y),
                      !.trans = @ /\ ~(p.type = "CON" /\ Matches(exch[y].packet))]]
     /\ wire' = IF p.type = "CON"
                THEN wire \cup {Sent("client", Plain(ack), FALSE, ack, x, FALSE)}
                ELSE wire

ClientHears(s) ==
  /\ s.from = "server" /\ s.of # 0
  /\ \E r \in {Received(s.m)} : r.error = 0 /\ Take(r.packet, s.of)
  /\ UNCHANGED <<ssn, heard, mid>>

-----------------------------------------------------------------------------
(* The server answers what its engine heard as request x. *)

\* oc_oscore_send_message of a response: nothing to many, plain when there is no
\* partial IV of the request.  The packet is kept while it may be sent again.
Secured(p, requestPiv) ==
  IF requestPiv = <<>> THEN Plain(p)
  ELSE ProtectedResponse(Parsed(Plain(p), TRUE, TRUE, FALSE).packet, requestPiv)

Send(x, p, stage, retrans) ==
  LET h == heard[x]
  IN /\ heard' = [heard EXCEPT ![x] = [h EXCEPT
                     !.stage = stage, !.retrans = retrans,
                     !.sent = IF p.type = "CON" /\ ~h.group THEN p ELSE @]]
     /\ IF h.group THEN UNCHANGED <<ssn, wire>>
        ELSE /\ ssn' = IF h.piv = <<>> THEN ssn ELSE [ssn EXCEPT !["server"] = @ + 1]
             /\ wire' = wire \cup
                  {Sent("server", Secured(p, h.piv), FALSE, p, x, retrans > 0)}
     /\ UNCHANGED exch

\* the n-th value for an observer, or a plain answer
Answer(x, a, type, id, n) ==
  LET p == WithToken([a EXCEPT !.type = type, !.mid = id], heard[x].packet.token)
  IN IF Opt.Observe \in DOMAIN heard[x].packet.opts THEN With(p, Opt.Observe, n) ELSE p

Piggyback(x, a) ==
  /\ heard[x].stage = "new" /\ heard[x].packet.type = "CON"
  /\ Send(x, Answer(x, a, "ACK", x, 0), "done", 0)
  /\ UNCHANGED mid

EmptyAck(x) ==
  /\ heard[x].stage = "new" /\ heard[x].packet.type = "CON"
  /\ Send(x, WithToken(Packet("ACK", 0, x), heard[x].packet.token), "separate", 0)
  /\ UNCHANGED mid

\* a message with an id of the server: an answer to a NON request, a separate
\* response, a notification
Spontaneous(x, a, type, n) ==
  /\ mid["server"] < MaxMid["server"]
  /\ mid' = [mid EXCEPT !["server"] = @ + 1]
  /\ Send(x, Answer(x, a, type, mid["server"], n), "done", 0)

AnswerNon(x, a) ==
  /\ heard[x].stage = "new" /\ heard[x].packet.type = "NON"
  /\ Spontaneous(x, a, "NON", 0)

Separate(x, a) ==
  /\ heard[x].stage = "separate"
  /\ Spontaneous(x, a, "CON", 0)

Notify(x, a, type) ==
  /\ heard[x].stage = "done"
  /\ Opt.Observe \in DOMAIN heard[x].packet.opts
  /\ Spontaneous(x, a, type, 2)

\* a confirmable response is sent again, protected anew; no ACK stops that
Again(x) ==
  /\ heard[x].sent # NoPacket /\ MayRepeat
  /\ Send(x, heard[x].sent, heard[x].stage, heard[x].retrans + 1)
  /\ UNCHANGED mid

-----------------------------------------------------------------------------
Init ==
  /\ ssn = [d \in Devices |-> 0]
  /\ exch = <<>>
  /\ heard = [x \in 1 .. MaxRequests |-> NotHeard]
  /\ mid = [d \in Devices |-> IF d = "client" THEN 200 ELSE 100]
  /\ wire \in {{}} \cup {{s} : s \in Strays}

Heard == {x \in DOMAIN heard : heard[x] # NotHeard}

Next ==
  \/ (\E r \in Requests : Request(r)) \/ (\E r \in Multicasts : GroupRequest(r))
  \/ \E x \in DOMAIN exch : Retransmit(x) \/ GiveUp(x)
  \/ \E s \in wire : \/ ServerHears(s) \/ ServerRefuses(s)
                     \/ ClientHears(s) \/ ClientRefuses(s)
  \/ \E x \in Heard : \/ EmptyAck(x) \/ Again(x)
                     \/ \E a \in Answers(heard[x].packet.code) :
                          \/ Piggyback(x, a) \/ AnswerNon(x, a) \/ Separate(x, a)
                          \/ \E t \in {"CON", "NON"} : Notify(x, a, t)

Spec == Init /\ [][Next]_vars

-----------------------------------------------------------------------------
(* Properties. *)

\* The values the variables take.
TypeOK ==
  /\ ssn \in [Devices -> Nat]
  /\ Len(exch) <= MaxRequests
  /\ \A x \in DOMAIN exch : /\ exch[x].retrans \in 0 .. MaxRetrans
                            /\ Len(exch[x].piv) \in 1 .. 5
  /\ \A x \in Heard : heard[x].stage \in {"new", "separate", "done"}

\* what becomes of s where it goes
Outcome(s) == Received(s.m)

\* Whatever the receiving engine gets is the packet the sending engine built,
\* block options, merged paths and the number of a notification included; of a
\* protected one only what is meant for proxies is missing.  It gets no stray,
\* one with an option outside that belongs inside included.
Delivered ==
  \A s \in wire : \A r \in {Outcome(s)} :
    LET lost == IF IsOscore(s.m) THEN Outer \cup {Opt.MaxAge} ELSE {}
        kept == DOMAIN s.packet.opts \ lost
    IN r.error = 0 =>
         /\ s.from # "stray"
         /\ r.packet = [s.packet EXCEPT !.opts = [n \in kept |-> s.packet.opts[n]]]

\* What one of the two devices protects the other can verify, whenever it comes:
\* the peers agree on nonce and additional data of every kind of message.  Not so
\* once a request was retransmitted, whose callback has only the last partial IV.
PeersVerify ==
  \A s \in {t \in wire : t.of # 0} :
    Outcome(s).error \in {Code.BadRequest, Code.BadOption}
    => s.from = "server" /\ exch[s.of].retrans > 0

\* No key encrypts two messages with one nonce, those aside that belong to a
\* retransmitted request, which shares its sequence number with the next one.
NoncesDistinct ==
  \A s, t \in {u \in wire : u.of # 0 /\ IsOscore(u.m) /\ exch[u.of].retrans = 0} :
    s # t /\ s.from = t.from => s.m.payload[1].nonce # t.m.payload[1].nonce

\* The server's engine answers a protected request in plain only if it observes
\* (the partial IV of a FETCH is not kept); whatever else is plain is an error of
\* the OSCORE layer.
AnswersProtected ==
  \A s \in {t \in wire : t.of # 0} :
    s.from = "server" /\ ~IsOscore(s.m) /\ Opt.MaxAge \notin DOMAIN s.packet.opts
    => Opt.Observe \in DOMAIN exch[s.of].packet.opts

\* What one engine hands down the other gets, unchanged, protected and verified.
MessagesArrive == TypeOK /\ Delivered /\ PeersVerify /\ AnswersProtected

\* The comment on responses, that one is sent in plain when the request was not
\* protected.  Registrations of observers are protected and answered in plain.
ResponsesProtected ==
  \A s \in {t \in wire : t.of # 0} :
    s.from = "server" /\ ~IsOscore(s.m) => Opt.MaxAge \in DOMAIN s.packet.opts
=============================================================================
