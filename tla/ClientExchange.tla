--------------------------- MODULE ClientExchange ---------------------------
(***************************************************************************)
(* The client side of OSCORE-protected exchanges: dispatch of a request    *)
(* (api/oc_client_api.c), client callbacks (api/oc_ri.c), retransmission   *)
(* (messaging/coap/transactions.c), the sequence numbers that protect the  *)
(* messages (security/oc_oscore_engine.c, oc_oscore_context.c) and the     *)
(* reception of responses and Echo challenges (messaging/coap/engine.c).   *)
(*                                                                         *)
(* A message ID and a token are always drawn together, so one number, the  *)
(* id of an exchange, stands for both.  The requests go to one peer under  *)
(* one access token: one sender context.  The endpoint has the OSCORE flag *)
(* and not SECURED, so that oc_send_message tracks no message for an Echo  *)
(* retransmission.  The event queue is emptied before a timer of           *)
(* seconds can expire, so a message is protected in the step that sends it.*)
(*                                                                         *)
(* The network loses, delays, duplicates and reorders: wire only grows,    *)
(* and the peer may answer any message of it, any number of times.         *)
(***************************************************************************)
EXTENDS Integers, FiniteSets

CONSTANTS
  Requests,       \* requests the application makes
  MaxRetransmit,  \* COAP_MAX_RETRANSMIT
  K, F,           \* OSCORE_SSN_WRITE_FREQ_K, OSCORE_SSN_PAD_F
  PeerMids,       \* message IDs the peer draws; 0 stands for one no exchange has
  MaxId,          \* bound on the ids drawn
  MaxSSN,         \* bound on the sequence numbers
  MaxEpoch        \* bound on the times the context is built

ASSUME RequestAssumption == IsFiniteSet(Requests)
ASSUME RetransmitAssumption == MaxRetransmit \in Nat \ {0}
ASSUME SsnAssumption == K \in Nat \ {0} /\ F \in Nat
ASSUME BoundAssumption ==
  MaxId \in Nat /\ MaxSSN \in Nat /\ MaxEpoch \in Nat /\ PeerMids \subseteq Nat

VARIABLES
  ssn,      \* ctx->ssn of the sender context
  stored,   \* the sequence number last written to storage; 0 when none was
  epoch,    \* ghost: how often the context has been built
  next,     \* the next id: coap_get_mid() and a random token
  trans,    \* transactions_list, by id
  cb,       \* client_cbs, by request: id 0 when the callback is freed
  phase,    \* of a request: "idle", "open", or how it ended
  con,      \* ghost: the requests sent with HIGH_QOS
  moved,    \* ghost: the requests whose transaction an Echo challenge, or a message
            \* of the peer with its message ID, has ended
  calls,    \* ghost: how often the handler of a request was invoked
  wire,     \* the protected messages sent so far
  crashed   \* a NULL client callback was dereferenced

vars == <<ssn, stored, epoch, next, trans, cb, phase, con, moved, calls, wire,
          crashed>>

Ids == 1 .. MaxId
Phases == {"idle", "open", "answered", "unavailable", "expired", "no handler",
           "rebooted"}

\* piv is t->message->endpoint.request_piv, cb->piv
Transaction == [open : BOOLEAN, retrans : Nat, piv : Nat]
Callback == [id : 0 .. MaxId, piv : Nat]
\* fresh: not a retransmission by the transaction timer
Message == [id : Ids, piv : Nat, fresh : BOOLEAN, epoch : Nat]

NoTransaction == [open |-> FALSE, retrans |-> 0, piv |-> 0]
NoCallback == [id |-> 0, piv |-> 0]

-----------------------------------------------------------------------------
(* The sequence number.                                                    *)

\* mutant: the counter goes on only when the write to storage succeeds
IncrementWhenStored ==
  /\ ssn < MaxSSN
  /\ \/ ssn' = ssn + 1 /\ stored' = IF (ssn + 1) % K = 0 THEN ssn + 1 ELSE stored
     \/ (ssn + 1) % K = 0 /\ UNCHANGED <<ssn, stored>>

\* increment_ssn_in_context; the result of the write to storage is ignored
IncrementSsn ==
  /\ ssn < MaxSSN
  /\ ssn' = ssn + 1
  /\ \/ stored' = stored
     \/ (ssn + 1) % K = 0 /\ stored' = ssn + 1

\* the message that goes out under the current sequence number
Protected(x, fresh) == [id |-> x, piv |-> ssn, fresh |-> fresh, epoch |-> epoch]

-----------------------------------------------------------------------------
(* Sending.                                                                *)

Init ==
  /\ ssn = K + F
  /\ stored = 0
  /\ epoch = 0
  /\ next = 1
  /\ trans = [x \in Ids |-> NoTransaction]
  /\ cb = [r \in Requests |-> NoCallback]
  /\ phase = [r \in Requests |-> "idle"]
  /\ con = {}
  /\ moved = {}
  /\ calls = [r \in Requests |-> 0]
  /\ wire = {}
  /\ crashed = FALSE

\* a new transaction for the id drawn; a NON transaction is cleared when sent
NewTransaction(isCon) ==
  IF isCon THEN [trans EXCEPT ![next] = [open |-> TRUE, retrans |-> 0, piv |-> ssn]]
           ELSE trans

\* dispatch_coap_request and the protection of the request
Dispatch(r, isCon) ==
  /\ ~crashed /\ phase[r] = "idle" /\ next \in Ids
  /\ IncrementSsn
  /\ next' = next + 1
  /\ trans' = NewTransaction(isCon)
  /\ cb' = [cb EXCEPT ![r] = [id |-> next, piv |-> ssn]]
  /\ phase' = [phase EXCEPT ![r] = "open"]
  /\ con' = IF isCon THEN con \cup {r} ELSE con
  /\ wire' = wire \cup {Protected(next, TRUE)}
  /\ UNCHANGED <<epoch, moved, calls, crashed>>

\* the same without a response handler: the callback is freed before the OSCORE
\* process looks for it, which consumes the SSN and drops the request
DispatchNoHandler(r, isCon) ==
  /\ ~crashed /\ phase[r] = "idle" /\ next \in Ids
  /\ IncrementSsn
  /\ next' = next + 1
  /\ trans' = [NewTransaction(isCon) EXCEPT ![next].piv = 0]
  /\ phase' = [phase EXCEPT ![r] = "no handler"]
  /\ UNCHANGED <<epoch, cb, con, moved, calls, wire, crashed>>

\* coap_check_transactions, coap_send_transaction before the last attempt: the
\* message is protected again, with the current SSN, which is not incremented;
\* without a client callback it is dropped
Retransmit(x) ==
  /\ ~crashed /\ trans[x].open /\ trans[x].retrans + 1 < MaxRetransmit
  /\ IF \E r \in Requests : cb[r].id = x
       THEN /\ trans' = [trans EXCEPT ![x].retrans = @ + 1, ![x].piv = ssn]
            /\ cb' = [r \in Requests |->
                        IF cb[r].id = x THEN [cb[r] EXCEPT !.piv = ssn] ELSE cb[r]]
            /\ wire' = wire \cup {Protected(x, FALSE)}
       ELSE /\ trans' = [trans EXCEPT ![x].retrans = @ + 1]
            /\ UNCHANGED <<cb, wire>>
  /\ UNCHANGED <<ssn, stored, epoch, next, phase, con, moved, calls, crashed>>

\* mutant: the handler is invoked and the callback kept
SettleKeepingCallback(S, how) ==
  /\ calls' = [r \in Requests |-> IF r \in S THEN calls[r] + 1 ELSE calls[r]]
  /\ phase' = [r \in Requests |-> IF r \in S THEN how ELSE phase[r]]
  /\ cb' = cb

\* the handlers of the requests in S are invoked and their callbacks freed
Settle(S, how) ==
  /\ calls' = [r \in Requests |-> IF r \in S THEN calls[r] + 1 ELSE calls[r]]
  /\ phase' = [r \in Requests |-> IF r \in S THEN how ELSE phase[r]]
  /\ cb' = [r \in Requests |-> IF r \in S THEN NoCallback ELSE cb[r]]

CallbacksOf(x) == {r \in Requests : cb[r].id = x}

\* mutant: the transaction is cleared and the handler not told
TimeoutUnnoticed(x) ==
  /\ ~crashed /\ trans[x].open /\ trans[x].retrans + 1 >= MaxRetransmit
  /\ trans' = [trans EXCEPT ![x] = NoTransaction]
  /\ UNCHANGED <<ssn, stored, epoch, next, cb, phase, con, moved, calls, wire, crashed>>

\* coap_send_transaction after the last attempt: oc_ri_free_client_cbs_by_mid
\* tells the handler "service unavailable", the transaction is cleared
Timeout(x) ==
  /\ ~crashed /\ trans[x].open /\ trans[x].retrans + 1 >= MaxRetransmit
  /\ Settle(CallbacksOf(x), "unavailable")
  /\ trans' = [trans EXCEPT ![x] = NoTransaction]
  /\ UNCHANGED <<ssn, stored, epoch, next, con, moved, wire, crashed>>

\* mutant: the delayed callback is set for LOW_QOS only
ExpireNonOnly(r) ==
  /\ ~crashed /\ phase[r] = "open" /\ r \notin con
  /\ phase' = [phase EXCEPT ![r] = "expired"]
  /\ cb' = [cb EXCEPT ![r] = NoCallback]
  /\ UNCHANGED <<ssn, stored, epoch, next, trans, con, moved, calls, wire, crashed>>

\* oc_ri_remove_client_cb, OC_NON_LIFETIME or OC_EXCHANGE_LIFETIME after the
\* dispatch: the callback is freed and nobody is told.  A transaction ends
\* before the exchange lifetime does; one that an Echo challenge started need not
Expire(r) ==
  /\ ~crashed /\ phase[r] = "open"
  /\ r \in con \ moved => ~trans[cb[r].id].open
  /\ phase' = [phase EXCEPT ![r] = "expired"]
  /\ cb' = [cb EXCEPT ![r] = NoCallback]
  /\ UNCHANGED <<ssn, stored, epoch, next, trans, con, moved, calls, wire, crashed>>

\* oc_oscore_send_multicast_message, and a separate (CON) or empty response of
\* oc_oscore_send_message: a message of its own under a new SSN
SendUnsolicited ==
  /\ ~crashed /\ next \in Ids
  /\ IncrementSsn
  /\ next' = next + 1
  /\ wire' = wire \cup {Protected(next, TRUE)}
  /\ UNCHANGED <<epoch, trans, cb, phase, con, moved, calls, crashed>>

\* a piggybacked response is bound to the PIV of its request, and consumes an
\* SSN nevertheless
Respond ==
  /\ ~crashed
  /\ IncrementSsn
  /\ UNCHANGED <<epoch, next, trans, cb, phase, con, moved, calls, wire, crashed>>

-----------------------------------------------------------------------------
(* Receiving an answer to message m; mid is the answer's message ID.       *)

\* oc_oscore_recv_message: the request's PIV comes from the client callback of
\* the token, else from the transaction of the token or of the message ID
TransactionOf(x, mid) ==
  IF trans[x].open THEN x
  ELSE IF mid \in Ids /\ trans[mid].open THEN mid ELSE 0

Decrypts(m, mid) ==
  IF CallbacksOf(m.id) # {}
    THEN \A r \in CallbacksOf(m.id) : cb[r].piv = m.piv
    ELSE LET x == TransactionOf(m.id, mid) IN x # 0 /\ trans[x].piv = m.piv

\* coap_receive looks for the message ID first
AnsweredTransaction(x, mid) ==
  IF mid \in Ids /\ trans[mid].open THEN mid
  ELSE IF trans[x].open THEN x ELSE 0

\* an ACK repeats the message ID of the request; NON and CON have their own
AnswerMids(m, type) == IF type = "ACK" THEN {m.id} ELSE PeerMids

\* coap_receive: only a CON answer clears the transaction
ClearedBy(x, type) ==
  IF type = "CON" /\ x # 0 THEN [trans EXCEPT ![x] = NoTransaction] ELSE trans

\* ghost: the requests whose transaction is cleared so
Displaced(x, type) == IF type = "CON" /\ x # 0 THEN CallbacksOf(x) ELSE {}

\* a response with a code other than the Echo challenge
ReceiveResponse(m, type, mid) ==
  /\ ~crashed /\ mid \in AnswerMids(m, type)
  /\ Decrypts(m, mid)
  /\ trans' = ClearedBy(AnsweredTransaction(m.id, mid), type)
  /\ Settle(CallbacksOf(m.id), "answered")
  /\ moved' = moved \cup Displaced(AnsweredTransaction(m.id, mid), type)
  /\ UNCHANGED <<ssn, stored, epoch, next, con, wire, crashed>>

\* 4.01 with an Echo option and a transaction: the request is sent again with
\* the option, under a new id, in a new transaction; the client callback found
\* by the old message ID, which is not checked for NULL, moves to the new id
ReceiveChallenge(m, type, mid) ==
  LET x == AnsweredTransaction(m.id, mid) IN
  /\ ~crashed /\ mid \in AnswerMids(m, type)
  /\ Decrypts(m, mid)
  /\ x # 0
  /\ \/ /\ CallbacksOf(x) = {}
        /\ crashed' = TRUE
        /\ UNCHANGED <<ssn, stored, epoch, next, trans, cb, phase, con, moved, calls, wire>>
     \/ \E r \in CallbacksOf(x) :
          /\ next \in Ids
          /\ IncrementSsn
          /\ next' = next + 1
          /\ trans' = [NewTransaction(TRUE) EXCEPT ![x] = NoTransaction]
          /\ cb' = [cb EXCEPT ![r] = [id |-> next, piv |-> ssn]]
          /\ moved' = moved \cup {r}
          /\ wire' = wire \cup {Protected(next, TRUE)}
          /\ UNCHANGED <<epoch, phase, con, calls, crashed>>

\* coap_receive looks for a transaction before it looks at the code: a CON
\* request of the peer ends the exchange that happens to have its message ID
ReceiveRequest(mid) ==
  /\ ~crashed /\ mid \in PeerMids \cap Ids /\ trans[mid].open
  /\ trans' = ClearedBy(mid, "CON")
  /\ moved' = moved \cup Displaced(mid, "CON")
  /\ UNCHANGED <<ssn, stored, epoch, next, cb, phase, con, calls, wire, crashed>>

\* Without a transaction the challenge is dropped: the original message is
\* gone.  So is an answer that does not decrypt, and an empty ACK, in the clear,
\* only announces a separate response: none of these changes the state.

-----------------------------------------------------------------------------
(* The life of the context.                                                *)

\* oc_init_oscore_from_storage(.., FALSE), after every POST to /auth/at that
\* brings key material, of any token: the context is built again from SSN 0
RebuildContext ==
  /\ ~crashed /\ epoch < MaxEpoch
  /\ ssn' = 0
  /\ epoch' = epoch + 1
  /\ UNCHANGED <<stored, next, trans, cb, phase, con, moved, calls, wire, crashed>>

\* power cycle: oc_init_oscore_from_storage(.., TRUE) starts at 0 as well, and
\* oc_oscore_add_context adds K + F; the stored value is not read
Reboot ==
  /\ epoch < MaxEpoch
  /\ ssn' = K + F
  /\ epoch' = epoch + 1
  /\ trans' = [x \in Ids |-> NoTransaction]
  /\ cb' = [r \in Requests |-> NoCallback]
  /\ phase' = [r \in Requests |-> IF phase[r] = "open" THEN "rebooted" ELSE phase[r]]
  /\ crashed' = FALSE
  /\ UNCHANGED <<stored, next, con, moved, calls, wire>>

Types == {"ACK", "NON", "CON"}

Next ==
  \/ \E r \in Requests, isCon \in BOOLEAN : Dispatch(r, isCon)
  \/ \E r \in Requests, isCon \in BOOLEAN : DispatchNoHandler(r, isCon)
  \/ \E x \in Ids : Retransmit(x)
  \/ \E x \in Ids : Timeout(x)
  \/ \E r \in Requests : Expire(r)
  \/ SendUnsolicited
  \/ Respond
  \/ \E m \in wire, type \in Types, mid \in 0 .. MaxId : ReceiveResponse(m, type, mid)
  \/ \E m \in wire, type \in Types, mid \in 0 .. MaxId : ReceiveChallenge(m, type, mid)
  \/ \E mid \in PeerMids : ReceiveRequest(mid)
  \/ RebuildContext
  \/ Reboot

Spec == Init /\ [][Next]_vars

\* the event loop polls every timer and every delayed callback
Fairness ==
  /\ \A x \in Ids : WF_vars(Retransmit(x) \/ Timeout(x))
  /\ \A r \in Requests : WF_vars(Expire(r))

FairSpec == Spec /\ Fairness

-----------------------------------------------------------------------------
(* Properties.                                                             *)

\* The types of the counters, transactions, callbacks and messages.
TypeOK ==
  /\ ssn \in Nat /\ stored \in Nat /\ epoch \in Nat
  /\ next \in 1 .. MaxId + 1
  /\ trans \in [Ids -> Transaction]
  /\ cb \in [Requests -> Callback]
  /\ phase \in [Requests -> Phases]
  /\ con \subseteq Requests /\ moved \subseteq Requests
  /\ calls \in [Requests -> Nat]
  /\ wire \subseteq Message
  /\ crashed \in BOOLEAN

\* "function invoked once the client has received the servers response"
\* (include/oc_api.h): whatever is duplicated, retransmitted, challenged or
\* timed out, the handler of a request is never invoked a second time.
HandlerAtMostOnce == \A r \in Requests : calls[r] <= 1

\* While a context lives, no two messages other than retransmissions are
\* protected with the same partial IV: requests, Echo retries, group messages
\* and separate responses never share an AEAD nonce.
FreshPivsDistinct ==
  \A m, n \in wire :
    m.fresh /\ n.fresh /\ m.epoch = n.epoch /\ m.id # n.id => m.piv # n.piv

\* A confirmable request that keeps its transaction until it is answered, that
\* is, whose transaction neither an Echo challenge nor a message of the peer
\* with its message ID has ended, is never given up silently: its handler hears
\* the response or the timeout before the exchange lifetime frees the callback.
ConNeverSilent == \A r \in con \ moved : phase[r] # "expired"

\* Every request whose callback is open ends: it is answered, times out or
\* expires, unless the process stops.
RequestsEnd == \A r \in Requests : phase[r] = "open" ~> (phase[r] # "open" \/ crashed)

\* "To prevent SSN reuse, bump to higher value that could've been previously
\* used" (oc_oscore_context.c): no partial IV is used again for another message
\* after the context was read from storage.
NoSsnReuse == \A m, n \in wire : m.fresh /\ n.fresh /\ m.id # n.id => m.piv # n.piv
=============================================================================
