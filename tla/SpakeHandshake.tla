--------------------------- MODULE SpakeHandshake ---------------------------
(***************************************************************************)
(* The SPAKE2+ handshake by which a management client gets its first       *)
(* access token: the device (/.well-known/knx/spake of api/oc_knx.c, the   *)
(* separate response of messaging/coap/separate.c, the lock-out counter)   *)
(* and the clients (api/oc_knx_client.c), over a network that delays and   *)
(* duplicates; what it loses is a message that never arrives.              *)
(*                                                                         *)
(* The curve arithmetic is an ideal function: two sides have the same      *)
(* K_main exactly when both shares, and the w0 made from password and      *)
(* salt, are the same.  The device keeps one handshake in global variables *)
(* whoever takes part in it, and answers from a delayed callback.          *)
(***************************************************************************)
EXTENDS Integers, FiniteSets, Sequences, SequencesExt

CONSTANTS
  Clients,       \* management clients, each with one handshake in globals
  Others,        \* the clients that also send other requests there
  Knows,         \* the clients that were given the password of the device
  MaxFailed,     \* failures after which the device blocks, 10 in the code
  HasParameters, \* whether oc_spake_set_parameters stored w0, L, salt and rand
  MaxRequests,   \* bound: requests of each client
  MaxCopies,     \* bound: duplicated requests
  MaxTotal       \* bound: requests and duplicates together

ASSUME HandshakeAssumption ==
  /\ Knows \subseteq Clients /\ Others \subseteq Clients
  /\ MaxFailed \in Nat
  /\ HasParameters \in BOOLEAN
  /\ MaxRequests \in [Clients -> Nat] /\ MaxCopies \in Nat
  /\ MaxTotal \in Nat

VARIABLES
  pase,         \* g_pase and spake_data: salt, id, pa, pb, ca, K_main
  validRequest, \* valid_request: what the last request was about
  separate,     \* spake_separate_rsp.requests
  active,       \* spake_separate_rsp.active
  callbacks,    \* delayed callbacks of the handler that have not run
  failed,       \* failed_handshake_count
  blocking,     \* is_blocking
  granted,      \* the tokens set by oc_oscore_set_auth_device, in order
  client,       \* per client: w, pa and K_main
  waiting,      \* the client callbacks that wait for a response
  clientTokens, \* the tokens set by oc_oscore_set_auth_mac
  net,          \* requests and responses under way
  fresh,        \* random values the device drew: salts and key pairs
  used, copies, \* counters of requests and duplicates
  promised      \* ghost: the largest max_age not over yet, in timer periods

device == <<pase, validRequest, separate, active, callbacks, failed, blocking,
            granted, promised, fresh>>
clients == <<client, waiting, clientTokens>>
vars == <<device, clients, net, used, copies>>

DefaultId == "rkey"
Ids == Nat \ {0}
Kinds == {"rnd", "pa", "ca"}

\* Salts are numbers: 0 the wiped one, then the ones the device drew; below 0 the
\* one of the stored parameters, and what an uninitialised pointer points to
Fixed   == -1
Garbage == -2
Salts   == Nat \cup {Fixed}

\* w0 (and L or w1): a function of the password and the salt
Secret(known, salt) == [password |-> known, salt |-> salt]
DeviceSecret ==
  Secret(TRUE, IF HasParameters THEN Fixed ELSE pase.salt)

\* K_main, the hash of the transcript; confirmP is made of it and of pB
Transcript(pa, pb, w) == <<pa, pb, w>>
ConfirmP(k, pb) == <<k, pb>>

\* What a wiped buffer holds
NoSecret  == Secret(FALSE, 0)
NoShare   == [x |-> 0, c |-> "none", w |-> NoSecret]
NoKey     == <<>>
NoConfirm == <<>>
Wiped(id) ==
  [salt |-> 0, id |-> id, pa |-> NoShare, pb |-> NoShare, ca |-> NoConfirm,
   k |-> NoKey]
NoSecrets == [w |-> NoSecret, pa |-> NoShare, k |-> NoKey]

Request(c, kind, body) ==
  [to |-> "device", c |-> c, n |-> used[c] + 1, kind |-> kind, body |-> body]
Response(r, code, kind, body) ==
  [to |-> "client", c |-> r.c, n |-> r.n, code |-> code, kind |-> kind,
   body |-> body]

-----------------------------------------------------------------------------
(* The lock-out *)

is_handshake_blocked == blocking \/ failed > MaxFailed

get_seconds_until_unblocked == failed     \* times 10, the period of the timer

\* decrement_counter, every ten seconds
DecrementCounter ==
  /\ failed > 0 \/ blocking
  /\ failed' = IF failed > 0 THEN failed - 1 ELSE failed
  /\ blocking' = (blocking /\ failed' # 0)
  /\ promised' = IF promised > 0 THEN promised - 1 ELSE promised
  /\ UNCHANGED <<pase, validRequest, separate, active, callbacks, granted,
                 fresh, clients, net, used, copies>>

-----------------------------------------------------------------------------
(* The device *)

Spent == FoldFunction(+, 0, used) + copies

\* A request is taken off the network, or is going to arrive once more
Taken(r) ==
  /\ r \in net /\ r.to = "device"
  /\ \/ net' = net \ {r} /\ copies' = copies
     \/ /\ copies < MaxCopies /\ Spent < MaxTotal
        /\ net' = net /\ copies' = copies + 1

\* Mutant: the promise is one period short
PostBlockedShort(r) ==
  /\ is_handshake_blocked
  /\ r \in net /\ r.to = "device"
  /\ blocking' = TRUE
  /\ promised' = get_seconds_until_unblocked - 1
  /\ net' = (net \ {r}) \cup {Response(r, "blocked", "none", 0)}
  /\ UNCHANGED <<pase, validRequest, separate, active, callbacks, failed,
                 granted, fresh, clients, used, copies>>

\* 5.03 with max_age
PostBlocked(r) ==
  /\ is_handshake_blocked
  /\ r \in net /\ r.to = "device"
  /\ blocking' = TRUE
  /\ promised' = get_seconds_until_unblocked
  /\ net' = (net \ {r}) \cup {Response(r, "blocked", "none", 0)}
  /\ UNCHANGED <<pase, validRequest, separate, active, callbacks, failed,
                 granted, fresh, clients, used, copies>>

\* No known byte string in the payload: 4.00, and valid_request is reset
PostUnknown(r) ==
  /\ ~ is_handshake_blocked
  /\ r.kind = "unknown"
  /\ r \in net /\ r.to = "device"
  /\ validRequest' = "none"
  /\ net' = (net \ {r}) \cup {Response(r, "bad", "none", 0)}
  /\ UNCHANGED <<pase, separate, active, callbacks, failed, blocking, granted,
                 fresh, promised, clients, used, copies>>

\* coap_separate_accept: an inactive handle starts with an empty list, and a
\* request is stored once per token
Accepted(r) ==
  /\ separate' = (IF active THEN separate ELSE <<>>) \o
       IF active /\ \E i \in DOMAIN separate :
            separate[i].c = r.c /\ separate[i].n = r.n
       THEN <<>> ELSE <<[c |-> r.c, n |-> r.n]>>
  /\ active' = TRUE

\* oc_core_knx_spake_post_handler: copies the input to the globals, asks for a
\* separate response and for the delayed callback
Post(r) ==
  /\ ~ is_handshake_blocked
  /\ r.kind \in Kinds
  /\ Taken(r)
  /\ validRequest' = r.kind
  /\ pase' = CASE r.kind = "rnd" -> [pase EXCEPT !.id = r.body]
               [] r.kind = "pa"  -> [pase EXCEPT !.pa = r.body]
               [] r.kind = "ca"  -> [pase EXCEPT !.ca = r.body]
  /\ Accepted(r)
  /\ callbacks' = callbacks + 1
  /\ UNCHANGED <<failed, blocking, granted, fresh, promised,
                 clients, used>>

\* oc_send_separate_response: every stored request gets this response
Answer(code, kind, body) ==
  /\ net' = net \cup {Response(separate[i], code, kind, body) :
                        i \in DOMAIN separate}
  /\ separate' = <<>>
  /\ active' = FALSE

\* The head of oc_core_knx_spake_separate_post_handler
Called ==
  /\ callbacks > 0
  /\ callbacks' = callbacks - 1

CallbackInactive ==
  /\ Called
  /\ ~ active
  /\ UNCHANGED <<pase, validRequest, separate, active, failed, blocking,
                 granted, fresh, promised, clients, net, used, copies>>

\* oc_spake_get_pbkdf_params: the stored parameters or a new salt
AnswerRnd ==
  /\ Called /\ active
  /\ validRequest = "rnd"
  /\ LET salt == IF HasParameters THEN Fixed ELSE fresh + 1
     IN  /\ pase' = [pase EXCEPT !.salt = salt]
         /\ Answer("changed", "rnd", salt)
  /\ fresh' = fresh + 1
  /\ UNCHANGED <<validRequest, failed, blocking, granted, promised, clients,
                 used, copies>>

\* A new key pair of the device, pB, and the transcript with the stored pA
AnswerPa ==
  /\ Called /\ active
  /\ validRequest = "pa"
  /\ LET pb == [x |-> fresh + 1, c |-> "device", w |-> DeviceSecret]
     IN  /\ pase' = [pase EXCEPT !.pb = pb,
                                 !.k = Transcript(pase.pa, pb, DeviceSecret)]
         /\ Answer("changed", "pa", pb)
  /\ fresh' = fresh + 1
  /\ UNCHANGED <<validRequest, failed, blocking, granted, promised, clients,
                 used, copies>>

\* Mutant: the confirmation is not compared
AnswerCaBlind ==
  /\ Called /\ active
  /\ validRequest = "ca"
  /\ granted' = Append(granted, [id |-> pase.id, key |-> pase.k])
  /\ pase' = Wiped(pase.id)
  /\ Answer("changed", "none", 0)
  /\ UNCHANGED <<validRequest, failed, blocking, fresh, promised, clients, used,
                 copies>>

\* Mutant: the client is not answered
AnswerCaSilent ==
  /\ Called /\ active
  /\ validRequest = "ca"
  /\ pase.ca = ConfirmP(pase.k, pase.pb)
  /\ granted' = Append(granted, [id |-> pase.id, key |-> pase.k])
  /\ pase' = Wiped(pase.id)
  /\ UNCHANGED <<validRequest, separate, active, failed, blocking, fresh,
                 promised, clients, net, used, copies>>

\* The confirmation fits: the token is set and the handshake is wiped
AnswerCa ==
  /\ Called /\ active
  /\ validRequest = "ca"
  /\ pase.ca = ConfirmP(pase.k, pase.pb)
  /\ granted' = Append(granted, [id |-> pase.id, key |-> pase.k])
  /\ pase' = Wiped(pase.id)
  /\ Answer("changed", "none", 0)
  /\ UNCHANGED <<validRequest, failed, blocking, fresh, promised, clients,
                 used, copies>>

\* The label error: everything is wiped and the failure is counted.  A
\* confirmation that does not fit, a request whose kind was reset, and
\* arithmetic that fails while the key pair or the transcript is made.
AnswerError ==
  /\ Called /\ active
  /\ \/ validRequest \in {"pa", "none"}
     \/ validRequest = "ca" /\ pase.ca # ConfirmP(pase.k, pase.pb)
  /\ pase' = Wiped(pase.id)
  /\ failed' = failed + 1
  /\ Answer("bad", "none", 0)
  /\ UNCHANGED <<validRequest, blocking, granted, fresh, promised, clients,
                 used, copies>>

-----------------------------------------------------------------------------
(* The clients *)

\* Bound: a client has requests left
CanSend(c) ==
  /\ used[c] < MaxRequests[c] /\ Spent < MaxTotal
  /\ used' = [used EXCEPT ![c] = @ + 1]

\* oc_initiate_spake_parameter_request
Initiate(c) ==
  /\ CanSend(c)
  /\ waiting' = waiting \cup {[c |-> c, n |-> used[c] + 1, kind |-> "rnd"]}
  /\ net' = net \cup {Request(c, "rnd", c)}
  /\ UNCHANGED <<device, client, clientTokens, copies>>

\* A request to the same resource without any of the three byte strings, by
\* something else that runs on the client and does not look at the response
SendUnknown(c) ==
  /\ CanSend(c)
  /\ net' = net \cup {Request(c, "unknown", 0)}
  /\ UNCHANGED <<device, clients, copies>>

\* The callback of the request a response belongs to, removed when it returns
Delivered(m, e) ==
  /\ m \in net /\ m.to = "client"
  /\ e \in waiting /\ e.c = m.c /\ e.n = m.n

\* do_credential_exchange.  A payload without the salt leaves the pointer
\* uninitialised.
CredentialExchange(m, e) ==
  /\ Delivered(m, e)
  /\ e.kind = "rnd" /\ m.code = "changed"
  /\ CanSend(m.c)
  /\ LET salt == IF m.kind = "rnd" THEN m.body ELSE Garbage
         w    == Secret(m.c \in Knows, salt)
         pa   == [x |-> used[m.c] + 1, c |-> m.c, w |-> w]
     IN  /\ client' = [client EXCEPT ![m.c].w = w, ![m.c].pa = pa]
         /\ net' = (net \ {m}) \cup {Request(m.c, "pa", pa)}
  /\ waiting' = (waiting \ {e}) \cup {[c |-> m.c, n |-> used[m.c] + 1, kind |-> "pa"]}
  /\ UNCHANGED <<device, clientTokens, copies>>

\* do_credential_verification: the confirmation of the device is computed and
\* not compared.  A payload without pB is a null pointer: see Crashes.
CredentialVerification(m, e) ==
  /\ Delivered(m, e)
  /\ e.kind = "pa" /\ m.code = "changed" /\ m.kind = "pa"
  /\ CanSend(m.c)
  /\ LET k == Transcript(client[m.c].pa, m.body, client[m.c].w)
     IN  /\ client' = [client EXCEPT ![m.c].k = k]
         /\ net' = (net \ {m}) \cup {Request(m.c, "ca", ConfirmP(k, m.body))}
  /\ waiting' = (waiting \ {e}) \cup {[c |-> m.c, n |-> used[m.c] + 1, kind |-> "ca"]}
  /\ UNCHANGED <<device, clientTokens, copies>>

\* do_credential_verification without pB, or do_credential_exchange with the
\* uninitialised pointer: the client stops
Crashes(m, e) ==
  /\ Delivered(m, e)
  /\ m.code = "changed" /\ e.kind \in {"rnd", "pa"} /\ m.kind # e.kind
  /\ net' = {x \in net : x.c # m.c \/ x.to = "device"}
  /\ waiting' = {x \in waiting : x.c # m.c}
  /\ client' = [client EXCEPT ![m.c] = NoSecrets]
  /\ UNCHANGED <<device, clientTokens, used, copies>>

\* finish_spake_handshake: the token with the shared key is set
Finish(m, e) ==
  /\ Delivered(m, e)
  /\ e.kind = "ca" /\ m.code = "changed"
  /\ clientTokens' = clientTokens \cup {[id |-> m.c, key |-> client[m.c].k]}
  /\ client' = [client EXCEPT ![m.c] = NoSecrets]
  /\ net' = net \ {m}
  /\ waiting' = waiting \ {e}
  /\ UNCHANGED <<device, used, copies>>

\* Any other code, the one of a timeout included: what the handshake had is
\* freed, K_main is kept.  After the first request nothing changes, which is the
\* same as a response that is never delivered.
Freed(c) == [client EXCEPT ![c].w = NoSecret, ![c].pa = NoShare]

Refused(m, e) ==
  /\ Delivered(m, e)
  /\ m.code # "changed" /\ e.kind \in {"pa", "ca"}
  /\ client' = Freed(m.c)
  /\ net' = net \ {m}
  /\ waiting' = waiting \ {e}
  /\ UNCHANGED <<device, clientTokens, used, copies>>

TimesOut(e) ==
  /\ e \in waiting /\ e.kind \in {"pa", "ca"}
  /\ waiting' = waiting \ {e}
  /\ client' = Freed(e.c)
  /\ UNCHANGED <<device, clientTokens, net, used, copies>>

-----------------------------------------------------------------------------
Init ==
  /\ pase = Wiped(DefaultId)
  /\ validRequest = "none"
  /\ separate = <<>> /\ active = FALSE /\ callbacks = 0
  /\ failed = 0 /\ blocking = FALSE /\ promised = 0
  /\ granted = <<>> /\ fresh = 0
  /\ client = [c \in Clients |-> NoSecrets]
  /\ waiting = {} /\ clientTokens = {}
  /\ net = {} /\ used = [c \in Clients |-> 0] /\ copies = 0

Callback ==
  CallbackInactive \/ AnswerRnd \/ AnswerPa \/ AnswerCa \/ AnswerError

Device == \E r \in net : PostBlocked(r) \/ PostUnknown(r) \/ Post(r)

ClientStep ==
  \/ \E c \in Clients : Initiate(c)
  \/ \E c \in Others : SendUnknown(c)
  \/ \E m \in net, e \in waiting :
       \/ CredentialExchange(m, e) \/ CredentialVerification(m, e)
       \/ Crashes(m, e) \/ Finish(m, e) \/ Refused(m, e)
  \/ \E e \in waiting : TimesOut(e)

Next ==
  \/ DecrementCounter
  \/ Device
  \/ Callback
  \/ ClientStep

Spec == Init /\ [][Next]_vars

\* The event loop runs delayed callbacks and the periodic timer
FairSpec == Spec /\ WF_vars(Callback) /\ WF_vars(DecrementCounter)

-----------------------------------------------------------------------------
(* Properties *)

\* The values the variables take (a type invariant).
TypeOK ==
  /\ pase.salt \in Salts /\ pase.id \in Clients \cup {DefaultId}
  /\ validRequest \in Kinds \cup {"none"}
  /\ separate \in Seq([c : Clients, n : Ids]) /\ active \in BOOLEAN
  /\ callbacks \in Nat /\ fresh \in Nat
  /\ failed \in 0 .. MaxFailed + 1 /\ blocking \in BOOLEAN
  /\ promised \in 0 .. MaxFailed + 1
  /\ waiting \subseteq [c : Clients, n : Ids, kind : Kinds]
  /\ \A c \in Clients : used[c] \in 0 .. MaxRequests[c] /\ copies \in 0 .. MaxCopies

\* What oc_core_knx_spake_separate_post_handler hands to
\* oc_oscore_set_auth_device: a token is the outcome of a handshake in which a
\* client that knows the password made its share, and in which both sides have
\* the same w0, whatever requests of other clients came in between.
TokensProven ==
  \A i \in DOMAIN granted :
    /\ granted[i].key # NoKey
    /\ LET pa == granted[i].key[1]
           w  == granted[i].key[3]
       IN  pa # NoShare /\ pa.w = w /\ w.password

\* A handshake is over with its first good confirmation: a confirmation that is
\* duplicated or retransmitted does not set the same token again.
OneTokenPerHandshake ==
  \A i, j \in DOMAIN granted : granted[i].key = granted[j].key => i = j

\* A token is proven, and set once.
TokensSound == TypeOK /\ TokensProven /\ OneTokenPerHandshake

\* Every 5.03 tells how long the lock-out lasts, and it is over by then: nothing
\* that was under way when the device blocked makes it longer.
RetryAfterKept == blocking => failed <= promised

\* The lock-out ends.
BlockingEnds == blocking ~> ~ blocking

\* Every request that got the empty acknowledgement gets a response, whatever
\* happens to the shared state before the delayed callback runs.
AcceptedAnswered == (separate # <<>>) ~> (separate = <<>>)

\* What a handshake began comes to its end.
HandshakesEnd == BlockingEnds /\ AcceptedAnswered

\* A client that finished its handshake has a token the device has too, see
\* oc_knx_client.h: "After the success full handshake the OSCORE context should
\* have ... RID : the recipient ID as given input".
FinishedHasToken ==
  \A t \in clientTokens : \E i \in DOMAIN granted : granted[i] = t

=============================================================================
