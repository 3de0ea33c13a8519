------------------------ MODULE ClientExchangeProofs ------------------------
(***************************************************************************)
(* The type invariant of ClientExchange, that the handler of a request is  *)
(* invoked at most once, that a confirmable request is not given up in     *)
(* silence and that fresh messages of one context never share a partial    *)
(* IV, for any number of requests, identifiers, sequence numbers and       *)
(* retransmissions.                                                        *)
(***************************************************************************)
EXTENDS ClientExchange, TLAPS

-----------------------------------------------------------------------------
(* The inductive invariant.                                                *)

\* A callback is in the list exactly while its request is open.
CallbacksOpen == \A r \in Requests : phase[r] = "open" <=> cb[r].id # 0

\* The id of a callback was drawn before.
CallbacksBehind == \A r \in Requests : cb[r].id < next

\* The handler was invoked once if the request ended with a response or a
\* timeout, and otherwise not at all.
CallsCounted ==
  \A r \in Requests :
    calls[r] = IF phase[r] \in {"answered", "unavailable"} THEN 1 ELSE 0

\* What is on the wire was sent under an id drawn before; what was sent afresh
\* in the present life of the context has a partial IV below the counter.
WireBehind ==
  \A m \in wire :
    /\ m.id < next /\ m.epoch <= epoch
    /\ m.fresh /\ m.epoch = epoch => m.piv < ssn

Inv ==
  /\ TypeOK
  /\ CallbacksOpen /\ CallbacksBehind /\ CallsCounted
  /\ WireBehind /\ FreshPivsDistinct

-----------------------------------------------------------------------------
(* What the helpers do to the invariant.                                   *)

\* Settling the callbacks of an id keeps callbacks, phases and calls in step.
LEMMA SettlePreserves ==
  ASSUME TypeOK, CallbacksOpen, CallbacksBehind, CallsCounted, NEW x \in Ids,
         NEW how \in {"answered", "unavailable"}, Settle(CallbacksOf(x), how),
         next' = next
  PROVE  /\ cb' \in [Requests -> Callback] /\ phase' \in [Requests -> Phases]
         /\ calls' \in [Requests -> Nat]
         /\ CallbacksOpen' /\ CallbacksBehind' /\ CallsCounted'
<1> USE BoundAssumption
<1> DEFINE S == CallbacksOf(x)
<1>1. S \subseteq Requests /\ \A r \in S : phase[r] = "open" /\ calls[r] = 0
  BY DEF CallbacksOf, CallbacksOpen, CallsCounted, Ids, TypeOK
<1>2. NoCallback \in Callback
  BY DEF NoCallback, Callback
<1>3. cb' \in [Requests -> Callback]
  BY <1>2 DEF Settle, TypeOK
<1>4. phase' \in [Requests -> Phases]
  BY DEF Settle, TypeOK, Phases
<1>5. calls' \in [Requests -> Nat]
  BY DEF Settle, TypeOK
<1>6. CallbacksOpen'
  BY <1>1 DEF Settle, TypeOK, CallbacksOpen, NoCallback
<1>7. CallsCounted'
  BY <1>1 DEF Settle, TypeOK, CallsCounted
<1>8. CallbacksBehind'
  BY <1>1 DEF Settle, TypeOK, CallbacksBehind, NoCallback
<1> QED
  BY <1>3, <1>4, <1>5, <1>6, <1>7, <1>8

\* A message protected under an id just drawn, as the counter goes on, is
\* unlike every fresh message before it.
LEMMA SendingPreserves ==
  ASSUME TypeOK, WireBehind, FreshPivsDistinct, IncrementSsn, next \in Ids,
         next' = next + 1, epoch' = epoch,
         wire' = wire \cup {Protected(next, TRUE)}
  PROVE  /\ ssn' \in Nat /\ stored' \in Nat /\ next' \in 1 .. MaxId + 1
         /\ wire' \subseteq Message /\ WireBehind' /\ FreshPivsDistinct'
<1> USE BoundAssumption
<1>1. ssn' = ssn + 1 /\ ssn' \in Nat /\ stored' \in Nat
  BY DEF IncrementSsn, TypeOK
<1>2. next' \in 1 .. MaxId + 1
  BY DEF TypeOK, Ids
<1>3. Protected(next, TRUE) \in Message
  BY DEF Protected, Message, TypeOK
<1>4. wire' \subseteq Message
  BY <1>3 DEF TypeOK
<1>5. WireBehind'
  BY <1>1, <1>2, <1>4 DEF WireBehind, Protected, TypeOK, Message, Ids
<1>6. FreshPivsDistinct'
  BY <1>1 DEF FreshPivsDistinct, WireBehind, Protected, TypeOK, Message, Ids
<1> QED
  BY <1>1, <1>2, <1>4, <1>5, <1>6

\* The counter may go on with nothing on the wire, as may the ids.
LEMMA CountingPreserves ==
  ASSUME TypeOK, WireBehind, FreshPivsDistinct, IncrementSsn, epoch' = epoch,
         next' \in {next, next + 1}, wire' = wire
  PROVE  /\ ssn' \in Nat /\ stored' \in Nat
         /\ WireBehind' /\ FreshPivsDistinct'
<1>1. ssn' = ssn + 1 /\ ssn' \in Nat /\ stored' \in Nat
  BY DEF IncrementSsn, TypeOK
<1>2. WireBehind'
  BY <1>1, BoundAssumption DEF WireBehind, TypeOK, Message, Ids
<1>3. FreshPivsDistinct'
  BY DEF FreshPivsDistinct
<1> QED
  BY <1>1, <1>2, <1>3

\* A transaction drawn under the next id is well formed.
LEMMA NewTransactionType ==
  ASSUME TypeOK, NEW isCon \in BOOLEAN, next \in Ids
  PROVE  NewTransaction(isCon) \in [Ids -> Transaction]
BY DEF NewTransaction, TypeOK, Transaction

LEMMA NoTransactionType == NoTransaction \in Transaction
BY DEF NoTransaction, Transaction

\* The messages an action leaves alone stay as they should be.
LEMMA WireUnchanged ==
  ASSUME WireBehind, FreshPivsDistinct, UNCHANGED <<ssn, epoch, next, wire>>
  PROVE  WireBehind' /\ FreshPivsDistinct'
BY DEF WireBehind, FreshPivsDistinct

\* So do the callbacks, phases and calls.
LEMMA CallbacksUnchanged ==
  ASSUME TypeOK, CallbacksOpen, CallbacksBehind, CallsCounted,
         UNCHANGED <<cb, phase, calls>>, next' \in {next, next + 1}
  PROVE  CallbacksOpen' /\ CallbacksBehind' /\ CallsCounted'
<1>1. CallbacksOpen' /\ CallsCounted'
  BY DEF CallbacksOpen, CallsCounted
<1>2. CallbacksBehind'
  BY BoundAssumption DEF CallbacksBehind, TypeOK, Callback
<1> QED
  BY <1>1, <1>2

-----------------------------------------------------------------------------
(* One lemma per action.                                                   *)

LEMMA InitEstablishesInv == Init => Inv
<1> SUFFICES ASSUME Init PROVE Inv
  OBVIOUS
<1> USE BoundAssumption, SsnAssumption DEF Init
<1>1. ssn \in Nat /\ stored \in Nat /\ epoch \in Nat /\ next \in 1 .. MaxId + 1
  OBVIOUS
<1>2. trans \in [Ids -> Transaction]
  BY NoTransactionType
<1>3. cb \in [Requests -> Callback]
  BY DEF NoCallback, Callback
<1>4. /\ phase \in [Requests -> Phases] /\ calls \in [Requests -> Nat]
      /\ con \subseteq Requests /\ moved \subseteq Requests
      /\ wire \subseteq Message
  BY DEF Phases
<1>5. crashed \in BOOLEAN
  OBVIOUS
<1>6. TypeOK
  BY <1>1, <1>2, <1>3, <1>4, <1>5 DEF TypeOK
<1>7. CallbacksOpen /\ CallbacksBehind /\ CallsCounted
  BY DEF CallbacksOpen, CallbacksBehind, CallsCounted, NoCallback
<1>8. WireBehind /\ FreshPivsDistinct
  BY DEF WireBehind, FreshPivsDistinct
<1> QED
  BY <1>6, <1>7, <1>8 DEF Inv

LEMMA DispatchPreserves ==
  ASSUME Inv, NEW r \in Requests, NEW isCon \in BOOLEAN, Dispatch(r, isCon)
  PROVE  Inv'
<1> USE BoundAssumption DEF Inv
<1>1. /\ ssn' \in Nat /\ stored' \in Nat /\ next' \in 1 .. MaxId + 1
      /\ wire' \subseteq Message /\ WireBehind' /\ FreshPivsDistinct'
  BY SendingPreserves DEF Dispatch
<1>2. trans' \in [Ids -> Transaction]
  BY NewTransactionType DEF Dispatch
<1>3. cb' \in [Requests -> Callback]
  <2>1. [id |-> next, piv |-> ssn] \in Callback
    BY DEF Dispatch, TypeOK, Callback, Ids
  <2> QED
    BY <2>1 DEF Dispatch, TypeOK
<1>4. phase' \in [Requests -> Phases]
  BY DEF Dispatch, TypeOK, Phases
<1>5. con' \subseteq Requests
  BY DEF Dispatch, TypeOK
<1>6. TypeOK'
  BY <1>1, <1>2, <1>3, <1>4, <1>5 DEF Dispatch, TypeOK
<1>7. CallbacksOpen'
  BY DEF Dispatch, TypeOK, CallbacksOpen, Ids
<1>8. CallbacksBehind'
  BY DEF Dispatch, TypeOK, CallbacksBehind, Callback
<1>9. CallsCounted'
  BY DEF Dispatch, TypeOK, CallsCounted
<1> QED
  BY <1>1, <1>6, <1>7, <1>8, <1>9

LEMMA DispatchNoHandlerPreserves ==
  ASSUME Inv, NEW r \in Requests, NEW isCon \in BOOLEAN,
         DispatchNoHandler(r, isCon)
  PROVE  Inv'
<1> USE BoundAssumption DEF Inv
<1>1. next \in Ids /\ next' = next + 1
  BY DEF DispatchNoHandler
<1>2. phase[r] = "idle" /\ phase' = [phase EXCEPT ![r] = "no handler"]
  BY DEF DispatchNoHandler
<1>3. UNCHANGED <<epoch, cb, con, moved, calls, wire, crashed>>
  BY DEF DispatchNoHandler
<1>4. ssn' \in Nat /\ stored' \in Nat /\ WireBehind' /\ FreshPivsDistinct'
  BY CountingPreserves DEF DispatchNoHandler
<1>5. trans' \in [Ids -> Transaction]
  <2>1. NewTransaction(isCon) \in [Ids -> Transaction]
    BY <1>1, NewTransactionType
  <2>2. \A f \in [Ids -> Transaction] :
          [f EXCEPT ![next].piv = 0] \in [Ids -> Transaction]
    BY DEF Transaction
  <2> QED
    BY <2>1, <2>2 DEF DispatchNoHandler
<1>6. next' \in 1 .. MaxId + 1
  BY <1>1 DEF Ids
<1>7. phase' \in [Requests -> Phases]
  BY <1>2 DEF TypeOK, Phases
<1>8. TypeOK'
  BY <1>3, <1>4, <1>5, <1>6, <1>7 DEF TypeOK
<1>9. CallbacksOpen' /\ CallsCounted'
  BY <1>2, <1>3 DEF TypeOK, CallbacksOpen, CallsCounted
<1>10. CallbacksBehind'
  <2>1. \A q \in Requests : cb'[q].id \in Nat /\ cb'[q].id < next
    BY <1>3 DEF TypeOK, Callback, CallbacksBehind
  <2> QED
    BY <1>1, <2>1 DEF CallbacksBehind, Ids
<1> QED
  BY <1>4, <1>8, <1>9, <1>10

\* A retransmission is not fresh, and its id was drawn before.
LEMMA RetransmitPreserves ==
  ASSUME Inv, NEW x \in Ids, Retransmit(x)
  PROVE  Inv'
<1> USE BoundAssumption DEF Inv
<1>1. CASE CallbacksOf(x) # {}
  <2>1. x < next
    BY <1>1 DEF CallbacksOf, CallbacksBehind
  <2>2. /\ trans' = [trans EXCEPT ![x].retrans = @ + 1, ![x].piv = ssn]
        /\ cb' = [r \in Requests |->
                    IF cb[r].id = x THEN [cb[r] EXCEPT !.piv = ssn] ELSE cb[r]]
        /\ wire' = wire \cup {Protected(x, FALSE)}
    BY <1>1 DEF Retransmit, CallbacksOf
  <2>3. trans' \in [Ids -> Transaction]
    <3>1. \A f \in [Ids -> Transaction], n \in Nat :
            [f EXCEPT ![x].piv = n] \in [Ids -> Transaction]
      BY DEF Transaction
    <3>2. [trans EXCEPT ![x].retrans = @ + 1] \in [Ids -> Transaction]
      BY DEF TypeOK, Transaction
    <3>3. trans' = [[trans EXCEPT ![x].retrans = @ + 1] EXCEPT ![x].piv = ssn]
      BY <2>2
    <3> QED
      BY <3>1, <3>2, <3>3 DEF TypeOK
  <2>4. cb' \in [Requests -> Callback] /\ \A r \in Requests : cb'[r].id = cb[r].id
    BY <2>2 DEF TypeOK, Callback
  <2>5. Protected(x, FALSE) \in Message
    BY DEF Protected, Message, TypeOK
  <2>6. TypeOK'
    BY <2>2, <2>3, <2>4, <2>5 DEF Retransmit, TypeOK
  <2>7. CallbacksOpen' /\ CallbacksBehind' /\ CallsCounted'
    BY <2>4 DEF Retransmit, CallbacksOpen, CallbacksBehind, CallsCounted
  <2>8. WireBehind'
    BY <2>1, <2>2 DEF Retransmit, WireBehind, Protected, TypeOK
  <2>9. FreshPivsDistinct'
    BY <2>2 DEF FreshPivsDistinct, Protected
  <2> QED
    BY <2>6, <2>7, <2>8, <2>9
<1>2. CASE CallbacksOf(x) = {}
  <2>1. trans' = [trans EXCEPT ![x].retrans = @ + 1] /\ UNCHANGED <<cb, wire>>
    BY <1>2 DEF Retransmit, CallbacksOf
  <2>2. trans' \in [Ids -> Transaction]
    BY <2>1 DEF TypeOK, Transaction
  <2>3. TypeOK'
    BY <2>1, <2>2 DEF Retransmit, TypeOK
  <2>4. UNCHANGED <<ssn, epoch, next, wire, cb, phase, calls>>
    BY <2>1 DEF Retransmit
  <2> QED
    BY <2>3, <2>4, WireUnchanged, CallbacksUnchanged
<1> QED
  BY <1>1, <1>2

LEMMA TimeoutPreserves ==
  ASSUME Inv, NEW x \in Ids, Timeout(x)
  PROVE  Inv'
<1> USE DEF Inv
<1>1. /\ cb' \in [Requests -> Callback] /\ phase' \in [Requests -> Phases]
      /\ calls' \in [Requests -> Nat]
      /\ CallbacksOpen' /\ CallbacksBehind' /\ CallsCounted'
  BY SettlePreserves DEF Timeout
<1>2. trans' \in [Ids -> Transaction]
  BY NoTransactionType DEF Timeout, TypeOK
<1>3. TypeOK'
  BY <1>1, <1>2 DEF Timeout, TypeOK
<1>4. WireBehind' /\ FreshPivsDistinct'
  BY WireUnchanged DEF Timeout
<1> QED
  BY <1>1, <1>3, <1>4

LEMMA ExpirePreserves ==
  ASSUME Inv, NEW r \in Requests, Expire(r)
  PROVE  Inv'
<1> USE BoundAssumption DEF Inv
<1>1. cb' \in [Requests -> Callback]
  BY DEF Expire, TypeOK, NoCallback, Callback
<1>2. phase' \in [Requests -> Phases]
  BY DEF Expire, TypeOK, Phases
<1>3. TypeOK'
  BY <1>1, <1>2 DEF Expire, TypeOK
<1>4. CallbacksOpen' /\ CallsCounted'
  BY DEF Expire, TypeOK, CallbacksOpen, CallsCounted, NoCallback
<1>5. CallbacksBehind'
  BY DEF Expire, TypeOK, CallbacksBehind, NoCallback
<1>6. WireBehind' /\ FreshPivsDistinct'
  BY WireUnchanged DEF Expire
<1> QED
  BY <1>3, <1>4, <1>5, <1>6

LEMMA SendUnsolicitedPreserves ==
  ASSUME Inv, SendUnsolicited
  PROVE  Inv'
<1> USE DEF Inv
<1>1. /\ ssn' \in Nat /\ stored' \in Nat /\ next' \in 1 .. MaxId + 1
      /\ wire' \subseteq Message /\ WireBehind' /\ FreshPivsDistinct'
  BY SendingPreserves DEF SendUnsolicited
<1>2. TypeOK'
  BY <1>1 DEF SendUnsolicited, TypeOK
<1>3. CallbacksOpen' /\ CallbacksBehind' /\ CallsCounted'
  BY CallbacksUnchanged DEF SendUnsolicited
<1> QED
  BY <1>1, <1>2, <1>3

LEMMA RespondPreserves ==
  ASSUME Inv, Respond
  PROVE  Inv'
<1> USE DEF Inv
<1>1. ssn' \in Nat /\ stored' \in Nat /\ WireBehind' /\ FreshPivsDistinct'
  BY CountingPreserves DEF Respond
<1>2. TypeOK'
  BY <1>1 DEF Respond, TypeOK
<1>3. CallbacksOpen' /\ CallbacksBehind' /\ CallsCounted'
  BY CallbacksUnchanged DEF Respond
<1> QED
  BY <1>1, <1>2, <1>3

LEMMA ReceiveResponsePreserves ==
  ASSUME Inv, NEW m \in wire, NEW type \in Types, NEW mid \in 0 .. MaxId,
         ReceiveResponse(m, type, mid)
  PROVE  Inv'
<1> USE DEF Inv
<1>1. m.id \in Ids
  BY DEF TypeOK, Message
<1>2. /\ cb' \in [Requests -> Callback] /\ phase' \in [Requests -> Phases]
      /\ calls' \in [Requests -> Nat]
      /\ CallbacksOpen' /\ CallbacksBehind' /\ CallsCounted'
  BY <1>1, SettlePreserves DEF ReceiveResponse
<1>3. trans' \in [Ids -> Transaction]
  BY NoTransactionType DEF ReceiveResponse, ClearedBy, TypeOK
<1>4. TypeOK'
  BY <1>2, <1>3 DEF ReceiveResponse, Displaced, CallbacksOf, TypeOK
<1>5. WireBehind' /\ FreshPivsDistinct'
  BY WireUnchanged DEF ReceiveResponse
<1> QED
  BY <1>2, <1>4, <1>5

LEMMA ReceiveChallengePreserves ==
  ASSUME Inv, NEW m \in wire, NEW type \in Types, NEW mid \in 0 .. MaxId,
         ReceiveChallenge(m, type, mid)
  PROVE  Inv'
<1> USE BoundAssumption DEF Inv
<1> DEFINE x == AnsweredTransaction(m.id, mid)
<1>1. CASE CallbacksOf(x) = {} /\ crashed' = TRUE
             /\ UNCHANGED <<ssn, stored, epoch, next, trans, cb, phase, con,
                            moved, calls, wire>>
  <2>1. TypeOK'
    BY <1>1 DEF TypeOK
  <2> QED
    BY <1>1, <2>1, WireUnchanged, CallbacksUnchanged
<1>2. CASE \E r \in CallbacksOf(x) :
             /\ next \in Ids
             /\ IncrementSsn
             /\ next' = next + 1
             /\ trans' = [NewTransaction(TRUE) EXCEPT ![x] = NoTransaction]
             /\ cb' = [cb EXCEPT ![r] = [id |-> next, piv |-> ssn]]
             /\ moved' = moved \cup {r}
             /\ wire' = wire \cup {Protected(next, TRUE)}
             /\ UNCHANGED <<epoch, phase, con, calls, crashed>>
  <2>1. PICK r \in CallbacksOf(x) :
             /\ next \in Ids
             /\ IncrementSsn
             /\ next' = next + 1
             /\ trans' = [NewTransaction(TRUE) EXCEPT ![x] = NoTransaction]
             /\ cb' = [cb EXCEPT ![r] = [id |-> next, piv |-> ssn]]
             /\ moved' = moved \cup {r}
             /\ wire' = wire \cup {Protected(next, TRUE)}
             /\ UNCHANGED <<epoch, phase, con, calls, crashed>>
    BY <1>2
  <2>2. r \in Requests /\ cb[r].id = x /\ x # 0
    BY DEF CallbacksOf, ReceiveChallenge
  <2>3. phase[r] = "open"
    BY <2>2 DEF CallbacksOpen
  <2>4. /\ ssn' \in Nat /\ stored' \in Nat /\ next' \in 1 .. MaxId + 1
        /\ wire' \subseteq Message /\ WireBehind' /\ FreshPivsDistinct'
    BY <2>1, SendingPreserves
  <2>5. trans' \in [Ids -> Transaction]
    BY <2>1, NewTransactionType, NoTransactionType
  <2>6. cb' \in [Requests -> Callback]
    <3>1. [id |-> next, piv |-> ssn] \in Callback
      BY <2>1 DEF TypeOK, Callback, Ids
    <3> QED
      BY <2>1, <3>1 DEF TypeOK
  <2>7. TypeOK'
    BY <2>1, <2>2, <2>4, <2>5, <2>6 DEF TypeOK
  <2>8. CallbacksOpen'
    BY <2>1, <2>2, <2>3 DEF CallbacksOpen, TypeOK, Ids
  <2>9. CallbacksBehind'
    BY <2>1 DEF CallbacksBehind, TypeOK, Callback
  <2>10. CallsCounted'
    BY <2>1 DEF CallsCounted
  <2> QED
    BY <2>4, <2>7, <2>8, <2>9, <2>10
<1> QED
  BY <1>1, <1>2 DEF ReceiveChallenge

LEMMA ReceiveRequestPreserves ==
  ASSUME Inv, NEW mid \in PeerMids, ReceiveRequest(mid)
  PROVE  Inv'
<1> USE DEF Inv
<1>1. trans' \in [Ids -> Transaction]
  BY NoTransactionType DEF ReceiveRequest, ClearedBy, TypeOK
<1>2. TypeOK'
  BY <1>1 DEF ReceiveRequest, Displaced, CallbacksOf, TypeOK
<1> QED
  BY <1>2, WireUnchanged, CallbacksUnchanged DEF ReceiveRequest

\* A context built again starts a new life: nothing was sent in it.
LEMMA RebuildContextPreserves ==
  ASSUME Inv, RebuildContext
  PROVE  Inv'
<1> USE DEF Inv
<1>1. TypeOK'
  BY DEF RebuildContext, TypeOK
<1>2. CallbacksOpen' /\ CallbacksBehind' /\ CallsCounted'
  BY CallbacksUnchanged DEF RebuildContext
<1>3. WireBehind'
  BY DEF RebuildContext, WireBehind, TypeOK, Message
<1>4. FreshPivsDistinct'
  BY DEF RebuildContext, FreshPivsDistinct
<1> QED
  BY <1>1, <1>2, <1>3, <1>4

LEMMA RebootPreserves ==
  ASSUME Inv, Reboot
  PROVE  Inv'
<1> USE BoundAssumption, SsnAssumption DEF Inv
<1>0. K + F \in Nat /\ epoch + 1 \in Nat
  BY DEF TypeOK
<1>1. ssn' \in Nat /\ epoch' \in Nat /\ crashed' \in BOOLEAN
  BY <1>0, Zenon DEF Reboot
<1>2. trans' \in [Ids -> Transaction]
  BY NoTransactionType DEF Reboot
<1>3. cb' \in [Requests -> Callback]
  BY DEF Reboot, NoCallback, Callback
<1>4. phase' \in [Requests -> Phases]
  BY DEF Reboot, TypeOK, Phases
<1>5. TypeOK'
  BY <1>1, <1>2, <1>3, <1>4 DEF Reboot, TypeOK
<1>6. CallbacksOpen' /\ CallsCounted'
  BY DEF Reboot, TypeOK, CallbacksOpen, CallsCounted, NoCallback
<1>7. CallbacksBehind'
  BY DEF Reboot, TypeOK, CallbacksBehind, NoCallback
<1>8. WireBehind'
  BY DEF Reboot, WireBehind, TypeOK, Message
<1>9. FreshPivsDistinct'
  BY DEF Reboot, FreshPivsDistinct
<1> QED
  BY <1>5, <1>6, <1>7, <1>8, <1>9

LEMMA NextPreservesInv == Inv /\ [Next]_vars => Inv'
<1> SUFFICES ASSUME Inv, [Next]_vars PROVE Inv'
  OBVIOUS
<1>1. CASE Next
  BY <1>1, DispatchPreserves, DispatchNoHandlerPreserves, RetransmitPreserves,
     TimeoutPreserves, ExpirePreserves, SendUnsolicitedPreserves,
     RespondPreserves, ReceiveResponsePreserves, ReceiveChallengePreserves,
     ReceiveRequestPreserves, RebuildContextPreserves, RebootPreserves
  DEF Next
<1>2. CASE UNCHANGED vars
  <2>1. TypeOK'
    BY <1>2 DEF Inv, TypeOK, vars
  <2>2. UNCHANGED <<ssn, epoch, next, wire, cb, phase, calls>>
    BY <1>2 DEF vars
  <2> QED
    BY <2>1, <2>2, WireUnchanged, CallbacksUnchanged DEF Inv
<1> QED
  BY <1>1, <1>2

-----------------------------------------------------------------------------
(* The handler of a confirmable request.                                   *)

\* No two callbacks wait for the same id, so an Echo challenge and a message of
\* the peer that end a transaction concern one request.
CallbacksDistinct ==
  \A r, s \in Requests : cb[r].id = cb[s].id /\ cb[r].id # 0 => r = s

\* What was sent as confirmable is no longer waiting to be sent.
ConStarted == \A r \in con : phase[r] # "idle"

\* As long as a confirmable request is open, so is its transaction.
ConKept == \A r \in con \ moved : phase[r] = "open" => trans[cb[r].id].open

ConInv == CallbacksDistinct /\ ConStarted /\ ConKept /\ ConNeverSilent

\* An action that leaves transactions, callbacks and phases alone.
LEMMA ConUnchanged ==
  ASSUME ConInv, UNCHANGED <<trans, cb, phase, con, moved>>
  PROVE  ConInv'
BY DEF ConInv, CallbacksDistinct, ConStarted, ConKept, ConNeverSilent

\* Callbacks of an id are settled, and its transaction may be cleared.
LEMMA ConSettled ==
  ASSUME TypeOK, CallbacksOpen, ConInv, NEW x \in Ids, NEW how \in {"answered", "unavailable"},
         Settle(CallbacksOf(x), how), con' = con, moved \subseteq moved',
         \A y \in Ids : trans'[y] # trans[y] => CallbacksOf(y) \subseteq CallbacksOf(x) \cup moved'
  PROVE  ConInv'
<1> USE DEF ConInv
<1>1. \A r \in Requests :
        \/ r \in CallbacksOf(x) /\ cb'[r].id = 0 /\ phase'[r] = how
        \/ r \notin CallbacksOf(x) /\ cb'[r] = cb[r] /\ phase'[r] = phase[r]
  BY DEF Settle, NoCallback, TypeOK
<1>2. CallbacksDistinct'
  BY <1>1 DEF CallbacksDistinct
<1>3. ConStarted' /\ ConNeverSilent'
  BY <1>1 DEF ConStarted, ConNeverSilent, TypeOK
<1>4. ASSUME NEW r \in con' \ moved', phase'[r] = "open" PROVE trans'[cb'[r].id].open
  <2>1. r \in Requests /\ r \in con \ moved /\ r \notin CallbacksOf(x)
    BY <1>1, <1>4 DEF TypeOK
  <2>2. cb'[r] = cb[r] /\ phase[r] = "open" /\ cb[r].id \in Ids
    BY <1>1, <1>4, <2>1, BoundAssumption DEF CallbacksOpen, TypeOK, Callback, Ids
  <2>3. trans[cb[r].id].open
    BY <2>1, <2>2 DEF ConKept
  <2>4. r \in CallbacksOf(cb[r].id)
    BY <2>1 DEF CallbacksOf
  <2>5. trans'[cb[r].id] = trans[cb[r].id]
    BY <1>4, <2>1, <2>2, <2>4
  <2>6. cb'[r].id = cb[r].id
    BY <2>2
  <2> QED
    BY <2>3, <2>5, <2>6
<1> QED
  BY <1>2, <1>3, <1>4 DEF ConKept

LEMMA DispatchKeepsCon ==
  ASSUME Inv, ConInv, NEW r \in Requests, NEW isCon \in BOOLEAN,
         Dispatch(r, isCon) \/ DispatchNoHandler(r, isCon)
  PROVE  ConInv'
<1> USE BoundAssumption DEF Inv, ConInv
<1>1. /\ phase[r] = "idle" /\ next \in Ids /\ moved' = moved /\ r \notin con
      /\ phase' \in {[phase EXCEPT ![r] = "open"], [phase EXCEPT ![r] = "no handler"]}
  BY DEF Dispatch, DispatchNoHandler, ConStarted
<1>2. \A s \in Requests \ {r} : cb'[s] = cb[s] /\ phase'[s] = phase[s] /\ cb[s].id < next
  BY <1>1 DEF Dispatch, DispatchNoHandler, TypeOK, CallbacksBehind
<1>3. \A x \in Ids : x < next => trans'[x] = trans[x]
  <2>1. \A x \in Ids : x < next => NewTransaction(isCon)[x] = trans[x]
    BY DEF NewTransaction, TypeOK, Ids
  <2>2. NewTransaction(isCon) \in [Ids -> Transaction]
    BY <1>1, NewTransactionType
  <2>3. \A x \in Ids : x < next => [NewTransaction(isCon) EXCEPT ![next].piv = 0][x] = trans[x]
    BY <2>1, <2>2 DEF Ids
  <2> QED
    BY <2>1, <2>3 DEF Dispatch, DispatchNoHandler
<1>4. \A s \in con \ moved : s # r /\ phase[s] = "open" => trans'[cb'[s].id].open
  <2> SUFFICES ASSUME NEW s \in con \ moved, s # r, phase[s] = "open"
               PROVE  trans'[cb'[s].id].open
    OBVIOUS
  <2>1. s \in Requests /\ cb'[s] = cb[s] /\ cb[s].id < next /\ cb[s].id \in Ids
    BY <1>2 DEF CallbacksOpen, TypeOK, Callback, Ids
  <2> QED
    BY <1>3, <2>1 DEF ConKept
<1>5. CASE Dispatch(r, isCon)
  <2>1. /\ cb' = [cb EXCEPT ![r] = [id |-> next, piv |-> ssn]]
        /\ phase' = [phase EXCEPT ![r] = "open"]
        /\ con' = IF isCon THEN con \cup {r} ELSE con
        /\ trans' = NewTransaction(isCon)
    BY <1>5 DEF Dispatch
  <2>2. CallbacksDistinct'
    BY <1>2, <2>1 DEF CallbacksDistinct, TypeOK, Ids, Callback
  <2>3. ConStarted' /\ ConNeverSilent'
    BY <1>1, <1>2, <2>1 DEF ConStarted, ConNeverSilent, TypeOK
  <2>4. isCon => trans'[cb'[r].id].open
    BY <1>1, <2>1 DEF NewTransaction, TypeOK
  <2>5. ConKept'
    BY <1>1, <1>2, <1>4, <2>1, <2>4 DEF ConKept, TypeOK
  <2> QED
    BY <2>2, <2>3, <2>5
<1>6. CASE DispatchNoHandler(r, isCon)
  <2>1. cb' = cb /\ con' = con /\ phase' = [phase EXCEPT ![r] = "no handler"]
    BY <1>6 DEF DispatchNoHandler
  <2>2. CallbacksDistinct'
    BY <2>1 DEF CallbacksDistinct
  <2>3. ConStarted' /\ ConNeverSilent' /\ ConKept'
    BY <1>1, <1>2, <1>4, <2>1 DEF ConStarted, ConNeverSilent, ConKept, TypeOK
  <2> QED
    BY <2>2, <2>3
<1> QED
  BY <1>5, <1>6

\* A transaction that waits longer stays open.
LEMMA RetransmitKeepsCon ==
  ASSUME Inv, ConInv, NEW x \in Ids, Retransmit(x)
  PROVE  ConInv'
<1> USE DEF Inv, ConInv
<1> DEFINE later == [trans EXCEPT ![x].retrans = trans[x].retrans + 1]
<1>0. /\ later \in [Ids -> Transaction]
      /\ \A y \in Ids : later[y].open = trans[y].open
  BY DEF TypeOK, Transaction
<1>1. \A y \in Ids : trans'[y].open = trans[y].open
  <2>1. CASE CallbacksOf(x) = {}
    BY <1>0, <2>1 DEF Retransmit, CallbacksOf
  <2>2. CASE CallbacksOf(x) # {}
    <3>1. trans' = [later EXCEPT ![x].piv = ssn]
      BY <2>2 DEF Retransmit, CallbacksOf
    <3>2. \A f \in [Ids -> Transaction] : \A y \in Ids :
            [f EXCEPT ![x].piv = ssn][y].open = f[y].open
      BY DEF Transaction
    <3> HIDE DEF later
    <3> QED
      BY <1>0, <3>1, <3>2
  <2> QED
    BY <2>1, <2>2
<1>2. \A r \in Requests : cb'[r].id = cb[r].id
  <2>1. \/ cb' = cb
        \/ cb' = [r \in Requests |->
                    IF cb[r].id = x THEN [cb[r] EXCEPT !.piv = ssn] ELSE cb[r]]
    BY DEF Retransmit
  <2> QED
    BY <2>1 DEF TypeOK, Callback
<1>3. UNCHANGED <<phase, con, moved>>
  BY DEF Retransmit
<1>4. \A r \in Requests : phase[r] = "open" => cb[r].id \in Ids
  BY BoundAssumption DEF CallbacksOpen, TypeOK, Callback, Ids
<1> QED
  BY <1>1, <1>2, <1>3, <1>4
     DEF CallbacksDistinct, ConStarted, ConKept, ConNeverSilent, TypeOK

LEMMA TimeoutKeepsCon ==
  ASSUME Inv, ConInv, NEW x \in Ids, Timeout(x)
  PROVE  ConInv'
<1>1. \A y \in Ids : trans'[y] # trans[y] => y = x
  BY DEF Timeout, Inv, TypeOK
<1> QED
  BY <1>1, ConSettled DEF Inv, Timeout

\* The exchange lifetime is longer than the life of a transaction, so a
\* confirmable request that has kept its own is not open any more.
LEMMA ExpireKeepsCon ==
  ASSUME Inv, ConInv, NEW r \in Requests, Expire(r)
  PROVE  ConInv'
<1> USE DEF Inv, ConInv
<1>1. r \notin con \ moved
  BY DEF Expire, ConKept
<1>2. /\ phase' = [phase EXCEPT ![r] = "expired"] /\ cb' = [cb EXCEPT ![r] = NoCallback]
      /\ UNCHANGED <<trans, con, moved>>
  BY DEF Expire
<1> QED
  BY <1>1, <1>2
     DEF CallbacksDistinct, ConStarted, ConKept, ConNeverSilent, TypeOK, NoCallback

LEMMA ReceiveResponseKeepsCon ==
  ASSUME Inv, ConInv, NEW m \in wire, NEW type \in Types, NEW mid \in 0 .. MaxId,
         ReceiveResponse(m, type, mid)
  PROVE  ConInv'
<1> USE DEF Inv
<1>1. m.id \in Ids
  BY DEF TypeOK, Message
<1> DEFINE x == AnsweredTransaction(m.id, mid)
<1>2. /\ trans' = ClearedBy(x, type) /\ moved' = moved \cup Displaced(x, type)
      /\ con' = con /\ Settle(CallbacksOf(m.id), "answered")
  BY DEF ReceiveResponse
<1>3. x \in Ids \cup {0}
  BY <1>1 DEF AnsweredTransaction
<1> HIDE DEF x
<1>4. \A y \in Ids : trans'[y] # trans[y] => y = x /\ CallbacksOf(y) \subseteq moved'
  BY <1>2, <1>3 DEF ClearedBy, Displaced, TypeOK
<1> QED
  BY <1>1, <1>2, <1>4, ConSettled

LEMMA ReceiveChallengeKeepsCon ==
  ASSUME Inv, ConInv, NEW m \in wire, NEW type \in Types, NEW mid \in 0 .. MaxId,
         ReceiveChallenge(m, type, mid)
  PROVE  ConInv'
<1> USE BoundAssumption DEF Inv
<1> DEFINE x == AnsweredTransaction(m.id, mid)
<1>1. CASE crashed' = TRUE
  <2>1. ~crashed
    BY DEF ReceiveChallenge
  <2> QED
    BY <1>1, <2>1, ConUnchanged DEF ReceiveChallenge
<1>2. ASSUME NEW r \in CallbacksOf(x), next \in Ids,
             trans' = [NewTransaction(TRUE) EXCEPT ![x] = NoTransaction],
             cb' = [cb EXCEPT ![r] = [id |-> next, piv |-> ssn]],
             moved' = moved \cup {r}, UNCHANGED <<phase, con>>
      PROVE  ConInv'
  <2> USE DEF ConInv
  <2>1. m.id \in Ids /\ x # 0
    BY DEF ReceiveChallenge, TypeOK, Message
  <2>2. r \in Requests /\ cb[r].id = x /\ x \in Ids
    BY <2>1 DEF CallbacksOf, AnsweredTransaction
  <2> HIDE DEF x
  <2>3. \A s \in Requests \ {r} : cb'[s] = cb[s] /\ cb[s].id < next /\ cb[s].id # x
    BY <1>2, <2>1, <2>2 DEF TypeOK, CallbacksBehind, CallbacksDistinct
  <2>4. CallbacksDistinct'
    BY <1>2, <2>2, <2>3 DEF CallbacksDistinct, TypeOK, Ids, Callback
  <2>5. \A y \in Ids : y < next /\ y # x => trans'[y] = trans[y]
    BY <1>2 DEF NewTransaction, TypeOK, Ids
  <2>6. \A s \in Requests : phase[s] = "open" => cb[s].id \in Ids
    BY DEF CallbacksOpen, TypeOK, Callback, Ids
  <2>7. ASSUME NEW s \in con' \ moved', phase'[s] = "open" PROVE trans'[cb'[s].id].open
    <3>1. s \in con \ moved /\ s \in Requests \ {r} /\ phase[s] = "open"
      BY <1>2, <2>7 DEF TypeOK
    <3>2. cb'[s].id = cb[s].id /\ trans'[cb[s].id] = trans[cb[s].id]
      BY <2>3, <2>5, <2>6, <3>1
    <3>3. trans[cb[s].id].open
      BY <3>1 DEF ConKept
    <3> QED
      BY <3>2, <3>3
  <2>8. ConStarted' /\ ConNeverSilent'
    BY <1>2 DEF ConStarted, ConNeverSilent
  <2> QED
    BY <2>4, <2>7, <2>8 DEF ConKept
<1> QED
  BY <1>1, <1>2 DEF ReceiveChallenge

LEMMA ReceiveRequestKeepsCon ==
  ASSUME Inv, ConInv, NEW mid \in PeerMids, ReceiveRequest(mid)
  PROVE  ConInv'
<1> USE DEF Inv, ConInv
<1>1. /\ mid \in Ids /\ UNCHANGED <<cb, phase, con>>
      /\ moved' = moved \cup Displaced(mid, "CON") /\ trans' = ClearedBy(mid, "CON")
  BY DEF ReceiveRequest
<1>2. \A y \in Ids : y # mid => trans'[y] = trans[y]
  BY <1>1, BoundAssumption DEF ClearedBy, TypeOK
<1>3. CallbacksOf(mid) \subseteq moved'
  BY <1>1, BoundAssumption DEF Displaced, Ids
<1>4. \A r \in Requests : phase[r] = "open" => cb[r].id \in Ids
  BY BoundAssumption DEF CallbacksOpen, TypeOK, Callback, Ids
<1>5. ConKept'
  BY <1>1, <1>2, <1>3, <1>4 DEF ConKept, CallbacksOf, TypeOK
<1> QED
  BY <1>1, <1>5 DEF CallbacksDistinct, ConStarted, ConNeverSilent

LEMMA RebootKeepsCon ==
  ASSUME Inv, ConInv, Reboot
  PROVE  ConInv'
<1> USE DEF Inv, ConInv
<1>1. \A r \in Requests : /\ cb'[r].id = 0
                          /\ phase'[r] = IF phase[r] = "open" THEN "rebooted" ELSE phase[r]
  BY DEF Reboot, NoCallback
<1>2. UNCHANGED <<con, moved>>
  BY DEF Reboot
<1> QED
  BY <1>1, <1>2 DEF CallbacksDistinct, ConStarted, ConKept, ConNeverSilent, TypeOK

LEMMA NextKeepsCon == Inv /\ ConInv /\ [Next]_vars => ConInv'
<1> SUFFICES ASSUME Inv, ConInv, [Next]_vars PROVE ConInv'
  OBVIOUS
<1>1. CASE SendUnsolicited \/ Respond \/ RebuildContext \/ UNCHANGED vars
  BY <1>1, ConUnchanged DEF SendUnsolicited, Respond, RebuildContext, vars
<1> QED
  BY <1>1, DispatchKeepsCon, RetransmitKeepsCon, TimeoutKeepsCon, ExpireKeepsCon,
     ReceiveResponseKeepsCon, ReceiveChallengeKeepsCon, ReceiveRequestKeepsCon,
     RebootKeepsCon
  DEF Next

-----------------------------------------------------------------------------

\* Counters, transactions, callbacks and messages always have their types:
\* every message on the wire carries an id that was drawn and a natural number
\* as its partial IV, whatever the network does.
THEOREM ExchangeTypes == Spec => []TypeOK
<1>1. Inv => TypeOK
  BY DEF Inv
<1> QED
  BY <1>1, InitEstablishesInv, NextPreservesInv, PTL DEF Spec

\* Whatever is lost, duplicated, retransmitted, challenged with an Echo option
\* or timed out, oc_ri_invoke_client_cb and oc_ri_free_client_cbs_by_mid
\* together invoke the handler of a request at most once.
THEOREM HandlerInvokedAtMostOnce == Spec => []HandlerAtMostOnce
<1>1. Inv => HandlerAtMostOnce
  BY DEF Inv, CallsCounted, HandlerAtMostOnce
<1> QED
  BY <1>1, InitEstablishesInv, NextPreservesInv, PTL DEF Spec

\* As long as the sender context is not built again, the messages that
\* increment_ssn_in_context numbers never share an AEAD nonce, whether or not
\* the writes to storage succeed.
THEOREM NoncesOfOneContextDiffer == Spec => []FreshPivsDistinct
<1>1. Inv => FreshPivsDistinct
  BY DEF Inv
<1> QED
  BY <1>1, InitEstablishesInv, NextPreservesInv, PTL DEF Spec

\* A confirmable request that neither an Echo challenge nor a message of the peer
\* has robbed of its transaction is heard of: oc_ri_remove_client_cb never frees
\* its callback before the response or the timeout has been told.
THEOREM ConfirmableRequestsAreHeardOf == Spec => []ConNeverSilent
<1>1. Init => ConInv
  BY DEF Init, ConInv, CallbacksDistinct, ConStarted, ConKept, ConNeverSilent, NoCallback
<1>2. ConInv => ConNeverSilent
  BY DEF ConInv
<1> QED
  BY <1>1, <1>2, InitEstablishesInv, NextPreservesInv, NextKeepsCon, PTL DEF Spec
=============================================================================
