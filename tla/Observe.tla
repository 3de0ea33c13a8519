------------------------------ MODULE Observe ------------------------------
(***************************************************************************)
(* An observable resource: requests and the history that drops duplicates  *)
(* (messaging/coap/engine.c), observers and notifications                  *)
(* (messaging/coap/observe.c), what a request to the resource causes       *)
(* (api/oc_ri.c), and the client's side of an observation                  *)
(* (api/oc_client_api.c, api/oc_ri.c).                                     *)
(*                                                                         *)
(* A representation fits one block and the handlers of the resource        *)
(* succeed.  Requests are not protected.  The message ID of no request is  *)
(* that of an open notification.  An ACK changes nothing at the server     *)
(* (coap_receive clears a transaction for a CON only), so none is sent.    *)
(***************************************************************************)
EXTENDS Integers, Sequences, FiniteSets, SequencesExt

CONSTANTS
  Clients,
  Writers,       \* the clients that change the resource by requests
  Strict,        \* the clients that answer an unknown notification with a reset
  HistorySize,   \* OC_REQUEST_HISTORY_SIZE
  Refresh,       \* COAP_OBSERVE_REFRESH_INTERVAL
  MaxRetransmit, \* COAP_MAX_RETRANSMIT
  MaxRequests,   \* bound on the requests
  MaxChanges,    \* bound on the values of the resource
  MaxFaults,     \* bound on lost or duplicated messages and restarts of clients
  MaxPolls       \* bound on the periodic notifications

ASSUME ClientAssumption == Strict \subseteq Clients /\ Writers \subseteq Clients
ASSUME SizeAssumption == {HistorySize, Refresh, MaxRetransmit} \subseteq Nat \ {0}
ASSUME BoundAssumption == {MaxRequests, MaxChanges, MaxFaults, MaxPolls} \subseteq Nat

VARIABLES
  value,      \* the state of the resource
  observers,  \* observers_list: sequence of [client, token, counter, mid]
  counter,    \* observe_counter
  mids,       \* message IDs used for notifications
  polled,     \* observe_callbacks holds the resource
  delayed,    \* timed callbacks oc_observe_notification_delayed that wait
  open,       \* transactions: confirmable notifications [note, tries]
  history,    \* history[], the last message IDs of NON requests
  up, down,   \* requests under way; messages to each client, in order
  cb,         \* a client's callback, and the newest value its handler was given:
              \* [token, state, seq, val]
  requests, faults, polls,  \* so far
  accepted,   \* ghost: the NON requests that were processed
  disturbed   \* ghost: a message was lost or duplicated, a request overtaken
              \* by a later one of its client, or an observer timed out

vars == <<value, observers, counter, mids, polled, delayed, open, history, up, down,
          cb, requests, faults, polls, accepted, disturbed>>
server == <<value, observers, counter, mids, polled, delayed, open, history, accepted>>
bounds == <<requests, faults, polls>>

NoCallback == [token |-> 0, state |-> "none", seq |-> 0, val |-> 0]
Watching(c) == {i \in DOMAIN observers : observers[i].client = c}

-----------------------------------------------------------------------------
(* Observers.                                                              *)

\* coap_remove_observer_handle_by_uri, coap_remove_observer_by_client: one
\* resource and one interface, so both look for the endpoint
Without(obs, c) == SelectSeq(obs, LAMBDA o : o.client # c)

\* add_observer
Add(obs, c, t) ==
  Append(Without(obs, c), [client |-> c, token |-> t, counter |-> counter, mid |-> 0])

\* coap_remove_observer_by_token
RemoveByToken(obs, c, t) == SelectSeq(obs, LAMBDA o : ~(o.client = c /\ o.token = t))

\* coap_remove_observer_by_mid
RemoveByMid(obs, c, m) == SelectSeq(obs, LAMBDA o : ~(o.client = c /\ o.mid = m))

\* what an observer is sent about value v; every Refresh-th one is confirmable
Note(i, v) ==
  [kind |-> "note", token |-> observers[i].token, seq |-> observers[i].counter,
   val |-> v, mid |-> mids + i, con |-> observers[i].counter % Refresh = 0]

Notes(c, v) == [k \in 1 .. Cardinality(Watching(c)) |-> Note(SetToSeq(Watching(c))[k], v)]

\* mutant: the numbers do not go on
NotifySameNumber(v) ==
  /\ observers' = [i \in DOMAIN observers |-> [observers[i] EXCEPT !.mid = mids + i]]
  /\ mids' = mids + Len(observers)
  /\ down' = [c \in Clients |-> down[c] \o Notes(c, v)]
  /\ UNCHANGED <<counter, open>>

\* coap_notify_observers
Notify(v) ==
  /\ observers' = [i \in DOMAIN observers |->
                    [observers[i] EXCEPT !.counter = @ + 1, !.mid = mids + i]]
  /\ counter' = counter + Len(observers)
  /\ mids' = mids + Len(observers)
  /\ down' = [c \in Clients |-> down[c] \o Notes(c, v)]
  /\ open' = open \cup {[client |-> observers[i].client, note |-> Note(i, v), tries |-> 0] :
                         i \in {j \in DOMAIN observers : Note(j, v).con}}

-----------------------------------------------------------------------------
(* Requests.                                                               *)

\* oc_coap_check_if_duplicate: NON requests only
Duplicate(m) == ~m.con /\ Contains(history, <<m.client, m.mid>>)

\* history[idx], idx + 1: the oldest entry makes room
Record(m) ==
  IF m.con THEN UNCHANGED <<history, accepted>>
  ELSE /\ history' = Append(IF Len(history) < HistorySize THEN history ELSE Tail(history),
                            <<m.client, m.mid>>)
       /\ accepted' = Append(accepted, <<m.client, m.mid>>)

Reply(m, observe) ==
  down' = [down EXCEPT ![m.client] =
    Append(@, [kind |-> "reply", token |-> m.token, observe |-> observe, val |-> value])]

\* coap_observe_handler: the number in the option of a GET says what it is
ObserveHandler(m) ==
  IF m.what = "register" THEN Add(observers, m.client, m.token)
  ELSE RemoveByToken(observers, m.client, m.token)

\* observe 0: an observer, and the periodic callback
Register(m) ==
  /\ m.what = "register"
  /\ observers' = ObserveHandler(m)
  /\ polled' = TRUE
  /\ Reply(m, TRUE)
  /\ UNCHANGED <<value, delayed>>

\* observe 1: the observer goes, and the periodic callback with it
Cancel(m) ==
  /\ m.what = "cancel"
  /\ observers' = ObserveHandler(m)
  /\ polled' = (polled /\ observers' = observers)
  /\ Reply(m, FALSE)
  /\ UNCHANGED <<value, delayed>>

\* PUT or POST: the handler, and a delayed notification
Post(m) ==
  /\ m.what = "post"
  /\ value' = value + 1
  /\ delayed' = delayed + 1
  /\ Reply(m, FALSE)
  /\ UNCHANGED <<observers, polled>>

\* coap_receive with a request, a copy of which may still be under way
Receive(m, again) ==
  /\ m \in up /\ m.what # "reset"
  /\ m.what = "post" => value < MaxChanges
  /\ again => faults < MaxFaults
  /\ up' = IF again THEN up ELSE up \ {m}
  /\ faults' = IF again THEN faults + 1 ELSE faults
  /\ disturbed' = (disturbed \/ again \/ \E n \in up : n.client = m.client /\ n.mid < m.mid)
  /\ IF Duplicate(m)
       THEN UNCHANGED <<value, observers, polled, delayed, history, accepted, down>>
       ELSE Record(m) /\ (Register(m) \/ Cancel(m) \/ Post(m))
  /\ UNCHANGED <<counter, mids, open, cb, requests, polls>>

\* coap_receive with a reset
ReceiveReset(m) ==
  /\ m \in up /\ m.what = "reset"
  /\ up' = up \ {m}
  /\ observers' = RemoveByMid(observers, m.client, m.mid)
  /\ UNCHANGED <<value, counter, mids, polled, delayed, open, history, accepted, down,
                 cb, bounds, disturbed>>

-----------------------------------------------------------------------------
(* Timers of the server.                                                   *)

\* oc_observe_notification_delayed
NotifyDelayed ==
  /\ delayed > 0
  /\ delayed' = delayed - 1
  /\ Notify(value)
  /\ UNCHANGED <<value, polled, history, up, cb, bounds, accepted, disturbed>>

\* periodic_observe_handler: ends without observers
Poll ==
  /\ polled /\ polls < MaxPolls
  /\ polls' = polls + 1
  /\ Notify(value)
  /\ polled' = (observers # <<>>)
  /\ UNCHANGED <<value, delayed, history, up, cb, requests, faults, accepted, disturbed>>

\* the application changes the resource and calls oc_notify_observers
AppChange ==
  /\ value < MaxChanges
  /\ value' = value + 1
  /\ Notify(value + 1)
  /\ UNCHANGED <<delayed, polled, history, up, cb, bounds, accepted, disturbed>>

\* coap_check_transactions before the last attempt
Retransmit(t) ==
  /\ t \in open /\ t.tries + 1 < MaxRetransmit
  /\ open' = (open \ {t}) \cup {[t EXCEPT !.tries = @ + 1]}
  /\ down' = [down EXCEPT ![t.client] = Append(@, t.note)]
  /\ UNCHANGED <<value, observers, counter, mids, polled, delayed, history, up, cb, bounds,
                 accepted, disturbed>>

\* mutant: only the transaction ends
TimeoutKeepsObserver(t) ==
  /\ t \in open /\ t.tries + 1 = MaxRetransmit
  /\ open' = open \ {t}
  /\ disturbed' = TRUE
  /\ UNCHANGED <<value, observers, counter, mids, polled, delayed, history, up, down, cb, bounds,
                 accepted>>

\* and after it: the client is no observer any more, whether it answered or not
Timeout(t) ==
  /\ t \in open /\ t.tries + 1 = MaxRetransmit
  /\ open' = open \ {t}
  /\ observers' = Without(observers, t.client)
  /\ disturbed' = TRUE
  /\ UNCHANGED <<value, counter, mids, polled, delayed, history, up, down, cb, bounds, accepted>>

-----------------------------------------------------------------------------
(* The clients.                                                            *)

Request(c, what, con, t) ==
  /\ requests < MaxRequests
  /\ requests' = requests + 1
  /\ up' = up \cup {[what |-> what, client |-> c, con |-> con, mid |-> requests + 1, token |-> t]}
  /\ UNCHANGED <<server, down, faults, polls, disturbed>>

\* oc_do_observe with LOW_QOS
Subscribe(c) ==
  /\ cb[c].state = "none"
  /\ Request(c, "register", FALSE, requests + 1)
  /\ cb' = [cb EXCEPT ![c] = [token |-> requests + 1, state |-> "asked", seq |-> 0, val |-> 0]]

\* oc_stop_observe
Unsubscribe(c) ==
  /\ cb[c].state = "on"
  /\ Request(c, "cancel", FALSE, cb[c].token)
  /\ cb' = [cb EXCEPT ![c].state = "stopping"]

\* any other request to the resource
Change(c, con) ==
  /\ Request(c, "post", con, requests + 1)
  /\ UNCHANGED cb

\* oc_ri_invoke_client_cb: a response without the option ends the callback; the
\* handler is told the number of a notification and keeps the newest
Accept(c, m) ==
  IF m.kind = "reply" /\ ~m.observe THEN NoCallback
  ELSE LET on == [cb[c] EXCEPT !.state = IF @ = "asked" THEN "on" ELSE @]
           seq == IF m.kind = "note" THEN m.seq ELSE 0
       IN IF seq >= on.seq THEN [on EXCEPT !.seq = seq, !.val = m.val] ELSE on

\* the first message to a client arrives
ClientReceive(c) ==
  /\ down[c] # <<>>
  /\ down' = [down EXCEPT ![c] = Tail(@)]
  /\ LET m == Head(down[c])  known == m.token = cb[c].token IN
     /\ cb' = IF known THEN [cb EXCEPT ![c] = Accept(c, m)] ELSE cb
     /\ up' = IF c \in Strict /\ m.kind = "note" /\ ~known
              THEN up \cup {[what |-> "reset", client |-> c, mid |-> m.mid]}
              ELSE up
  /\ UNCHANGED <<server, bounds, disturbed>>

\* power cycle: the callbacks and what is on the way to the client are gone
Restart(c) ==
  /\ faults < MaxFaults
  /\ faults' = faults + 1
  /\ cb' = [cb EXCEPT ![c] = NoCallback]
  /\ down' = [down EXCEPT ![c] = <<>>]
  /\ UNCHANGED <<server, up, requests, polls, disturbed>>

LoseRequest(m) ==
  /\ m \in up /\ faults < MaxFaults
  /\ up' = up \ {m}
  /\ faults' = faults + 1
  /\ disturbed' = TRUE
  /\ UNCHANGED <<server, down, cb, requests, polls>>

LoseAnswer(c) ==
  /\ down[c] # <<>> /\ faults < MaxFaults
  /\ down' = [down EXCEPT ![c] = Tail(@)]
  /\ faults' = faults + 1
  /\ disturbed' = TRUE
  /\ UNCHANGED <<server, up, cb, requests, polls>>

Init ==
  /\ value = 0 /\ observers = <<>> /\ counter = 3 /\ mids = 0
  /\ polled = FALSE /\ delayed = 0 /\ open = {}
  /\ history = <<>> /\ accepted = <<>>
  /\ up = {} /\ down = [c \in Clients |-> <<>>]
  /\ cb = [c \in Clients |-> NoCallback]
  /\ requests = 0 /\ faults = 0 /\ polls = 0
  /\ disturbed = FALSE

Timers ==
  \/ NotifyDelayed
  \/ \E t \in open : Retransmit(t) \/ Timeout(t)

Network ==
  \/ \E m \in up : Receive(m, FALSE) \/ Receive(m, TRUE) \/ ReceiveReset(m) \/ LoseRequest(m)
  \/ \E c \in Clients : ClientReceive(c) \/ LoseAnswer(c)

Next ==
  \/ Timers \/ Network
  \/ Poll \/ AppChange
  \/ \E c \in Clients : Subscribe(c) \/ Unsubscribe(c) \/ Restart(c)
  \/ \E c \in Writers : Change(c, TRUE) \/ Change(c, FALSE)

Spec == Init /\ [][Next]_vars

\* the event loop polls the timers
FairSpec == Spec /\ WF_vars(Timers)

-----------------------------------------------------------------------------
(* Properties.                                                             *)

\* The values the variables take.
TypeOK ==
  /\ value \in 0 .. MaxChanges /\ delayed \in 0 .. MaxChanges
  /\ \A i \in DOMAIN observers :
       /\ observers[i].client \in Clients /\ observers[i].token \in 1 .. MaxRequests
       /\ observers[i].counter \in 3 .. counter /\ observers[i].mid \in 0 .. mids
  /\ \A c \in Clients : Cardinality(Watching(c)) <= 1 \* one relation for a client
  /\ Len(history) <= HistorySize
  /\ {polled, disturbed} \subseteq BOOLEAN

NotesTo(c) == {down[c][k] : k \in {j \in DOMAIN down[c] : down[c][j].kind = "note"}}
              \cup {t.note : t \in {u \in open : u.client = c}}

\* Of two notifications under way to a client, in one relation or in two, the
\* one with the larger observe number has the newer value, so that a client can
\* put them in order, retransmissions included.
NumbersTellNewer ==
  \A c \in Clients : \A m, n \in NotesTo(c) :
    /\ m.seq = n.seq => m = n
    /\ m.seq < n.seq => m.val <= n.val

\* A non-confirmable request is processed a second time only after HistorySize
\* others have been processed.
OnceWithinHistory ==
  \A i, j \in DOMAIN accepted : i < j /\ accepted[i] = accepted[j] => j - i > HistorySize

Quiet == up = {} /\ delayed = 0 /\ \A c \in Clients : down[c] = <<>>

\* When no message was lost, copied or overtaken, no relation timed out, and
\* nothing is under way, every client with an observation has the value of the
\* resource, whoever changed it.
InformedWhenQuiet ==
  Quiet /\ ~disturbed => \A c \in Clients : cb[c].state = "on" => cb[c].val = value

\* Clients with an observation know the value in the end, whichever of their
\* messages were copied or late: they can tell which value is newer, and the
\* server which request it has seen.
ObserversTold == TypeOK /\ NumbersTellNewer /\ OnceWithinHistory /\ InformedWhenQuiet

\* A client that gets a confirmable notification is forgotten in the end, so one
\* that has gone does not stay in the list.
GoneForgotten ==
  \A c \in Clients : (\E t \in open : t.client = c) ~> Watching(c) = {}
=============================================================================
