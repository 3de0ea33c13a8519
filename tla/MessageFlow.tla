---------------------------- MODULE MessageFlow ----------------------------
(***************************************************************************)
(* The way of a message from the socket to the CoAP engine: the network    *)
(* thread (port/linux/ipadapter.c, api/oc_network_events.c), the main loop *)
(* of an application with oc_main_poll, the polling and the events of the  *)
(* scheduler (util/oc_process.c) and its timers (util/oc_etimer.c), the    *)
(* buffer process (api/oc_buffer.c) and the OSCORE process.                *)
(*                                                                         *)
(* A step makes at most one access to what the two threads share (the list *)
(* under its mutex, process state, needspoll, poll_requested, the          *)
(* condition variable) that the other thread could come between, and       *)
(* everything the thread does by itself up to the next one.  A message is  *)
(* the address of its buffer, a number; memory has room for MaxMsgs of     *)
(* them.  What is sent, and the references to buffers, are in              *)
(* MessageBuffers.                                                         *)
(***************************************************************************)
EXTENDS EventQueue, FiniteSets

CONSTANTS
  MaxMsgs,        \* the message buffers that memory has room for
  InKinds,        \* the kinds of incoming messages: {"plain", "oscore"}
  AppTimer,       \* whether the application keeps a delayed callback running
  IfChanges       \* the changes of the network interfaces: {"up", "down"}

ASSUME FlowAssumption ==
  /\ MaxMsgs \in Nat \ {0}
  /\ InKinds \subseteq {"plain", "oscore"}
  /\ AppTimer \in BOOLEAN
  /\ IfChanges \subseteq {"up", "down"}

VARIABLES
  q,          \* the event queue
  netlist,    \* network_events: what the network thread hands over
  ifs,        \* interface_up, interface_down
  kind,       \* what a buffer holds; "free" for a free one
  timer,      \* the timer of the application's delayed callback
  state,      \* oc_network_events.state
  needspoll,  \* needspoll of oc_network_events and of oc_etimer_process
  requested,  \* poll_requested
  timed,      \* ticks_until_next_event is not 0
  missed,     \* ghost: the last oc_process_poll had no effect
  main, net   \* where the main thread and the network thread are

data  == <<q, netlist, ifs, kind, timer>>
flags == <<state, needspoll, requested, timed>>
vars  == <<data, flags, missed, main, net>>

Msgs == 1 .. MaxMsgs
NoMsg == 0

Event(t, m) == [type |-> t, m |-> m]
PostAll(p, es) ==
  LET posted[n \in 0 .. Len(es)] == IF n = 0 THEN p ELSE Post(posted[n - 1], es[n])
  IN  posted[Len(es)]

\* Bound: the messages and changes of the interfaces the stack is not done with
Outstanding ==
  Cardinality({m \in Msgs : kind[m] # "free"}) + Cardinality(ifs)
  + Cardinality({i \in DOMAIN q.events :
                   q.events[i].type \in {"INTERFACE_UP", "INTERFACE_DOWN"}})

-----------------------------------------------------------------------------
(* The network thread.                                                     *)

\* network_event_thread: a datagram of kind k is read into a new buffer, and
\* oc_network_event adds it to the list under the mutex
NetReceive(k) ==
  /\ net = "select"
  /\ Outstanding < MaxMsgs
  /\ \E m \in Msgs : /\ kind[m] = "free"
                     /\ \A n \in Msgs : kind[n] = "free" => m <= n
                     /\ kind' = [kind EXCEPT ![m] = k]
                     /\ netlist' = Append(netlist, m)
  /\ net' = "poll"
  /\ UNCHANGED <<q, ifs, timer, flags, missed, main>>

\* oc_network_interface_event: a flag is set under the mutex
NetInterface(c) ==
  /\ net = "select"
  /\ Outstanding < MaxMsgs
  /\ ifs' = ifs \cup {c}
  /\ net' = "poll"
  /\ UNCHANGED <<q, netlist, kind, timer, flags, missed, main>>

\* oc_process_poll: needspoll = 1 if the process is in one of two states, then
\* poll_requested = 1.  The state belongs to the main thread, is not volatile
\* and is read without a lock.  A compiler may load it once for both
\* comparisons: then the test holds, since the process runs ...
NetNeedsPoll ==
  /\ \/ net = "poll"
     \/ net = "poll again" /\ state = "CALLED"
  /\ needspoll' = [needspoll EXCEPT !["net"] = TRUE]
  /\ missed' = FALSE
  /\ net' = "request"
  /\ UNCHANGED <<data, state, requested, timed, main>>

\* ... or once for each of them: then both comparisons may fail
NetStateMissed ==
  /\ \/ net = "poll" /\ state # "RUNNING"
          /\ net' = "poll again" /\ UNCHANGED missed
     \/ net = "poll again" /\ state # "CALLED"
          /\ net' = "signal" /\ missed' = TRUE
  /\ UNCHANGED <<data, flags, main>>

NetRequest ==
  /\ net = "request"
  /\ requested' = TRUE
  /\ net' = "signal"
  /\ UNCHANGED <<data, state, needspoll, timed, missed, main>>

\* signal_event_loop of the application: wakes the main thread if it waits,
\* and is without effect if it does not
NetSignal ==
  /\ net = "signal"
  /\ main' = IF main = "waiting" THEN "start" ELSE main
  /\ net' = "select"
  /\ UNCHANGED <<data, flags, missed>>

Network == NetNeedsPoll \/ NetStateMissed \/ NetRequest \/ NetSignal

-----------------------------------------------------------------------------
(* The main thread: oc_main_poll, the scheduler and the wait of the        *)
(* application.                                                            *)

Step(from, to) == main = from /\ main' = to /\ UNCHANGED <<missed, net>>

Pending == timer \in {"armed", "due"}

\* oc_main_poll calls oc_etimer_request_poll, which polls oc_etimer_process
\* and returns the time of the next timer, before every oc_process_run.  So a
\* poll is requested, and do_poll begins with poll_requested = 0.
MainStart ==
  /\ Step("start", "poll_net")
  /\ needspoll' = [needspoll EXCEPT !["timer"] = TRUE]
  /\ requested' = FALSE
  /\ timed' = Pending
  /\ UNCHANGED <<data, state>>

\* do_poll: oc_network_events was started last and comes first in the list.
\* Its flag is cleared before it is called.
MainPollNet ==
  /\ Step("poll_net", "call")
  /\ needspoll["net"]
  /\ state' = "RUNNING"
  /\ needspoll' = [needspoll EXCEPT !["net"] = FALSE]
  /\ UNCHANGED <<data, requested, timed>>

\* call_process(oc_network_events, POLL): oc_process_network_event empties the
\* list and the flags under the mutex and posts their events
MainCall ==
  /\ Step("call", "called")
  /\ state' = "CALLED"
  /\ q' = PostAll(q, [i \in DOMAIN netlist |->
                        Event("INBOUND_NETWORK_EVENT", netlist[i])]
                     \o (IF "up" \in ifs
                         THEN <<Event("INTERFACE_UP", NoMsg)>> ELSE << >>)
                     \o (IF "down" \in ifs
                         THEN <<Event("INTERFACE_DOWN", NoMsg)>> ELSE << >>))
  /\ netlist' = << >>
  /\ ifs' = {}
  /\ UNCHANGED <<kind, timer, needspoll, requested, timed>>

\* mutant: the flags are cleared together after the calls
MainPollClears ==
  /\ \/ Step("poll_net", "event") /\ ~needspoll["net"]
     \/ Step("called", "event")
  /\ state' = "RUNNING"
  /\ needspoll' = [p \in {"net", "timer"} |-> FALSE]
  /\ IF needspoll["timer"] /\ timer = "due"
     THEN q' = Post(q, Event("TIMER", NoMsg)) /\ timer' = "posted"
     ELSE UNCHANGED <<q, timer>>
  /\ UNCHANGED <<netlist, ifs, kind, requested, timed>>

\* The rest of do_poll.  The poll handler of oc_etimer_process, last in the
\* list: every expired timer posts an event and leaves the timer list.
MainPollTimer ==
  /\ \/ Step("poll_net", "event") /\ ~needspoll["net"]
     \/ Step("called", "event")
  /\ state' = "RUNNING"
  /\ needspoll' = [needspoll EXCEPT !["timer"] = FALSE]
  /\ IF needspoll["timer"] /\ timer = "due"
     THEN q' = Post(q, Event("TIMER", NoMsg)) /\ timer' = "posted"
     ELSE UNCHANGED <<q, timer>>
  /\ UNCHANGED <<netlist, ifs, kind, requested, timed>>

\* The loop of the application: the mutex is locked, and pthread_cond_wait or
\* pthread_cond_timedwait releases it while it waits
MainSleep ==
  /\ Step("sleep", "waiting")
  /\ UNCHANGED <<data, flags>>

\* pthread_cond_timedwait reaches the time of the next timer
MainTimeout ==
  /\ Step("waiting", "start")
  /\ timed
  /\ timer = "due"
  /\ UNCHANGED <<data, flags>>

\* Time passes until the timer has expired
Tick ==
  /\ timer = "armed"
  /\ timer' = "due"
  /\ UNCHANGED <<q, netlist, ifs, kind, flags, missed, main, net>>

-----------------------------------------------------------------------------
(* do_event and the handlers of the processes.                             *)

\* The rest of oc_process_run once the event is handled: oc_main_poll goes on
\* unless nevents + poll_requested is 0
Run == Step("event", IF q'.nevents > 0 \/ requested' THEN "start" ELSE "sleep")

Turn(t) == q.nevents > 0 /\ First(q).type = t
M == First(q).m

NoEventLeft ==
  /\ q.nevents = 0
  /\ UNCHANGED <<data, flags>>

\* message_buffer_handler: an incoming message goes to the OSCORE process or
\* to the engine
Inbound ==
  /\ Turn("INBOUND_NETWORK_EVENT")
  /\ q' = Post(Rest(q), Event(IF kind[M] = "oscore" THEN "INBOUND_OSCORE_EVENT"
                              ELSE "INBOUND_RI_EVENT", M))
  /\ UNCHANGED <<netlist, ifs, kind, timer, flags>>

\* oc_oscore_recv_message: decrypted in place and posted ...
OscoreReceive ==
  /\ Turn("INBOUND_OSCORE_EVENT")
  /\ q' = Post(Rest(q), Event("INBOUND_RI_EVENT", M))
  /\ UNCHANGED <<netlist, ifs, kind, timer, flags>>

\* mutant: the message is not freed
OscoreRejectKeeps ==
  /\ Turn("INBOUND_OSCORE_EVENT")
  /\ q' = Rest(q)
  /\ UNCHANGED <<netlist, ifs, kind, timer, flags>>

\* ... or freed at oscore_recv_error
OscoreReject ==
  /\ Turn("INBOUND_OSCORE_EVENT")
  /\ q' = Rest(q)
  /\ kind' = [kind EXCEPT ![M] = "free"]
  /\ UNCHANGED <<netlist, ifs, timer, flags>>

\* coap_engine: coap_receive, and the message is freed
Engine ==
  /\ Turn("INBOUND_RI_EVENT")
  /\ q' = Rest(q)
  /\ kind' = [kind EXCEPT ![M] = "free"]
  /\ UNCHANGED <<netlist, ifs, timer, flags>>

\* oc_network_events: the callbacks of the application
InterfaceEvent ==
  /\ \/ Turn("INTERFACE_UP")
     \/ Turn("INTERFACE_DOWN")
  /\ q' = Rest(q)
  /\ UNCHANGED <<netlist, ifs, kind, timer, flags>>

\* check_event_callbacks: the callback returns OC_EVENT_CONTINUE and its timer
\* is set again; add_timer calls oc_etimer_request_poll
TimerEvent ==
  /\ Turn("TIMER")
  /\ q' = Rest(q)
  /\ timer' = "armed"
  /\ needspoll' = [needspoll EXCEPT !["timer"] = TRUE]
  /\ requested' = TRUE
  /\ UNCHANGED <<netlist, ifs, kind, state, timed>>

MainEvent ==
  /\ \/ NoEventLeft \/ Inbound \/ OscoreReceive \/ OscoreReject \/ Engine
     \/ InterfaceEvent \/ TimerEvent
  /\ Run

-----------------------------------------------------------------------------
Init ==
  /\ q = EmptyQueue
  /\ netlist = << >>
  /\ ifs = {}
  /\ kind = [m \in Msgs |-> "free"]
  /\ timer = IF AppTimer THEN "armed" ELSE "idle"
  /\ state = "RUNNING"
  /\ needspoll = [p \in {"net", "timer"} |-> FALSE]
  /\ requested = FALSE
  /\ timed = FALSE
  /\ missed = FALSE
  /\ main = "start"
  /\ net = "select"

Main == MainStart \/ MainPollNet \/ MainCall \/ MainPollTimer \/ MainEvent
          \/ MainSleep \/ MainTimeout

Next == \/ Main
        \/ Network
        \/ \E k \in InKinds : NetReceive(k)
        \/ \E c \in IfChanges : NetInterface(c)
        \/ Tick

Spec == Init /\ [][Next]_vars

\* Both threads run, and time passes; nothing is assumed of the network
FairSpec == /\ Spec
            /\ WF_vars(Main)
            /\ WF_vars(Network)
            /\ WF_vars(Tick)

-----------------------------------------------------------------------------
(* Properties.                                                             *)

\* The values the variables take.
TypeOK ==
  /\ q.num \in Nat /\ q.nevents \in 0 .. q.num /\ q.fevent \in 0 .. q.num - 1
  /\ netlist \in Seq(Msgs)
  /\ ifs \subseteq {"up", "down"}
  /\ kind \in [Msgs -> {"free", "plain", "oscore"}]
  /\ timer \in {"idle", "armed", "due", "posted"}
  /\ state \in {"RUNNING", "CALLED"}
  /\ needspoll \in [{"net", "timer"} -> BOOLEAN]
  /\ {requested, timed, missed} \subseteq BOOLEAN
  /\ main \in {"start", "poll_net", "call", "called", "event", "sleep",
               "waiting"}
  /\ net \in {"select", "poll", "poll again", "request", "signal"}

\* What the network thread has handed over is never left without a flag that
\* makes the scheduler look at it: not while the flags are set without a lock,
\* in any order with the scheduler clearing them, and not while the list is
\* emptied.  The one way to lose it is a poll that misses the state.
PollNotLost ==
  /\ (netlist # << >> \/ ifs # {}) =>
        needspoll["net"] \/ net \in {"poll", "poll again"} \/ main = "call"
          \/ missed
  /\ needspoll["net"] =>
        requested \/ net = "request" \/ main = "poll_net"

\* The main thread does not wait without a time limit while a timer runs, even
\* if the last handler before the wait has set it.
SleepsTimed == main \in {"sleep", "waiting"} /\ Pending => timed

\* The main thread does not sleep over what is to be done: neither over what the
\* network thread has handed over nor over a timer.
StaysAwake == TypeOK /\ PollNotLost /\ SleepsTimed

\* The messages of K that are under way as events of type t, in their order
Channel(es, t, K) ==
  LET channel[n \in 0 .. Len(es)] ==
        IF n = 0 THEN << >>
        ELSE IF es[n].type = t /\ es[n].m \in K THEN Append(channel[n - 1], es[n].m)
        ELSE channel[n - 1]
  IN  channel[Len(es)]

\* What is posted, and what the next call of oc_network_events is going to post
UnderWay == Contents(q) \o [i \in DOMAIN netlist |->
                              Event("INBOUND_NETWORK_EVENT", netlist[i])]

\* The channel of the messages of kind k: first what has got furthest
InStage(t, k) == Channel(UnderWay, t, {m \in Msgs : kind[m] = k})

OfKind(k) == InStage("INBOUND_RI_EVENT", k) \o InStage("INBOUND_OSCORE_EVENT", k)
             \o InStage("INBOUND_NETWORK_EVENT", k)

Service == INSTANCE MessageService
             WITH Messages <- Msgs, Kinds <- InKinds, Protected <- {"oscore"},
                  pending <- [k \in InKinds |-> OfKind(k)]

\* Through the two threads, the polling flags, the growing event queue and the
\* OSCORE process, the messages of a kind reach the engine once, in the order
\* of their arrival.
ServiceSpec == Service!Spec

\* Whatever the threads do, a received message is handled or rejected, a change
\* of the network interfaces is passed on and an expired timer is served, as
\* long as the timer of the application ends the wait and until a poll misses.
Served ==
  /\ \A m \in Msgs : (kind[m] # "free") ~> (kind[m] = "free" \/ missed)
  /\ \A c \in IfChanges : (c \in ifs) ~> (c \notin ifs \/ missed)
  /\ (timer = "due") ~> (timer # "due")

\* "Function to signal the event loop so that incoming events are being
\* processed": what the network thread has handed over is taken.
SignalledIsProcessed == (netlist # << >>) ~> (netlist = << >>)
=============================================================================
