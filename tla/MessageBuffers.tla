--------------------------- MODULE MessageBuffers ---------------------------
(***************************************************************************)
(* The message buffers and who owns them: allocation and reference counts  *)
(* (api/oc_buffer.c), the way of a message out through the buffer process  *)
(* and the OSCORE process (security/oc_oscore_engine.c), the message that  *)
(* an open transaction keeps for its retransmissions                       *)
(* (messaging/coap/transactions.c), the cache of messages that are sent    *)
(* again with an Echo option (api/oc_replay.c, messaging/coap/engine.c),   *)
(* and their timers.                                                       *)
(*                                                                         *)
(* Everything here runs in the main thread, a handler a step; messages     *)
(* from the network enter the queue when the scheduler polls.  MessageFlow *)
(* has the polling and the circular buffer of the queue, which is a        *)
(* sequence here.  A message is the address of its buffer; memory has room *)
(* for the addresses of Msgs, and allocation may fail.                     *)
(***************************************************************************)
EXTENDS Integers, Sequences, FiniteSets

CONSTANTS
  Msgs,           \* the addresses of the buffers that memory has room for
  NoMsg,          \* NULL
  Sends,          \* what is sent: [kind, con, secured]
  ContextFound,   \* whether an outgoing message has an OSCORE context
  MaxQueue        \* bound: the events that wait when a new one comes

Records == {0, 1}             \* OC_MAX_MESSAGE_RECORDS

ASSUME BufferAssumption ==
  /\ NoMsg \notin Msgs
  /\ Sends \subseteq [kind : {"unicast", "discovery", "oscore", "group"},
                      con : BOOLEAN, secured : BOOLEAN]
  /\ ContextFound \subseteq BOOLEAN
  /\ MaxQueue \in Nat

VARIABLES
  q,          \* the event queue
  doing,      \* do_event, or the loop over the expired timers it is in
  kind,       \* what a buffer holds; "free" for a free one
  ref,        \* ref_count
  trans,      \* the messages of the open transactions
  cache,      \* message_records[].message
  tracked,    \* the messages with a delayed callback of the cache
  tm,         \* the timers of the transactions and of the cache
  leaked,     \* ghost: buffers whose last pointer was overwritten
  broken      \* ghost: a buffer was used or freed after it was freed

vars == <<q, doing, kind, ref, trans, cache, tracked, tm, leaked, broken>>

EventTypes == {"INBOUND_RI_EVENT", "OUTBOUND_NETWORK_EVENT",
               "OUTBOUND_OSCORE_EVENT", "OUTBOUND_GROUP_OSCORE_EVENT",
               "OUTBOUND_NETWORK_EVENT_ENCRYPTED", "TIMER_ENGINE",
               "TIMER_CALLBACKS"}

Event(t, m) == [type |-> t, m |-> m]
Turn(t) == doing = "event" /\ q # << >> /\ Head(q).type = t /\ ~broken
M == Head(q).m

\* No event of message m is left in the queue
Passed(m) == \A i \in DOMAIN q : q[i].m # m

-----------------------------------------------------------------------------
(* Allocation and references.                                              *)

\* A block that allocate_message may return: nothing refers to it.  (malloc may
\* return a block to which a stale pointer is left; what is wrong then is that
\* the stale pointer is used, and broken says so.)
Free(m) == kind[m] = "free" /\ m \notin {cache[i] : i \in Records}
CanAllocate(n) == Cardinality({m \in Msgs : Free(m)}) >= n

\* oc_message_unref of each of the messages of ms: r is the new count, and a
\* buffer without references is free
Unref(r, ms) == [m \in Msgs |-> IF m \in ms THEN r[m] - 1 ELSE r[m]]
FreeUnused(k) == [m \in Msgs |-> IF ref'[m] <= 0 THEN "free" ELSE k[m]]

\* find_record_by_msg assigns where it should compare: it finds record 0,
\* whatever message it looks for
FindRecordByMsg(m) == 0

\* find_empty_msg_record: the first, if there is one
FindEmptyMsgRecord ==
  {i \in Records : cache[i] = NoMsg /\ \A j \in Records :
                                         cache[j] = NoMsg => i <= j}

-----------------------------------------------------------------------------
(* From and to the network.                                                *)

\* A message is read into a buffer, and the next poll posts it
NetReceive(m) ==
  /\ Free(m)
  /\ ~broken
  /\ Len(q) < MaxQueue
  /\ q' = Append(q, Event("INBOUND_RI_EVENT", m))
  /\ ref' = [ref EXCEPT ![m] = 1]
  /\ kind' = [kind EXCEPT ![m] = "received"]
  /\ UNCHANGED <<doing, trans, cache, tracked, tm, leaked, broken>>

\* The handler posts es and drops its references to the messages of drop
PassOn(es, drop) ==
  /\ q' = IF es = << >> THEN Tail(q) ELSE Append(Tail(q), es[1])
  /\ ref' = Unref(ref, drop)
  /\ kind' = FreeUnused(kind)
  /\ UNCHANGED <<doing, trans, cache, tracked, tm, leaked, broken>>

\* message_buffer_handler: an outgoing message goes to the OSCORE process or to
\* the socket
Outbound ==
  /\ Turn("OUTBOUND_NETWORK_EVENT")
  /\ CASE kind[M] = "group" ->
            PassOn(<<Event("OUTBOUND_GROUP_OSCORE_EVENT", M)>>, {})
       [] kind[M] = "oscore" ->
            PassOn(<<Event("OUTBOUND_OSCORE_EVENT", M)>>, {})
       [] OTHER -> PassOn(<< >>, {M})

\* oc_oscore_send_multicast_message: protected in place and sent, or not; the
\* reference is dropped
OscoreGroupSend ==
  /\ Turn("OUTBOUND_GROUP_OSCORE_EVENT")
  /\ PassOn(<< >>, {M})

OutboundEncrypted ==
  /\ Turn("OUTBOUND_NETWORK_EVENT_ENCRYPTED")
  /\ PassOn(<< >>, {M})

\* mutant: the reference to the original is kept
OscoreSendKeeps(copy) ==
  /\ Turn("OUTBOUND_OSCORE_EVENT")
  /\ TRUE \in ContextFound
  /\ Free(copy)
  /\ q' = Append(Tail(q), Event("OUTBOUND_NETWORK_EVENT_ENCRYPTED", copy))
  /\ ref' = [ref EXCEPT ![copy] = 1]
  /\ kind' = [kind EXCEPT ![copy] = "encrypted"]
  /\ UNCHANGED <<doing, trans, cache, tracked, tm, leaked, broken>>

\* mutant: the message is protected in place
OscoreSendInPlace(copy) ==
  /\ Turn("OUTBOUND_OSCORE_EVENT")
  /\ TRUE \in ContextFound
  /\ Free(copy)
  /\ q' = Append(Tail(q), Event("OUTBOUND_NETWORK_EVENT_ENCRYPTED", M))
  /\ kind' = [kind EXCEPT ![M] = "encrypted"]
  /\ UNCHANGED <<doing, ref, trans, cache, tracked, tm, leaked, broken>>

\* oc_oscore_send_message: the message is copied, and the copy is protected and
\* posted
OscoreSend(copy) ==
  /\ Turn("OUTBOUND_OSCORE_EVENT")
  /\ TRUE \in ContextFound
  /\ Free(copy)
  /\ q' = Append(Tail(q), Event("OUTBOUND_NETWORK_EVENT_ENCRYPTED", copy))
  /\ ref' = Unref([ref EXCEPT ![copy] = 1], {M})
  /\ kind' = FreeUnused([kind EXCEPT ![copy] = "encrypted"])
  /\ UNCHANGED <<doing, trans, cache, tracked, tm, leaked, broken>>

\* An error after the context is found (no client callback, encryption): the
\* copy is freed at oscore_send_error
OscoreSendError ==
  /\ Turn("OUTBOUND_OSCORE_EVENT")
  /\ TRUE \in ContextFound
  /\ CanAllocate(1)
  /\ PassOn(<< >>, {M})

\* Without a context the copy is freed, and freed again at oscore_send_error
OscoreNoContext ==
  /\ Turn("OUTBOUND_OSCORE_EVENT")
  /\ FALSE \in ContextFound
  /\ CanAllocate(1)
  /\ broken' = TRUE
  /\ q' = Tail(q)
  /\ ref' = Unref(ref, {M})
  /\ kind' = FreeUnused(kind)
  /\ UNCHANGED <<doing, trans, cache, tracked, tm, leaked>>

\* No memory for the copy: only the missing copy is freed
OscoreNoMemory ==
  /\ Turn("OUTBOUND_OSCORE_EVENT")
  /\ ~CanAllocate(1)
  /\ q' = Tail(q)
  /\ leaked' = leaked \cup {M}
  /\ UNCHANGED <<doing, kind, ref, trans, cache, tracked, tm, broken>>

-----------------------------------------------------------------------------
(* coap_engine, and what it sends.                                         *)

\* coap_receive handles the message and sends nothing
EngineReceive ==
  /\ Turn("INBOUND_RI_EVENT")
  /\ PassOn(<< >>, {M})

\* coap_receive, or a handler it calls, sends s: coap_new_transaction,
\* coap_send_transaction, oc_send_message.  A confirmable message stays with
\* its transaction; a secured request that is not confirmable is tracked
\* (oc_replay_message_track) if a record is free.  Both set a timer.
EngineSend(s, m) ==
  LET rec == IF s.secured /\ ~s.con THEN FindEmptyMsgRecord ELSE {}
      kept == s.con \/ rec # {}
  IN /\ Turn("INBOUND_RI_EVENT")
     /\ Free(m)
     /\ q' = Append(Tail(q), Event("OUTBOUND_NETWORK_EVENT", m))
     /\ ref' = Unref([ref EXCEPT ![m] = IF kept THEN 2 ELSE 1], {M})
     /\ kind' = FreeUnused([kind EXCEPT ![m] = s.kind])
     /\ trans' = IF s.con THEN trans \cup {m} ELSE trans
     /\ tracked' = IF rec # {} THEN tracked \cup {m} ELSE tracked
     /\ cache' = [i \in Records |-> IF i \in rec THEN m ELSE cache[i]]
     /\ tm' = IF kept THEN [tm EXCEPT ![m] = "armed"] ELSE tm
     /\ UNCHANGED <<doing, leaked, broken>>

\* coap_clear_transaction, in a handler that also drops the messages of drop
Clear(t, drop) ==
  /\ trans' = trans \ {t}
  /\ ref' = Unref(Unref(ref, {t}), drop)
  /\ kind' = FreeUnused(kind)
  /\ tm' = [tm EXCEPT ![t] = "idle"]
  /\ UNCHANGED <<cache, tracked, leaked, broken>>

\* coap_receive: an answer ends transaction t
EngineAnswer(t) ==
  /\ Turn("INBOUND_RI_EVENT")
  /\ t \in trans
  /\ Clear(t, {M})
  /\ q' = Tail(q)
  /\ UNCHANGED doing

\* coap_receive: transaction t is challenged with an Echo.  The message that
\* coap_new_transaction has allocated is overwritten by a second one.
EngineEcho(t, lost, new) ==
  /\ Turn("INBOUND_RI_EVENT")
  /\ t \in trans
  /\ Free(lost) /\ Free(new) /\ lost # new
  /\ leaked' = leaked \cup {lost}
  /\ q' = Append(Tail(q), Event("OUTBOUND_NETWORK_EVENT", new))
  /\ ref' = Unref([ref EXCEPT ![lost] = 1, ![new] = 2], {t, M})
  /\ kind' = FreeUnused([kind EXCEPT ![lost] = "empty", ![new] = kind[t]])
  /\ trans' = (trans \ {t}) \cup {new}
  /\ tm' = [tm EXCEPT ![t] = "idle", ![new] = "armed"]
  /\ UNCHANGED <<doing, cache, tracked, broken>>

\* coap_receive: the challenged request is no transaction but is found in
\* record i of the cache.  It is sent again as a new message, which is tracked
\* if a record is free, and then given up by oc_replay_message_unref.
EngineEchoCached(i, new) ==
  /\ Turn("INBOUND_RI_EVENT")
  /\ cache[i] # NoMsg
  /\ Passed(cache[i])
  /\ kind[cache[i]] # "free"
  /\ Free(new)
  /\ LET old  == cache[i]
         rec  == FindEmptyMsgRecord
         kept == rec # {}
     IN /\ q' = Append(Tail(q), Event("OUTBOUND_NETWORK_EVENT", new))
        /\ ref' = Unref([ref EXCEPT ![new] = IF kept THEN 2 ELSE 1], {old, M})
        /\ kind' = FreeUnused([kind EXCEPT ![new] = kind[old]])
        /\ cache' = [[j \in Records |-> IF j \in rec THEN new ELSE cache[j]]
                       EXCEPT ![FindRecordByMsg(old)] = NoMsg]
        /\ tracked' = (IF kept THEN tracked \cup {new} ELSE tracked) \ {old}
        /\ tm' = [tm EXCEPT ![new] = IF kept THEN "armed" ELSE @,
                            ![old] = "idle"]
  /\ UNCHANGED <<doing, trans, leaked, broken>>

\* The record points to a buffer that has been freed, or there is no memory for
\* the new message or transaction, which the code does not test
EngineEchoBroken ==
  /\ Turn("INBOUND_RI_EVENT")
  /\ \/ \E i \in Records : /\ cache[i] # NoMsg
                           /\ Passed(cache[i])
                           /\ kind[cache[i]] = "free" \/ ~CanAllocate(1)
     \/ trans # {} /\ ~CanAllocate(2)
  /\ broken' = TRUE
  /\ q' = Tail(q)
  /\ UNCHANGED <<doing, kind, ref, trans, cache, tracked, tm, leaked>>

-----------------------------------------------------------------------------
(* Timers.                                                                 *)

\* Timer t expires and the poll of oc_etimer_process posts its event.  The
\* queue is worked off long before the delayed callback of a tracked message is
\* due (OC_REPLAY_RECORD_TIMEOUT).
TimerExpires(t) ==
  /\ tm[t] = "armed"
  /\ ~broken
  /\ Len(q) < MaxQueue
  /\ t \in tracked => Passed(t)
  /\ tm' = [tm EXCEPT ![t] = "posted"]
  /\ q' = Append(q, Event(IF t \in trans THEN "TIMER_ENGINE"
                        ELSE "TIMER_CALLBACKS", NoMsg))
  /\ UNCHANGED <<doing, kind, ref, trans, cache, tracked, leaked, broken>>

\* check_event_callbacks and coap_check_transactions go through all timers that
\* have expired, in steps of their own
TimerEvent ==
  /\ \/ Turn("TIMER_CALLBACKS") /\ doing' = "callbacks"
     \/ Turn("TIMER_ENGINE") /\ doing' = "transactions"
  /\ q' = Tail(q)
  /\ UNCHANGED <<kind, ref, trans, cache, tracked, tm, leaked, broken>>

\* oc_replay_free_msg_handler, the delayed callback of a tracked message
CallbackCache(m) ==
  /\ doing = "callbacks"
  /\ m \in tracked
  /\ tm[m] = "posted"
  /\ cache' = [cache EXCEPT ![FindRecordByMsg(m)] = NoMsg]
  /\ tracked' = tracked \ {m}
  /\ tm' = [tm EXCEPT ![m] = "idle"]
  /\ ref' = Unref(ref, {m})
  /\ kind' = FreeUnused(kind)
  /\ UNCHANGED <<q, doing, trans, leaked, broken>>

\* An expired transaction is sent again (bound: not after a reference
\* was lost) ...
Retransmit(m) ==
  /\ doing = "transactions"
  /\ m \in trans \ leaked
  /\ tm[m] = "posted"
  /\ q' = Append(q, Event("OUTBOUND_NETWORK_EVENT", m))
  /\ ref' = [ref EXCEPT ![m] = @ + 1]
  /\ tm' = [tm EXCEPT ![m] = "armed"]
  /\ UNCHANGED <<doing, kind, trans, cache, tracked, leaked, broken>>

\* ... or, after the last retransmission, given up
Timeout(m) ==
  /\ doing = "transactions"
  /\ m \in trans
  /\ tm[m] = "posted"
  /\ Clear(m, {})
  /\ UNCHANGED <<q, doing>>

TimersDone ==
  /\ doing # "event"
  /\ \A m \in Msgs : tm[m] = "posted" =>
       m \notin (IF doing = "callbacks" THEN tracked ELSE trans)
  /\ doing' = "event"
  /\ UNCHANGED <<q, kind, ref, trans, cache, tracked, tm, leaked, broken>>

-----------------------------------------------------------------------------
Init ==
  /\ q = << >>
  /\ doing = "event"
  /\ kind = [m \in Msgs |-> "free"]
  /\ ref = [m \in Msgs |-> 0]
  /\ trans = {}
  /\ cache = [i \in Records |-> NoMsg]
  /\ tracked = {}
  /\ tm = [m \in Msgs |-> "idle"]
  /\ leaked = {}
  /\ broken = FALSE

Next ==
  \/ \E m \in Msgs : NetReceive(m) \/ OscoreSend(m)
  \/ Outbound \/ OscoreGroupSend \/ OutboundEncrypted
  \/ OscoreSendError \/ OscoreNoContext \/ OscoreNoMemory
  \/ EngineReceive \/ EngineEchoBroken
  \/ \E m \in Msgs, s \in Sends : EngineSend(s, m)
  \/ \E t, lost, new \in Msgs : EngineEcho(t, lost, new)
  \/ \E i \in Records, new \in Msgs : EngineEchoCached(i, new)
  \/ TimerEvent \/ TimersDone
  \/ \E m \in Msgs : \/ EngineAnswer(m) \/ TimerExpires(m)
                     \/ CallbackCache(m) \/ Retransmit(m) \/ Timeout(m)

Spec == Init /\ [][Next]_vars

-----------------------------------------------------------------------------
(* Properties.                                                             *)

\* The values the variables take.
TypeOK ==
  /\ q \in Seq([type : EventTypes, m : Msgs \cup {NoMsg}])
  /\ doing \in {"event", "callbacks", "transactions"}
  /\ kind \in [Msgs -> {"free", "received", "unicast", "discovery", "oscore",
                       "group", "encrypted", "empty"}]
  /\ ref \in [Msgs -> Nat]
  /\ trans \subseteq Msgs /\ tracked \subseteq Msgs /\ leaked \subseteq Msgs
  /\ cache \in [Records -> Msgs \cup {NoMsg}]
  /\ tm \in [Msgs -> {"idle", "armed", "posted"}]
  /\ broken \in BOOLEAN

\* How many pointers that own a reference lead to m
Holders(m) ==
  Cardinality({i \in DOMAIN q : q[i].m = m})
  + Cardinality({m} \cap trans)
  + Cardinality({m} \cap tracked)

\* A buffer has as many references as there are pointers that own one (events
\* in the queue, an open transaction, the delayed callback of the cache): none
\* is freed while it is in use and none is kept without use, in any order of
\* answers, challenges, retransmissions and timers, except the buffers that the
\* two paths in leaked lose.
RefsExact == ~broken => \A m \in Msgs \ leaked : ref[m] = Holders(m)

\* The buffers are as the counts tell.
BuffersSound == TypeOK /\ RefsExact

\* A message that an open transaction may have to send again is still there,
\* unprotected as it was built: what goes through the OSCORE process is a copy.
TransactionsKeepMessage ==
  ~broken => \A m \in trans :
               kind[m] \in {s.kind : s \in {x \in Sends : x.con}}

\* "We haven't found a context, so we free the message we just created": once.
FreedOnce == ~broken
=============================================================================
