--------------------------- MODULE TimedCallbacks ---------------------------
(***************************************************************************)
(* The delayed callbacks everything with a timeout rests on (api/oc_ri.c), *)
(* and the two linked lists each of them is in: a list of the library      *)
(* (util/oc_list.c) through the record itself, and the list of the timers  *)
(* (util/oc_etimer.c) through the timer inside it.  A record is a node of  *)
(* memory: its pointers are modelled, and a node that is freed is given    *)
(* out again (util/oc_memb.c).                                             *)
(*                                                                         *)
(* Handlers run in the middle of the walk over a list and set and remove   *)
(* callbacks there; none removes the callback it is called from.           *)
(* MessageFlow has the scheduler that polls and sleeps, and MessageBuffers *)
(* the timers of transactions, which are in the same list of timers.       *)
(***************************************************************************)
EXTENDS Integers, Sequences, FiniteSets

CONSTANTS
  Nodes,        \* the addresses of the records that memory has room for
  Null,
  Data,         \* what callbacks are about: handler and data
  Delays,       \* after how long they are set to run
  MaxTime,      \* bound: the clock
  MaxEvents     \* bound: the events of timers that wait

Lists == {"observe", "timed"}     \* observe_callbacks, timed_callbacks

VARIABLES
  head, next,     \* the lists, and the pointer of a record
  timerlist, tnext, p,       \* the list of timers; a timer's pointer and process
  data, interval, at,        \* a record: its data, its interval, when it expires
  used,           \* the records that are allocated
  events,         \* the events of timers in the queue
  doing, list, cur,          \* the walk: its list and event_cb
  now, next_expiration,
  want            \* ghost: what is set, list by list, in the order it was set

recordVars == <<data, interval, at>>
vars == <<head, next, timerlist, tnext, p, recordVars, used, events, doing, list, cur, now,
          next_expiration, want>>

-----------------------------------------------------------------------------
(* Linked lists.                                                           *)

\* The nodes from h on; more than there are if they are in a circle
Chain(h, nx) ==
  LET walk[k \in 0 .. Cardinality(Nodes)] ==
        IF k = 0 THEN IF h = Null THEN << >> ELSE <<h>>
        ELSE LET s == walk[k - 1]
             IN IF s = << >> \/ nx[s[Len(s)]] = Null THEN s ELSE Append(s, nx[s[Len(s)]])
  IN walk[Cardinality(Nodes)]

In(s) == {s[k] : k \in DOMAIN s}

\* oc_list_tail
Last(h, nx) == LET s == Chain(h, nx) IN IF s = << >> THEN Null ELSE s[Len(s)]

\* oc_list_add, as what the pointers of the list are then
Added(l, n) ==
  LET nx == [next EXCEPT ![n] = Null]
      t == Last(head[l], nx)
  IN IF t = Null THEN [head |-> [head EXCEPT ![l] = n], next |-> nx]
     ELSE [head |-> head, next |-> [nx EXCEPT ![t] = n]]

\* oc_list_remove; a record that is removed is freed
Removed(l, n) ==
  LET before == {m \in In(Chain(head[l], next)) : next[m] = n}
      nx == [m \in Nodes |-> IF m = n THEN Null ELSE IF m \in before THEN next[n] ELSE next[m]]
  IN IF head[l] = n THEN [head |-> [head EXCEPT ![l] = next[n]], next |-> [next EXCEPT ![n] = Null]]
     ELSE [head |-> head, next |-> nx]

\* _oc_memb_alloc and _oc_memb_free, after which the memory is blank as calloc
\* gives it out again
Alloc(n) == n \notin used /\ used' = used \cup {n}
Free(freed) ==
  /\ used' = used \ freed
  /\ data' = [n \in Nodes |-> IF n \in freed THEN Null ELSE data[n]]
  /\ interval' = [n \in Nodes |-> IF n \in freed THEN 0 ELSE interval[n]]
  /\ at' = [n \in Nodes |-> IF n \in freed THEN 0 ELSE at[n]]

-----------------------------------------------------------------------------
(* Timers.                                                                 *)

\* update_time: the distances are unsigned, so one that is overdue is far
Distance(n, when) == IF when[n] < now THEN when[n] - now + 2 ^ 16 ELSE when[n] - now
UpdateTime(tl, tn, when) ==
  next_expiration' =
    IF tl = Null THEN 0
    ELSE LET s == In(Chain(tl, tn))
         IN when[CHOOSE n \in s : \A m \in s : Distance(n, when) <= Distance(m, when)]

\* oc_timer_set, oc_timer_restart
Start(n, delay) ==
  /\ interval' = [interval EXCEPT ![n] = delay]
  /\ at' = [at EXCEPT ![n] = now + delay]

\* oc_timer_expired
Expired(n) == at[n] <= now

\* oc_etimer_set and oc_etimer_restart with add_timer: a timer that is not on the
\* list is put before the others
SetTimer(n, delay) ==
  /\ Start(n, delay)
  /\ p' = [p EXCEPT ![n] = "timed_callback_events"]
  /\ timerlist' = n
  /\ tnext' = [tnext EXCEPT ![n] = timerlist]
  /\ UpdateTime(n, tnext', at')

\* without taking the timer off the list
LeaveTimer(n) ==
  /\ p' = [p EXCEPT ![n] = "none"]
  /\ UNCHANGED <<timerlist, tnext, next_expiration>>

\* oc_etimer_stop
StopTimer(n) ==
  LET before == {m \in In(Chain(timerlist, tnext)) : tnext[m] = n}
      on == timerlist = n \/ before # {}
  IN /\ timerlist' = IF timerlist = n THEN tnext[n] ELSE timerlist
     /\ tnext' = [m \in Nodes |-> IF m = n THEN Null
                                  ELSE IF timerlist # n /\ m \in before THEN tnext[n]
                                  ELSE tnext[m]]
     /\ p' = [p EXCEPT ![n] = "none"]
     /\ IF on THEN UpdateTime(timerlist', [tnext' EXCEPT ![n] = Null], at)
        ELSE UNCHANGED next_expiration

\* oc_etimer_process: each timer that has expired leaves the list for an event
PollTimers ==
  LET s == Chain(timerlist, tnext)
      stay == SelectSeq(s, LAMBDA n : ~Expired(n))
      gone == In(s) \ In(stay)
  IN /\ doing = "idle" /\ gone # {}
     /\ events + Cardinality(gone) <= MaxEvents
     /\ events' = events + Cardinality(gone)
     /\ p' = [n \in Nodes |-> IF n \in gone THEN "none" ELSE p[n]]
     /\ timerlist' = IF stay = << >> THEN Null ELSE stay[1]
     /\ tnext' = [n \in Nodes |->
                    IF n \in gone THEN Null
                    ELSE IF \E k \in 2 .. Len(stay) : stay[k - 1] = n
                    THEN stay[CHOOSE k \in 2 .. Len(stay) : stay[k - 1] = n]
                    ELSE IF n \in In(stay) THEN Null ELSE tnext[n]]
     /\ UpdateTime(timerlist', tnext', at)
     /\ UNCHANGED <<head, next, recordVars, used, doing, list, cur, now, want>>

-----------------------------------------------------------------------------
(* Setting and removing callbacks: the main thread between two events, and *)
(* a handler during the walk.                                              *)

\* The first callback of the list that is about d
Found(l, d) ==
  LET s == Chain(head[l], next)
      hits == {k \in DOMAIN s : data[s[k]] = d}
  IN IF hits = {} THEN 0 ELSE CHOOSE k \in hits : \A j \in hits : k <= j

Set(l, n, d, delay) ==
  /\ Alloc(n)
  /\ data' = [data EXCEPT ![n] = d]
  /\ SetTimer(n, delay)
  /\ head' = Added(l, n).head /\ next' = Added(l, n).next
  /\ want' = [want EXCEPT ![l] = Append(@, [data |-> d, at |-> now + delay])]
  /\ UNCHANGED <<events, doing, list, cur, now>>

\* oc_ri_add_timed_event_callback_ticks
AddTimed(n, d, delay) == doing # "walk" /\ Set("timed", n, d, delay)

\* add_periodic_observe_callback, which only requests call, once for a resource
AddPeriodic(n, d, delay) ==
  doing = "idle" /\ Found("observe", d) = 0 /\ Set("observe", n, d, delay)

Without(s, k) == SubSeq(s, 1, k - 1) \o SubSeq(s, k + 1, Len(s))

Unset(l, d) ==
  LET n == Chain(head[l], next)[Found(l, d)]
  IN /\ Found(l, d) # 0
     /\ doing = "handler" => n # cur
     /\ StopTimer(n)
     /\ head' = Removed(l, n).head /\ next' = Removed(l, n).next
     /\ Free({n})
     /\ want' = [want EXCEPT ![l] = Without(@, Found(l, d))]
     /\ UNCHANGED <<events, doing, list, cur, now>>

\* oc_ri_remove_timed_event_callback
RemoveTimed(d) == doing # "walk" /\ Unset("timed", d)

\* remove_periodic_observe_callback, for a request
RemovePeriodic(d) == doing = "idle" /\ Unset("observe", d)

\* free_all_event_timers when the stack is shut down
FreeAll ==
  /\ doing = "idle" /\ used # {}
  /\ head' = [l \in Lists |-> Null] /\ next' = [n \in Nodes |-> Null]
  /\ Free(used)
  /\ p' = [n \in Nodes |-> IF n \in used THEN "none" ELSE p[n]]
  /\ timerlist' = Null /\ tnext' = [n \in Nodes |-> Null]
  /\ next_expiration' = 0
  /\ want' = [l \in Lists |-> << >>]
  /\ UNCHANGED <<events, doing, list, cur, now>>

-----------------------------------------------------------------------------
(* The walk: poll_event_callback_timers for the one list and the other.    *)

TimerEvent ==
  /\ doing = "idle" /\ events > 0
  /\ events' = events - 1
  /\ doing' = "walk" /\ list' = "observe" /\ cur' = head["observe"]
  /\ UNCHANGED <<head, next, timerlist, tnext, p, recordVars, used, now, next_expiration, want>>

EndOfList ==
  /\ doing = "walk" /\ cur = Null
  /\ IF list = "observe" THEN list' = "timed" /\ cur' = head["timed"] /\ UNCHANGED doing
     ELSE doing' = "idle" /\ UNCHANGED <<list, cur>>
  /\ UNCHANGED <<head, next, timerlist, tnext, p, recordVars, used, events, now,
                 next_expiration, want>>

NotExpired ==
  /\ doing = "walk" /\ cur # Null /\ p[cur] # "none"
  /\ cur' = next[cur]
  /\ UNCHANGED <<head, next, timerlist, tnext, p, recordVars, used, events, doing, list, now,
                 next_expiration, want>>

\* The handler is called ...
Call ==
  /\ doing = "walk" /\ cur # Null /\ p[cur] = "none"
  /\ doing' = "handler"
  /\ UNCHANGED <<head, next, timerlist, tnext, p, recordVars, used, events, list, cur, now,
                 next_expiration, want>>

\* ... and when it has returned the walk begins again
Restart(h) == h[list]

Mine == CHOOSE k \in DOMAIN Chain(head[list], next) : Chain(head[list], next)[k] = cur

\* ... OC_EVENT_DONE
Done ==
  /\ doing = "handler"
  /\ head' = Removed(list, cur).head /\ next' = Removed(list, cur).next
  /\ Free({cur})
  /\ doing' = "walk" /\ cur' = Restart(head')
  /\ want' = [want EXCEPT ![list] = Without(@, Mine)]
  /\ UNCHANGED <<timerlist, tnext, p, events, list, now, next_expiration>>

\* ... OC_EVENT_CONTINUE
Continue ==
  /\ doing = "handler"
  /\ SetTimer(cur, interval[cur])
  /\ doing' = "walk" /\ cur' = Restart(head)
  /\ want' = [want EXCEPT ![list][Mine].at = now + interval[cur]]
  /\ UNCHANGED <<head, next, data, used, events, list, now>>

-----------------------------------------------------------------------------
Tick ==
  /\ now < MaxTime
  /\ now' = now + 1
  /\ UNCHANGED <<head, next, timerlist, tnext, p, recordVars, used, events, doing, list, cur,
                 next_expiration, want>>

Init ==
  /\ head = [l \in Lists |-> Null] /\ next = [n \in Nodes |-> Null]
  /\ timerlist = Null /\ tnext = [n \in Nodes |-> Null] /\ p = [n \in Nodes |-> "none"]
  /\ data = [n \in Nodes |-> Null]
  /\ interval = [n \in Nodes |-> 0] /\ at = [n \in Nodes |-> 0]
  /\ used = {} /\ events = 0
  /\ doing = "idle" /\ list = "timed" /\ cur = Null
  /\ now = 0 /\ next_expiration = 0
  /\ want = [l \in Lists |-> << >>]

Next ==
  \/ Tick \/ PollTimers
  \/ \E n \in Nodes, d \in Data, delay \in Delays : AddTimed(n, d, delay) \/ AddPeriodic(n, d, delay)
  \/ \E d \in Data : RemoveTimed(d) \/ RemovePeriodic(d)
  \/ FreeAll
  \/ TimerEvent \/ EndOfList \/ NotExpired \/ Call \/ Done \/ Continue

Spec == Init /\ [][Next]_vars

-----------------------------------------------------------------------------
(* Properties.                                                             *)

\* All variables have their types.
TypeOK ==
  /\ head \in [Lists -> Nodes \cup {Null}] /\ next \in [Nodes -> Nodes \cup {Null}]
  /\ timerlist \in Nodes \cup {Null} /\ tnext \in [Nodes -> Nodes \cup {Null}]
  /\ p \in [Nodes -> {"none", "timed_callback_events"}]
  /\ data \in [Nodes -> Data \cup {Null}] /\ interval \in [Nodes -> Nat] /\ at \in [Nodes -> Nat]
  /\ used \subseteq Nodes /\ events \in Nat
  /\ doing \in {"idle", "walk", "handler"} /\ list \in Lists /\ cur \in Nodes \cup {Null}
  /\ now \in Nat /\ next_expiration \in Nat
  /\ \A l \in Lists : \A k \in DOMAIN want[l] : want[l][k] \in [data : Data, at : Nat]

\* The lists hold what was set and not removed, in its order: no record is lost,
\* in two lists or in use after it was freed, whatever handlers set and remove
\* while the list they are called from is walked.
ListsAsWanted ==
  LET c == [l \in Lists |-> Chain(head[l], next)]
  IN /\ \A l \in Lists : [k \in DOMAIN c[l] |-> [data |-> data[c[l][k]], at |-> at[c[l][k]]]]
                           = want[l]
     /\ In(c["observe"]) \cap In(c["timed"]) = {}
     /\ In(c["observe"]) \cup In(c["timed"]) = used
     /\ doing # "idle" => cur \in used \cup {Null}

\* A callback waits for its time on the list of the timers, or for an event that
\* is in the queue, or for the walk that is under way: none is forgotten.
NoneForgotten ==
  LET timers == Chain(timerlist, tnext)
  IN /\ In(timers) = {n \in used : p[n] # "none"} /\ Len(timers) = Cardinality(In(timers))
     /\ \A n \in used : p[n] = "none" =>
          \/ events > 0
          \/ doing # "idle" /\ n \in In(Chain(cur, next))
          \/ doing # "idle" /\ list = "observe" /\ n \in In(Chain(head["timed"], next))

\* The handler that is called is that of a callback that is set and whose time
\* has come.
CalledInTime == doing = "handler" => cur \in used /\ at[cur] <= now

\* The scheduler is told the time of the first timer, or to be quick.
NextIsFirst ==
  LET timers == In(Chain(timerlist, tnext))
  IN timers # {} /\ (\A n \in timers : at[n] > now)
       => next_expiration \in {at[n] : n \in timers} /\ \A n \in timers : next_expiration <= at[n]

\* Delayed callbacks run when they are to, each as often as it is to.
CallbacksKept == TypeOK /\ ListsAsWanted /\ NoneForgotten /\ CalledInTime /\ NextIsFirst
=============================================================================
