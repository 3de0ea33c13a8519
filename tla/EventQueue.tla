----------------------------- MODULE EventQueue -----------------------------
(***************************************************************************)
(* The event queue of the process scheduler (util/oc_process.c): a         *)
(* circular buffer of event_data that is doubled when it is full           *)
(* (OC_DYNAMIC_ALLOCATION).  A queue is a record                           *)
(*   num      OC_PROCESS_NUMEVENTS, the length of the buffer               *)
(*   events   the buffer, indexed from 0                                   *)
(*   fevent   the index of the first event                                 *)
(*   nevents  the number of events.                                        *)
(* An entry that holds no event is NoEvent.  The code leaves an event it   *)
(* has taken in the buffer; nothing reads it there, so here it is blanked. *)
(***************************************************************************)
EXTENDS Integers, Sequences

CONSTANT NumEvents      \* OC_PROCESS_NUMEVENTS at start (10 in the code)

ASSUME NumEventsAssumption == NumEvents \in Nat \ {0}

NoEvent == [type |-> "none", m |-> 0]

\* oc_process_init: calloc(OC_PROCESS_NUMEVENTS), nevents = fevent = 0
EmptyQueue == [num |-> NumEvents, fevent |-> 0, nevents |-> 0,
               events |-> [i \in 0 .. NumEvents - 1 |-> NoEvent]]

\* mutant: the part before the first event is moved as well
GrowAll(q) ==
  LET num == 2 * q.num
      new == num - q.nevents
  IN [num |-> num, fevent |-> new, nevents |-> q.nevents,
      events |-> [i \in 0 .. num - 1 |->
                    IF i >= new THEN q.events[i - new] ELSE NoEvent]]

\* The part of oc_process_post that doubles the buffer: the events from
\* fevent to the end of the old buffer move to the end of the new one, what
\* is left between is zeroed
Grow(q) ==
  LET num == 2 * q.num
      n   == q.nevents - q.fevent
      new == num - n
  IN [num |-> num, fevent |-> new, nevents |-> q.nevents,
      events |-> [i \in 0 .. num - 1 |->
                    IF i < q.fevent THEN q.events[i]
                    ELSE IF i >= new THEN q.events[q.fevent + (i - new)]
                    ELSE NoEvent]]

\* oc_process_post
Post(q, e) ==
  LET g    == IF q.nevents = q.num THEN Grow(q) ELSE q
      snum == (g.fevent + g.nevents) % g.num
  IN [g EXCEPT !.events[snum] = e, !.nevents = @ + 1]

\* do_event: the first event ...
First(q) == q.events[q.fevent]

\* ... which is taken from the buffer
Rest(q) == [q EXCEPT !.events[q.fevent] = NoEvent,
                     !.fevent = (@ + 1) % q.num,
                     !.nevents = @ - 1]

\* What the buffer stands for: the events in the order they were posted
Contents(q) == [i \in 1 .. q.nevents |-> q.events[(q.fevent + i - 1) % q.num]]
=============================================================================
