------------------------- MODULE MessageFlowProofs -------------------------
(***************************************************************************)
(* The way of a message from the socket to the engine, for any buffers,    *)
(* kinds of messages, changes of the interfaces and sizes of the queue.    *)
(***************************************************************************)
EXTENDS MessageFlow, TLAPS, WellFoundedInduction

-----------------------------------------------------------------------------
(* Numbers and sequences.                                                  *)

\* The least element of a set of numbers: what an induction on them needs.
LEMMA LeastNumber ==
  ASSUME NEW T \in SUBSET Nat, T # {}
  PROVE  \E n \in T : \A m \in T : n <= m
<1> DEFINE R == {ss \in Nat \X Nat : ss[1] < ss[2]}
<1>1. IsWellFoundedOn(R, Nat)
  BY NatLessThanWellFounded DEF OpToRel
<1> HIDE DEF R
<1>2. PICK n \in T : \A m \in T : ~ (<<m, n>> \in R)
  BY <1>1, WFMin
<1>3. \A m \in T : ~ (m < n)
  BY <1>2 DEF R
<1> QED BY <1>2, <1>3

LEMMA ModSmall == ASSUME NEW n \in Nat \ {0}, NEW a \in 0 .. n - 1 PROVE a % n = a
OBVIOUS

LEMMA ModWrap == ASSUME NEW n \in Nat \ {0}, NEW a \in n .. 2 * n - 1 PROVE a % n = a - n
OBVIOUS

LEMMA EmptySequence == \A S : << >> \in Seq(S)
OBVIOUS

LEMMA SeqDomain ==
  ASSUME NEW S, NEW s \in Seq(S)
  PROVE  DOMAIN s = 1 .. Len(s) /\ Len(s) \in Nat
OBVIOUS

LEMMA TailElements ==
  ASSUME NEW S, NEW s \in Seq(S), Len(s) > 0
  PROVE  Tail(s) = [i \in 1 .. Len(s) - 1 |-> s[i + 1]]
<1>1. Len(s) \in Nat /\ s # << >>
  OBVIOUS
<1>2. Tail(s) \in Seq(S) /\ Len(Tail(s)) = Len(s) - 1
  BY <1>1
<1>3. \A i \in 1 .. Len(s) - 1 : Tail(s)[i] = s[i + 1]
  BY <1>1
<1> DEFINE t == Tail(s)
           n == Len(s) - 1
<1> HIDE DEF t, n
<1>4. t \in Seq(S) /\ Len(t) = n
  BY <1>2 DEF t, n
<1>5. t \in [1 .. n -> S]
  BY <1>4
<1>6. t = [i \in 1 .. n |-> t[i]]
  BY <1>5
<1> QED BY <1>3, <1>6 DEF t, n

LEMMA Elements ==
  ASSUME NEW S, NEW s \in Seq(S), NEW i \in DOMAIN s
  PROVE  s[i] \in S
OBVIOUS

-----------------------------------------------------------------------------
(* The circular buffer, for events of any type and any number of them.     *)

Queue(E) ==
  UNION {[num : {n}, fevent : 0 .. n - 1, nevents : 0 .. n,
          events : [0 .. n - 1 -> E \cup {NoEvent}]] : n \in Nat \ {0}}

LEMMA QueueParts ==
  ASSUME NEW E, NEW q0 \in Queue(E)
  PROVE  /\ q0.num \in Nat \ {0} /\ q0.fevent \in 0 .. q0.num - 1
         /\ q0.nevents \in 0 .. q0.num
         /\ q0.events \in [0 .. q0.num - 1 -> E \cup {NoEvent}]
         /\ q0 = [num |-> q0.num, fevent |-> q0.fevent, nevents |-> q0.nevents,
                  events |-> q0.events]
BY DEF Queue

\* The place of the i-th event.
LEMMA Place ==
  ASSUME NEW n \in Nat \ {0}, NEW f \in 0 .. n - 1, NEW i \in 1 .. n + 1
  PROVE  /\ (f + i - 1) % n = IF f + i - 1 < n THEN f + i - 1 ELSE f + i - 1 - n
         /\ (f + i - 1) % n \in 0 .. n - 1
<1> DEFINE a == f + i - 1
<1>1. CASE a < n
  <2>1. a \in 0 .. n - 1
    BY <1>1
  <2> HIDE DEF a
  <2>2. a % n = a
    BY <2>1, ModSmall
  <2>3. a % n = (IF a < n THEN a ELSE a - n) /\ a % n \in 0 .. n - 1
    BY <1>1, <2>1, <2>2
  <2> QED BY <2>3 DEF a
<1>2. CASE ~ (a < n)
  <2>1. a \in n .. 2 * n - 1
    BY <1>2
  <2> HIDE DEF a
  <2>2. a % n = a - n
    BY <2>1, ModWrap
  <2>3. a % n = (IF a < n THEN a ELSE a - n) /\ a % n \in 0 .. n - 1
    BY <1>2, <2>1, <2>2
  <2> QED BY <2>3 DEF a
<1> QED BY <1>1, <1>2

LEMMA PlaceAfter ==
  ASSUME NEW n \in Nat \ {0}, NEW f \in 0 .. n - 1, NEW k \in 0 .. n
  PROVE  (f + k) % n = IF f + k < n THEN f + k ELSE f + k - n
<1> DEFINE a == f + k
<1>1. a \in 0 .. n - 1 \/ a \in n .. 2 * n - 1
  OBVIOUS
<1> HIDE DEF a
<1>2. a % n = IF a < n THEN a ELSE a - n
  BY <1>1, ModSmall, ModWrap
<1> QED BY <1>2 DEF a

\* Doubling the buffer keeps the events and their order, wherever the first is.
LEMMA GrowKeeps ==
  ASSUME NEW E, NEW q0 \in Queue(E), q0.nevents = q0.num
  PROVE  /\ Grow(q0) \in Queue(E)
         /\ Contents(Grow(q0)) = Contents(q0)
         /\ Grow(q0).nevents < Grow(q0).num
<1> DEFINE n == q0.num
           f == q0.fevent
           ev == q0.events
           g == Grow(q0)
<1>1. n \in Nat \ {0} /\ f \in 0 .. n - 1 /\ q0.nevents = n /\ ev \in [0 .. n - 1 -> E \cup {NoEvent}]
  BY QueueParts
<1>2. /\ g.num = 2 * n /\ g.fevent = f + n /\ g.nevents = n
      /\ g.events = [i \in 0 .. 2 * n - 1 |->
                       IF i < f THEN ev[i]
                       ELSE IF i >= f + n THEN ev[f + (i - (f + n))] ELSE NoEvent]
  BY <1>1 DEF Grow
<1>3. g = [num |-> g.num, fevent |-> g.fevent, nevents |-> g.nevents, events |-> g.events]
  BY DEF Grow
<1> HIDE DEF g
<1>4. g.events \in [0 .. 2 * n - 1 -> E \cup {NoEvent}]
  <2>1. \A i \in 0 .. 2 * n - 1 : i >= f + n => f + (i - (f + n)) \in 0 .. n - 1
    BY <1>1
  <2>2. \A i \in 0 .. 2 * n - 1 : i < f => i \in 0 .. n - 1
    BY <1>1
  <2> QED BY <1>1, <1>2, <2>1, <2>2
<1>5. g \in [num : {2 * n}, fevent : 0 .. 2 * n - 1, nevents : 0 .. 2 * n,
             events : [0 .. 2 * n - 1 -> E \cup {NoEvent}]]
  <2>1. /\ 2 * n \in {2 * n} /\ f + n \in 0 .. 2 * n - 1 /\ n \in 0 .. 2 * n
    BY <1>1
  <2> QED BY <1>2, <1>3, <1>4, <2>1
<1>6. g \in Queue(E)
  BY <1>1, <1>5 DEF Queue
<1>7. \A i \in 1 .. n : g.events[(f + n + i - 1) % (2 * n)] = ev[(f + i - 1) % n]
  <2> SUFFICES ASSUME NEW i \in 1 .. n
               PROVE  g.events[(f + n + i - 1) % (2 * n)] = ev[(f + i - 1) % n]
    OBVIOUS
  <2>1. (f + i - 1) % n = IF f + i - 1 < n THEN f + i - 1 ELSE f + i - 1 - n
    BY <1>1, Place
  <2>2. (f + n + i - 1) % (2 * n) = IF f + i - 1 < n THEN f + n + i - 1 ELSE f + i - 1 - n
    <3> HIDE DEF n, f, ev
    <3>1. 2 * n \in Nat \ {0} /\ f + n \in 0 .. 2 * n - 1 /\ i \in 1 .. 2 * n + 1
      BY <1>1
    <3>2. (f + n + i - 1) % (2 * n) = IF f + n + i - 1 < 2 * n THEN f + n + i - 1
                                      ELSE f + n + i - 1 - 2 * n
      BY <3>1, Place
    <3> QED BY <1>1, <3>2
  <2>3. CASE f + i - 1 < n
    <3> DEFINE j == f + n + i - 1
               x == f + (j - (f + n))
    <3>1. j \in 0 .. 2 * n - 1 /\ ~ (j < f) /\ j >= f + n /\ x = f + i - 1
      BY <1>1, <2>3
    <3>2. \A y \in 0 .. 2 * n - 1 : ~ (y < f) /\ y >= f + n => g.events[y] = ev[f + (y - (f + n))]
      BY <1>2
    <3>3. g.events[j] = ev[x]
      BY <3>1, <3>2
    <3> HIDE DEF x
    <3>4. g.events[j] = ev[f + i - 1]
      BY <3>1, <3>3
    <3> QED BY <2>1, <2>2, <2>3, <3>4
  <2>4. CASE ~ (f + i - 1 < n)
    <3>1. f + i - 1 - n \in 0 .. 2 * n - 1 /\ f + i - 1 - n < f
      BY <1>1, <2>4
    <3> QED BY <1>2, <2>1, <2>2, <2>4, <3>1
  <2> QED BY <2>3, <2>4
<1>8. Contents(g) = Contents(q0)
  BY <1>1, <1>2, <1>7 DEF Contents
<1> QED BY <1>1, <1>2, <1>6, <1>8 DEF g

\* Posting an event appends it.
LEMMA PostAppends ==
  ASSUME NEW E, NEW q0 \in Queue(E), NEW e \in E
  PROVE  /\ Post(q0, e) \in Queue(E)
         /\ Contents(Post(q0, e)) = Append(Contents(q0), e)
         /\ Post(q0, e).nevents = q0.nevents + 1
<1> DEFINE g == IF q0.nevents = q0.num THEN Grow(q0) ELSE q0
           p == Post(q0, e)
<1>1. g \in Queue(E) /\ Contents(g) = Contents(q0) /\ g.nevents < g.num
      /\ g.nevents = q0.nevents
  <2>1. CASE q0.nevents = q0.num
    BY <2>1, GrowKeeps DEF Grow
  <2>2. CASE q0.nevents # q0.num
    BY <2>2, QueueParts
  <2> QED BY <2>1, <2>2
<1>2. p = [g EXCEPT !.events[(g.fevent + g.nevents) % g.num] = e, !.nevents = @ + 1]
  BY DEF Post
<1> HIDE DEF g, p
<1> DEFINE n == g.num
           f == g.fevent
           k == g.nevents
           ev == g.events
           at == (f + k) % n
<1>3. /\ n \in Nat \ {0} /\ f \in 0 .. n - 1 /\ k \in 0 .. n - 1
      /\ ev \in [0 .. n - 1 -> E \cup {NoEvent}]
      /\ g = [num |-> n, fevent |-> f, nevents |-> k, events |-> ev]
  BY <1>1, QueueParts
<1>4. p = [num |-> n, fevent |-> f, nevents |-> k + 1, events |-> [ev EXCEPT ![at] = e]]
  BY <1>2, <1>3
<1>5. at \in 0 .. n - 1 /\ at = (f + (k + 1) - 1) % n
  BY <1>3, Place
<1>6. p \in Queue(E)
  <2>1. p \in [num : {n}, fevent : 0 .. n - 1, nevents : 0 .. n,
               events : [0 .. n - 1 -> E \cup {NoEvent}]]
    BY <1>3, <1>4, <1>5
  <2> QED BY <1>3, <2>1 DEF Queue
<1>7. Contents(p) = [i \in 1 .. k + 1 |-> p.events[(f + i - 1) % n]]
  BY <1>3, <1>4 DEF Contents
<1>8. Contents(g) = [i \in 1 .. k |-> ev[(f + i - 1) % n]]
  BY DEF Contents
<1>9. \A i \in 1 .. k : (f + i - 1) % n # at /\ (f + i - 1) % n \in 0 .. n - 1
  <2> SUFFICES ASSUME NEW i \in 1 .. k
               PROVE (f + i - 1) % n # at /\ (f + i - 1) % n \in 0 .. n - 1
    OBVIOUS
  <2>1. i \in 1 .. n + 1 /\ k + 1 \in 1 .. n + 1 /\ f + (k + 1) - 1 = f + k
    BY <1>3
  <2> HIDE DEF n, f, k
  <2>2. /\ (f + i - 1) % n = IF f + i - 1 < n THEN f + i - 1 ELSE f + i - 1 - n
        /\ (f + i - 1) % n \in 0 .. n - 1
    BY <1>3, <2>1, Place
  <2>3. (f + k) % n = IF f + k < n THEN f + k ELSE f + k - n
    BY <1>3, PlaceAfter
  <2> QED BY <1>3, <2>2, <2>3
<1>10. \A i \in 1 .. k : p.events[(f + i - 1) % n] = ev[(f + i - 1) % n]
  BY <1>3, <1>4, <1>5, <1>9
<1>11. p.events[(f + (k + 1) - 1) % n] = e
  BY <1>3, <1>4, <1>5
<1>12. Len(Contents(g)) = k /\ Contents(g) \in Seq(E \cup {NoEvent})
  <2>1. \A i \in 1 .. k : ev[(f + i - 1) % n] \in E \cup {NoEvent}
    BY <1>3, <1>9
  <2>2. Contents(g) \in [1 .. k -> E \cup {NoEvent}] /\ k \in Nat
    BY <1>3, <1>8, <2>1
  <2> QED BY <2>2
<1>13. Contents(p) = Append(Contents(g), e)
  BY <1>3, <1>7, <1>8, <1>10, <1>11, <1>12
<1> QED BY <1>1, <1>4, <1>6, <1>13 DEF p

\* Taking the first event leaves the others.
LEMMA RestTakes ==
  ASSUME NEW E, NEW q0 \in Queue(E), q0.nevents > 0
  PROVE  /\ Rest(q0) \in Queue(E)
         /\ Rest(q0).nevents = q0.nevents - 1
         /\ Contents(q0) # << >>
         /\ First(q0) = Head(Contents(q0))
         /\ Contents(Rest(q0)) = Tail(Contents(q0))
<1> DEFINE n == q0.num
           f == q0.fevent
           k == q0.nevents
           ev == q0.events
           r == Rest(q0)
           at == (f + 1) % n
<1>1. /\ n \in Nat \ {0} /\ f \in 0 .. n - 1 /\ k \in 1 .. n
      /\ ev \in [0 .. n - 1 -> E \cup {NoEvent}]
      /\ q0 = [num |-> n, fevent |-> f, nevents |-> k, events |-> ev]
  BY QueueParts
<1>2. r = [num |-> n, fevent |-> at, nevents |-> k - 1, events |-> [ev EXCEPT ![f] = NoEvent]]
  <2> DEFINE r1 == [q0 EXCEPT !.events = [ev EXCEPT ![f] = NoEvent]]
             r2 == [r1 EXCEPT !.fevent = at]
  <2>1. r1 = [num |-> n, fevent |-> f, nevents |-> k, events |-> [ev EXCEPT ![f] = NoEvent]]
    <3>1. q0 = [num |-> n, fevent |-> f, nevents |-> k, events |-> ev]
      BY <1>1
    <3> HIDE DEF n, f, k, ev
    <3> QED BY ONLY <3>1 DEF r1
  <2> HIDE DEF r1, at
  <2>2. r2 = [num |-> n, fevent |-> at, nevents |-> k, events |-> [ev EXCEPT ![f] = NoEvent]]
    BY <2>1
  <2>3. r = [r2 EXCEPT !.nevents = k - 1]
    BY <1>1 DEF Rest, r1, at
  <2> HIDE DEF r2
  <2> QED BY <2>2, <2>3
<1> HIDE DEF r
<1>3. at = (IF f + 1 < n THEN f + 1 ELSE 0) /\ at \in 0 .. n - 1
  <2> HIDE DEF n, f
  <2>1. 1 \in 0 .. n
    BY <1>1
  <2>2. at = IF f + 1 < n THEN f + 1 ELSE f + 1 - n
    BY <1>1, <2>1, PlaceAfter
  <2> QED BY <1>1, <2>2
<1>4. r \in Queue(E)
  <2>1. r \in [num : {n}, fevent : 0 .. n - 1, nevents : 0 .. n,
               events : [0 .. n - 1 -> E \cup {NoEvent}]]
    BY <1>1, <1>2, <1>3
  <2> QED BY <1>1, <2>1 DEF Queue
<1>5. \A i \in 1 .. k - 1 : r.events[(at + i - 1) % n] = ev[(f + (i + 1) - 1) % n]
  <2> SUFFICES ASSUME NEW i \in 1 .. k - 1
               PROVE  r.events[(at + i - 1) % n] = ev[(f + (i + 1) - 1) % n]
    OBVIOUS
  <2> HIDE DEF n, f, k, ev
  <2> DEFINE j == i + 1
  <2>1. i \in 1 .. n + 1 /\ j \in 1 .. n + 1
    BY <1>1
  <2>2. (at + i - 1) % n = IF at + i - 1 < n THEN at + i - 1 ELSE at + i - 1 - n
    <3> HIDE DEF at
    <3> QED BY <1>1, <1>3, <2>1, Place
  <2>3. /\ (f + j - 1) % n = IF f + j - 1 < n THEN f + j - 1 ELSE f + j - 1 - n
        /\ (f + j - 1) % n \in 0 .. n - 1
    <3> HIDE DEF j
    <3> QED BY <1>1, <2>1, Place
  <2> HIDE DEF at
  <2>4. (at + i - 1) % n = (f + j - 1) % n
    BY <1>1, <1>3, <2>1, <2>2, <2>3
  <2>5. (f + j - 1) % n # f
    BY <1>1, <2>1, <2>3
  <2> DEFINE x == (f + j - 1) % n
  <2>6. x \in 0 .. n - 1 /\ x # f /\ (at + i - 1) % n = x
    BY <2>3, <2>4, <2>5
  <2> HIDE DEF x
  <2>7. r.events[x] = ev[x]
    BY <1>1, <1>2, <2>6
  <2> QED BY <2>6, <2>7 DEF x
<1>6. Contents(r) = [i \in 1 .. k - 1 |-> r.events[(at + i - 1) % n]]
  BY <1>2 DEF Contents
<1>7. Contents(q0) = [i \in 1 .. k |-> ev[(f + i - 1) % n]]
  BY DEF Contents
<1>8. Contents(q0) \in Seq(E \cup {NoEvent}) /\ Len(Contents(q0)) = k
  <2>1. \A i \in 1 .. k : ev[(f + i - 1) % n] \in E \cup {NoEvent}
    <3> HIDE DEF n, f, k, ev
    <3>1. \A i \in 1 .. k : i \in 1 .. n + 1
      BY <1>1
    <3> QED BY <1>1, <3>1, Place
  <2>2. Contents(q0) \in [1 .. k -> E \cup {NoEvent}] /\ k \in Nat
    BY <1>1, <1>7, <2>1
  <2> QED BY <2>2
<1>9. Contents(r) = Tail(Contents(q0))
  <2>1. Tail(Contents(q0)) = [i \in 1 .. k - 1 |-> Contents(q0)[i + 1]]
    <3> DEFINE c == Contents(q0)
    <3>1. c \in Seq(E \cup {NoEvent}) /\ Len(c) = k /\ Len(c) > 0
      BY <1>1, <1>8
    <3> HIDE DEF c, k
    <3>2. Tail(c) = [i \in 1 .. Len(c) - 1 |-> c[i + 1]]
      BY <3>1, TailElements
    <3> QED BY <3>1, <3>2 DEF c
  <2>2. \A i \in 1 .. k - 1 : Contents(q0)[i + 1] = ev[(f + (i + 1) - 1) % n]
    BY <1>1, <1>7
  <2> QED BY <1>5, <1>6, <2>1, <2>2
<1>10. First(q0) = Head(Contents(q0))
  <2>1. Head(Contents(q0)) = ev[(f + 1 - 1) % n]
    BY <1>1, <1>7
  <2>2. (f + 1 - 1) % n = f
    <3>1. f + 1 - 1 = f
      BY <1>1
    <3>2. f % n = f
      BY <1>1, ModSmall
    <3> QED BY <3>1, <3>2
  <2> QED BY <2>1, <2>2 DEF First
<1>11. r.nevents = k - 1 /\ Contents(q0) # << >>
  BY <1>1, <1>2, <1>8
<1> QED BY <1>4, <1>9, <1>10, <1>11 DEF r

LEMMA EmptyQueueHolds ==
  ASSUME NEW E
  PROVE  EmptyQueue \in Queue(E) /\ Contents(EmptyQueue) = << >>
<1>1. EmptyQueue \in [num : {NumEvents}, fevent : 0 .. NumEvents - 1, nevents : 0 .. NumEvents,
                      events : [0 .. NumEvents - 1 -> E \cup {NoEvent}]]
  BY NumEventsAssumption DEF EmptyQueue
<1>2. Contents(EmptyQueue) = << >>
  BY DEF EmptyQueue, Contents
<1> QED BY <1>1, <1>2, NumEventsAssumption DEF Queue

-----------------------------------------------------------------------------
(* Posting a list of events: by induction on its length.                   *)

IsPosted(f, p, es, n) ==
  f = [i \in 0 .. n |-> IF i = 0 THEN p ELSE Post(f[i - 1], es[i])]

LEMMA PostedExists ==
  ASSUME NEW p, NEW es, NEW len \in Nat
  PROVE  \E f : IsPosted(f, p, es, len)
<1> DEFINE T == {n \in Nat : ~ \E f : IsPosted(f, p, es, n)}
<1> SUFFICES ASSUME T # {} PROVE FALSE
  OBVIOUS
<1>1. PICK n \in T : \A m \in T : n <= m
  <2>1. T \in SUBSET Nat
    OBVIOUS
  <2> HIDE DEF T
  <2> QED BY <2>1, LeastNumber
<1>2. CASE n = 0
  <2> DEFINE f == [i \in 0 .. 0 |-> p]
  <2>1. IsPosted(f, p, es, 0)
    BY DEF IsPosted
  <2> QED BY <1>1, <1>2, <2>1
<1>3. CASE n # 0
  <2>1. n \in Nat /\ n - 1 \in Nat /\ n - 1 \notin T
    BY <1>1, <1>3
  <2>2. PICK f : IsPosted(f, p, es, n - 1)
    BY <2>1
  <2> DEFINE g == [i \in 0 .. n |-> IF i < n THEN f[i] ELSE Post(f[n - 1], es[n])]
  <2>3. \A i \in 0 .. n - 1 : f[i] = IF i = 0 THEN p ELSE Post(f[i - 1], es[i])
    BY <2>1, <2>2 DEF IsPosted
  <2>4. \A i \in 0 .. n : g[i] = IF i = 0 THEN p ELSE Post(g[i - 1], es[i])
    <3> SUFFICES ASSUME NEW i \in 0 .. n
                 PROVE  g[i] = IF i = 0 THEN p ELSE Post(g[i - 1], es[i])
      OBVIOUS
    <3>1. CASE i = 0
      BY <1>3, <2>1, <2>3, <3>1
    <3>2. CASE i # 0 /\ i < n
      <4>1. i - 1 \in 0 .. n /\ i - 1 < n /\ i \in 0 .. n - 1
        BY <2>1, <3>2
      <4>2. g[i - 1] = f[i - 1] /\ g[i] = f[i]
        BY <3>2, <4>1
      <4> QED BY <2>3, <3>2, <4>1, <4>2
    <3>3. CASE i = n
      <4>1. n - 1 \in 0 .. n /\ n - 1 < n /\ ~ (n < n)
        BY <2>1
      <4> QED BY <1>3, <3>3, <4>1
    <3> QED BY <2>1, <3>1, <3>2, <3>3
  <2> HIDE DEF g
  <2>5. g = [i \in 0 .. n |-> g[i]]
    BY DEF g
  <2>6. IsPosted(g, p, es, n)
    BY <2>4, <2>5 DEF IsPosted
  <2> QED BY <1>1, <2>6
<1> QED BY <1>2, <1>3

\* Append and \o under names of their own: in the statement of a lemma the
\* provers expand the built-in ones and do not find the lemma again.
Snoc(s, e) == Append(s, e)
Cat(s, t)  == s \o t

LEMMA SnocCat ==
  ASSUME NEW E, NEW s \in Seq(E), NEW t \in Seq(E), NEW e \in E
  PROVE  /\ Snoc(Cat(s, t), e) = Cat(s, Snoc(t, e))
         /\ Cat(s, t) \in Seq(E) /\ Snoc(s, e) \in Seq(E)
         /\ Cat(s, << >>) = s
BY DEF Snoc, Cat

LEMMA SubSeqStep ==
  ASSUME NEW E, NEW s \in Seq(E), NEW t \in Seq(E), NEW n \in 1 .. Len(t)
  PROVE  Append(s \o SubSeq(t, 1, n - 1), t[n]) = s \o SubSeq(t, 1, n)
<1>1. /\ SubSeq(t, 1, n - 1) \in Seq(E) /\ Len(SubSeq(t, 1, n - 1)) = n - 1
      /\ \A i \in 1 .. n - 1 : SubSeq(t, 1, n - 1)[i] = t[i]
  OBVIOUS
<1>2. /\ SubSeq(t, 1, n) \in Seq(E) /\ Len(SubSeq(t, 1, n)) = n
      /\ \A i \in 1 .. n : SubSeq(t, 1, n)[i] = t[i]
  OBVIOUS
<1>3. t[n] \in E /\ s \o SubSeq(t, 1, n - 1) \in Seq(E)
  BY <1>1
<1> QED BY <1>1, <1>2, <1>3

LEMMA PostAllAppends ==
  ASSUME NEW E, NEW p \in Queue(E), NEW es \in Seq(E), Contents(p) \in Seq(E)
  PROVE  /\ PostAll(p, es) \in Queue(E)
         /\ Contents(PostAll(p, es)) = Contents(p) \o es
<1> DEFINE len == Len(es)
           f == CHOOSE g : IsPosted(g, p, es, len)
<1>1. PostAll(p, es) = f[len]
  BY DEF PostAll, IsPosted
<1>2. len \in Nat /\ DOMAIN es = 1 .. len /\ \A i \in 1 .. len : es[i] \in E
  OBVIOUS
<1>3. IsPosted(f, p, es, len)
  BY <1>2, PostedExists
<1> HIDE DEF f
<1>4. \A i \in 0 .. len : f[i] = IF i = 0 THEN p ELSE Post(f[i - 1], es[i])
  BY <1>3 DEF IsPosted
<1> DEFINE Good(n) == f[n] \in Queue(E) /\ Contents(f[n]) = Contents(p) \o SubSeq(es, 1, n)
           T == {n \in 0 .. len : ~ Good(n)}
<1>5. T = {}
  <2> SUFFICES ASSUME T # {} PROVE FALSE
    OBVIOUS
  <2>1. PICK n \in T : \A m \in T : n <= m
    <3>1. T \in SUBSET Nat
      BY <1>2
    <3> HIDE DEF T
    <3> QED BY <3>1, LeastNumber
  <2>2. CASE n = 0
    <3>1. SubSeq(es, 1, 0) = << >>
      OBVIOUS
    <3>2. Contents(p) \o << >> = Contents(p)
      OBVIOUS
    <3>3. f[0] = p
      BY <1>2, <1>4
    <3> QED BY <2>1, <2>2, <3>1, <3>2, <3>3
  <2>3. CASE n # 0
    <3>1. n \in 1 .. len /\ n - 1 \in 0 .. len /\ n - 1 \notin T
      <4> HIDE DEF Good
      <4>1. n \in 0 .. len /\ n - 1 < n
        BY <1>2, <2>1
      <4> QED BY <1>2, <2>1, <2>3, <4>1
    <3>2. Good(n - 1) /\ f[n] = Post(f[n - 1], es[n]) /\ es[n] \in E
      BY <1>2, <1>4, <3>1
    <3>3. /\ f[n] \in Queue(E)
          /\ Contents(f[n]) = Append(Contents(p) \o SubSeq(es, 1, n - 1), es[n])
      BY <3>2, PostAppends
    <3>4. Append(Contents(p) \o SubSeq(es, 1, n - 1), es[n]) = Contents(p) \o SubSeq(es, 1, n)
      BY <3>1, SubSeqStep
    <3> QED BY <2>1, <3>3, <3>4
  <2> QED BY <2>2, <2>3
<1>6. len \in 0 .. len
  BY <1>2
<1>7. Good(len)
  BY <1>5, <1>6
<1>8. SubSeq(es, 1, len) = es
  OBVIOUS
<1> QED BY <1>1, <1>7, <1>8

-----------------------------------------------------------------------------
(* The inductive invariant of the two threads.                             *)

Events == [type : {"INBOUND_NETWORK_EVENT", "INBOUND_OSCORE_EVENT", "INBOUND_RI_EVENT",
                   "INTERFACE_UP", "INTERFACE_DOWN", "TIMER"},
           m : 0 .. MaxMsgs]

QueueInv == q \in Queue(Events) /\ Contents(q) \in Seq(Events)

ThreadsType ==
  /\ netlist \in Seq(Msgs)
  /\ ifs \subseteq {"up", "down"}
  /\ kind \in [Msgs -> {"free", "plain", "oscore"}]
  /\ timer \in {"idle", "armed", "due", "posted"}
  /\ state \in {"RUNNING", "CALLED"}
  /\ needspoll \in [{"net", "timer"} -> BOOLEAN]
  /\ requested \in BOOLEAN /\ timed \in BOOLEAN /\ missed \in BOOLEAN
  /\ main \in {"start", "poll_net", "call", "called", "event", "sleep", "waiting"}
  /\ net \in {"select", "poll", "poll again", "request", "signal"}

\* The time of the next timer is known from the start of oc_main_poll on, and a
\* handler that sets the timer later asks for another round.
TimeKnown == main # "start" /\ Pending => timed

Inv == QueueInv /\ ThreadsType /\ PollNotLost /\ TimeKnown

LEMMA FirstType ==
  ASSUME QueueInv, q.nevents > 0
  PROVE  First(q) \in Events /\ M \in 0 .. MaxMsgs
<1>1. First(q) = Head(Contents(q)) /\ Contents(q) # << >>
  BY RestTakes DEF QueueInv
<1>2. First(q) \in Events
  BY <1>1 DEF QueueInv
<1> QED BY <1>2 DEF Events, M

LEMMA PostInv ==
  ASSUME NEW p \in Queue(Events), Contents(p) \in Seq(Events), NEW e \in Events
  PROVE  Post(p, e) \in Queue(Events) /\ Contents(Post(p, e)) \in Seq(Events)
<1>1. Post(p, e) \in Queue(Events) /\ Contents(Post(p, e)) = Append(Contents(p), e)
  BY PostAppends
<1>2. Append(Contents(p), e) \in Seq(Events)
  OBVIOUS
<1> QED BY <1>1, <1>2

LEMMA RestInv ==
  ASSUME QueueInv, q.nevents > 0
  PROVE  Rest(q) \in Queue(Events) /\ Contents(Rest(q)) \in Seq(Events)
<1>1. Contents(Rest(q)) = Tail(Contents(q)) /\ Contents(q) # << >> /\ Rest(q) \in Queue(Events)
  BY RestTakes DEF QueueInv
<1> QED BY <1>1 DEF QueueInv

LEMMA EventType ==
  ASSUME NEW t \in {"INBOUND_NETWORK_EVENT", "INBOUND_OSCORE_EVENT", "INBOUND_RI_EVENT",
                    "INTERFACE_UP", "INTERFACE_DOWN", "TIMER"},
         NEW m \in 0 .. MaxMsgs
  PROVE  Event(t, m) \in Events
BY DEF Event, Events

\* What a call of the network events posts.
Handed ==
  [i \in DOMAIN netlist |-> Event("INBOUND_NETWORK_EVENT", netlist[i])]
    \o (IF "up" \in ifs THEN <<Event("INTERFACE_UP", NoMsg)>> ELSE << >>)
    \o (IF "down" \in ifs THEN <<Event("INTERFACE_DOWN", NoMsg)>> ELSE << >>)

LEMMA HandedType == ThreadsType => Handed \in Seq(Events)
<1> SUFFICES ASSUME ThreadsType PROVE Handed \in Seq(Events)
  OBVIOUS
<1> DEFINE ns == [i \in DOMAIN netlist |-> Event("INBOUND_NETWORK_EVENT", netlist[i])]
           up == IF "up" \in ifs THEN <<Event("INTERFACE_UP", NoMsg)>> ELSE << >>
           dn == IF "down" \in ifs THEN <<Event("INTERFACE_DOWN", NoMsg)>> ELSE << >>
<1>1. \A i \in DOMAIN netlist : netlist[i] \in 0 .. MaxMsgs
  <2>1. netlist \in Seq(Msgs)
    BY DEF ThreadsType
  <2>2. \A m \in Msgs : m \in 0 .. MaxMsgs
    BY FlowAssumption DEF Msgs
  <2> QED BY <2>1, <2>2, Elements
<1>2. ns \in [1 .. Len(netlist) -> Events] /\ Len(netlist) \in Nat
  <2>1. DOMAIN netlist = 1 .. Len(netlist) /\ Len(netlist) \in Nat
    BY SeqDomain DEF ThreadsType
  <2>2. \A i \in DOMAIN netlist : Event("INBOUND_NETWORK_EVENT", netlist[i]) \in Events
    BY <1>1, EventType
  <2> QED BY <2>1, <2>2
<1>3. ns \in Seq(Events)
  BY <1>2
<1>4. Event("INTERFACE_UP", NoMsg) \in Events /\ Event("INTERFACE_DOWN", NoMsg) \in Events
  BY EventType, FlowAssumption DEF NoMsg
<1>5. up \in Seq(Events) /\ dn \in Seq(Events)
  BY <1>4
<1> HIDE DEF ns, up, dn
<1>6. ns \o up \o dn \in Seq(Events)
  BY <1>3, <1>5
<1> QED BY <1>6 DEF Handed, ns, up, dn

LEMMA QueuePreserved ==
  ASSUME QueueInv, ThreadsType, [Next]_vars
  PROVE  QueueInv'
<1>1. CASE MainCall
  <2>1. q' = PostAll(q, Handed)
    BY <1>1 DEF MainCall, Handed
  <2>2. Handed \in Seq(Events)
    BY HandedType
  <2>3. PostAll(q, Handed) \in Queue(Events) /\ Contents(PostAll(q, Handed)) = Contents(q) \o Handed
    BY <2>2, PostAllAppends DEF QueueInv
  <2>4. Contents(q) \o Handed \in Seq(Events)
    BY <2>2 DEF QueueInv
  <2> QED BY <2>1, <2>3, <2>4 DEF QueueInv
<1>2. CASE MainPollTimer
  <2>1. q' = q \/ q' = Post(q, Event("TIMER", NoMsg))
    BY <1>2 DEF MainPollTimer
  <2>2. Event("TIMER", NoMsg) \in Events
    BY EventType, FlowAssumption DEF NoMsg
  <2> QED BY <2>1, <2>2, PostInv DEF QueueInv
<1>3. CASE MainEvent
  <2>1. CASE NoEventLeft
    BY <2>1 DEF NoEventLeft, data, QueueInv
  <2>2. CASE Inbound \/ OscoreReceive
    <3>1. q.nevents > 0
      BY <2>2 DEF Inbound, OscoreReceive, Turn
    <3>2. PICK t \in {"INBOUND_OSCORE_EVENT", "INBOUND_RI_EVENT"} : q' = Post(Rest(q), Event(t, M))
      BY <2>2 DEF Inbound, OscoreReceive
    <3>3. Event(t, M) \in Events
      BY <3>1, FirstType, EventType
    <3> QED BY <3>1, <3>2, <3>3, RestInv, PostInv DEF QueueInv
  <2>3. CASE OscoreReject \/ Engine \/ InterfaceEvent \/ TimerEvent
    <3>1. q.nevents > 0 /\ q' = Rest(q)
      BY <2>3 DEF OscoreReject, Engine, InterfaceEvent, TimerEvent, Turn
    <3> QED BY <3>1, RestInv DEF QueueInv
  <2> QED BY <1>3, <2>1, <2>2, <2>3 DEF MainEvent
<1>4. CASE UNCHANGED q
  BY <1>4 DEF QueueInv
<1> QED
  BY <1>1, <1>2, <1>3, <1>4 DEF Next, Main, Network, NetNeedsPoll, NetStateMissed, NetRequest,
     NetSignal, NetReceive, NetInterface, Tick, MainStart, MainPollNet, MainSleep, MainTimeout,
     data, vars

LEMMA PendingBoolean == ASSUME timed' = Pending PROVE timed' \in BOOLEAN
BY DEF Pending

LEMMA ThreadsPreserved ==
  ASSUME Inv, [Next]_vars
  PROVE  ThreadsType' /\ PollNotLost' /\ TimeKnown'
<1> DEFINE Good == ThreadsType' /\ PollNotLost' /\ TimeKnown'
<1> USE DEF ThreadsType, PollNotLost, TimeKnown, Pending, Inv
<1>1. ASSUME NEW k \in InKinds, NetReceive(k) PROVE Good
  <2>1. kind' \in [Msgs -> {"free", "plain", "oscore"}] /\ netlist' \in Seq(Msgs)
    BY <1>1, FlowAssumption DEF NetReceive
  <2> QED BY <1>1, <2>1 DEF NetReceive, flags
<1>2. ASSUME NEW c \in IfChanges, NetInterface(c) PROVE Good
  BY <1>2, FlowAssumption DEF NetInterface, flags
<1>3. CASE NetNeedsPoll
  BY <1>3 DEF NetNeedsPoll, data
<1>4. CASE NetStateMissed
  BY <1>4 DEF NetStateMissed, data, flags
<1>5. CASE NetRequest
  BY <1>5 DEF NetRequest, data
<1>6. CASE NetSignal
  BY <1>6 DEF NetSignal, data, flags
<1>7. CASE MainStart
  <2>1. /\ UNCHANGED <<data, state, missed, net>> /\ main = "start" /\ main' = "poll_net" /\ requested' = FALSE
        /\ needspoll' = [needspoll EXCEPT !["timer"] = TRUE]
    BY <1>7 DEF MainStart, Step
  <2>2. ThreadsType'
    <3>1. timed' \in BOOLEAN
      <4>1. timed' = Pending
        BY <1>7 DEF MainStart
      <4> QED BY <4>1, PendingBoolean
    <3> QED BY <2>1, <3>1 DEF data
  <2>3. PollNotLost'
    <3>1. needspoll'["net"] = needspoll["net"]
      BY <2>1
    <3> QED BY <2>1, <3>1 DEF data
  <2>4. TimeKnown'
    BY <1>7, <2>1 DEF MainStart, data
  <2> QED BY <2>2, <2>3, <2>4
<1>8. CASE MainPollNet
  BY <1>8 DEF MainPollNet, Step, data
<1>9. CASE MainCall
  <2>1. /\ UNCHANGED <<kind, timer, needspoll, requested, timed, missed, net>>
        /\ main = "call" /\ main' = "called" /\ state' = "CALLED"
        /\ netlist' = << >> /\ ifs' = {}
    BY <1>9 DEF MainCall, Step
  <2>2. netlist' \in Seq(Msgs)
    BY <2>1, EmptySequence
  <2> QED BY <2>1, <2>2
<1>10. CASE MainPollTimer
  <2>1. /\ UNCHANGED <<netlist, ifs, kind, requested, timed, missed, net>>
        /\ main' = "event" /\ state' = "RUNNING"
        /\ main = "called" \/ (main = "poll_net" /\ ~needspoll["net"])
        /\ needspoll' = [needspoll EXCEPT !["timer"] = FALSE]
        /\ timer' = timer \/ timer' = "posted"
    BY <1>10 DEF MainPollTimer, Step
  <2>2. ThreadsType' /\ TimeKnown'
    BY <2>1
  <2>3. needspoll'["net"] = needspoll["net"]
    BY <2>1
  <2>4. PollNotLost'
    BY <2>1, <2>3
  <2> QED BY <2>2, <2>4
<1>11. CASE MainSleep
  BY <1>11 DEF MainSleep, Step, data, flags
<1>12. CASE MainTimeout
  BY <1>12 DEF MainTimeout, Step, data, flags
<1>13. CASE Tick
  BY <1>13 DEF Tick, flags
<1>14. CASE MainEvent
  <2>1. CASE NoEventLeft
    BY <1>14, <2>1 DEF MainEvent, Run, Step, NoEventLeft, data, flags
  <2>2. CASE Inbound \/ OscoreReceive \/ InterfaceEvent
    <3>1. UNCHANGED <<netlist, ifs, kind, timer, flags>>
      BY <2>2 DEF Inbound, OscoreReceive, InterfaceEvent
    <3> QED BY <1>14, <3>1 DEF MainEvent, Run, Step, flags
  <2>3. CASE OscoreReject \/ Engine
    <3>1. UNCHANGED <<netlist, ifs, timer, flags>> /\ kind' = [kind EXCEPT ![M] = "free"]
      BY <2>3 DEF OscoreReject, Engine
    <3> QED BY <1>14, <3>1 DEF MainEvent, Run, Step, flags
  <2>4. CASE TimerEvent
    <3>1. requested' = TRUE /\ main = "event" /\ main' = "start" /\ UNCHANGED <<missed, net>>
      BY <1>14, <2>4 DEF TimerEvent, MainEvent, Run, Step
    <3> QED BY <3>1, <2>4 DEF TimerEvent
  <2> QED BY <1>14, <2>1, <2>2, <2>3, <2>4 DEF MainEvent
<1>15. CASE UNCHANGED vars
  <2>1. /\ UNCHANGED <<netlist, ifs, kind, timer, needspoll, state, requested>>
        /\ UNCHANGED <<timed, missed, main, net>>
    BY <1>15 DEF vars, data, flags
  <2>2. ThreadsType'
    BY <2>1
  <2>3. PollNotLost' /\ TimeKnown'
    BY <2>1
  <2> QED BY <2>2, <2>3
<1> QED BY <1>1, <1>2, <1>3, <1>4, <1>5, <1>6, <1>7, <1>8, <1>9, <1>10, <1>11, <1>12, <1>13,
           <1>14, <1>15 DEF Next, Main, Network

LEMMA InitInv == Init => Inv
<1> SUFFICES ASSUME Init PROVE Inv
  OBVIOUS
<1>1. QueueInv
  <2>1. << >> \in Seq(Events)
    OBVIOUS
  <2> QED BY <2>1, EmptyQueueHolds DEF Init, QueueInv
<1>2. ThreadsType
  <2>1. << >> \in Seq(Msgs)
    OBVIOUS
  <2>2. timer \in {"idle", "armed", "due", "posted"} /\ kind \in [Msgs -> {"free", "plain", "oscore"}]
    BY DEF Init
  <2>3. needspoll \in [{"net", "timer"} -> BOOLEAN]
    BY DEF Init
  <2> QED BY <2>1, <2>2, <2>3 DEF Init, ThreadsType
<1>3. PollNotLost /\ TimeKnown
  BY DEF Init, PollNotLost, TimeKnown
<1> QED BY <1>1, <1>2, <1>3 DEF Inv

\* The queue, the values of the variables and the flags of the two threads: the
\* invariant holds in every step, for every size of the queue.
THEOREM InvHolds == Spec => []Inv
<1>1. Inv /\ [Next]_vars => Inv'
  BY QueuePreserved, ThreadsPreserved DEF Inv
<1> QED BY <1>1, InitInv, PTL DEF Spec

\* The main thread sleeps neither over what the network thread has handed over
\* nor, without a time limit, over a timer, in any interleaving of the two.
THEOREM NothingIsSleptOver == Spec => []StaysAwake
<1>1. Inv => StaysAwake
  <2> SUFFICES ASSUME Inv PROVE StaysAwake
    OBVIOUS
  <2>1. TypeOK
    BY QueueParts DEF Inv, QueueInv, ThreadsType, TypeOK
  <2>2. SleepsTimed
    BY DEF Inv, TimeKnown, SleepsTimed
  <2> QED BY <2>1, <2>2 DEF Inv, StaysAwake
<1> QED BY <1>1, InvHolds, PTL

-----------------------------------------------------------------------------
(* The channels: by induction on the events.                               *)

IsChannel(f, es, t, K, len) ==
  f = [n \in 0 .. len |->
         IF n = 0 THEN << >>
         ELSE IF es[n].type = t /\ es[n].m \in K THEN Append(f[n - 1], es[n].m)
         ELSE f[n - 1]]

LEMMA ChannelExists ==
  ASSUME NEW es, NEW t, NEW K, NEW len \in Nat
  PROVE  \E f : IsChannel(f, es, t, K, len)
<1> DEFINE Next1(x, i) == IF es[i].type = t /\ es[i].m \in K THEN Append(x, es[i].m) ELSE x
           T == {n \in Nat : ~ \E f : IsChannel(f, es, t, K, n)}
<1> SUFFICES ASSUME T # {} PROVE FALSE
  OBVIOUS
<1>1. PICK n \in T : \A m \in T : n <= m
  <2>1. T \in SUBSET Nat
    OBVIOUS
  <2> HIDE DEF T
  <2> QED BY <2>1, LeastNumber
<1>0. \A f, k : IsChannel(f, es, t, K, k) <=>
                  f = [i \in 0 .. k |-> IF i = 0 THEN << >> ELSE Next1(f[i - 1], i)]
  BY DEF IsChannel
<1> HIDE DEF Next1
<1>2. CASE n = 0
  <2> DEFINE f == [i \in 0 .. 0 |-> << >>]
  <2>1. IsChannel(f, es, t, K, 0)
    BY DEF IsChannel
  <2> QED BY <1>1, <1>2, <2>1
<1>3. CASE n # 0
  <2>1. n \in Nat /\ n - 1 \in Nat /\ n - 1 \notin T
    BY <1>1, <1>3
  <2>2. PICK f : IsChannel(f, es, t, K, n - 1)
    BY <2>1
  <2> DEFINE g == [i \in 0 .. n |-> IF i < n THEN f[i] ELSE Next1(f[n - 1], n)]
  <2>3. \A i \in 0 .. n - 1 : f[i] = IF i = 0 THEN << >> ELSE Next1(f[i - 1], i)
    BY <1>0, <2>1, <2>2
  <2>4. \A i \in 0 .. n : g[i] = IF i = 0 THEN << >> ELSE Next1(g[i - 1], i)
    <3> SUFFICES ASSUME NEW i \in 0 .. n
                 PROVE  g[i] = IF i = 0 THEN << >> ELSE Next1(g[i - 1], i)
      OBVIOUS
    <3>1. CASE i = 0
      BY <1>3, <2>1, <2>3, <3>1
    <3>2. CASE i # 0 /\ i < n
      <4>1. i - 1 \in 0 .. n /\ i - 1 < n /\ i \in 0 .. n - 1
        BY <2>1, <3>2
      <4>2. g[i - 1] = f[i - 1] /\ g[i] = f[i]
        BY <3>2, <4>1
      <4> QED BY <2>3, <3>2, <4>1, <4>2
    <3>3. CASE i = n
      <4>1. n - 1 \in 0 .. n /\ n - 1 < n /\ ~ (n < n)
        BY <2>1
      <4> QED BY <1>3, <3>3, <4>1
    <3> QED BY <2>1, <3>1, <3>2, <3>3
  <2> HIDE DEF g
  <2>5. g = [i \in 0 .. n |-> g[i]]
    BY DEF g
  <2>6. IsChannel(g, es, t, K, n)
    BY <1>0, <2>4, <2>5
  <2> QED BY <1>1, <2>6
<1> QED BY <1>2, <1>3

\* Two lists that begin alike have channels that begin alike.
LEMMA ChannelPrefix ==
  ASSUME NEW es, NEW gs, NEW t, NEW K, NEW f, NEW g, NEW k \in Nat, NEW l \in Nat,
         IsChannel(f, es, t, K, k), IsChannel(g, gs, t, K, l), k <= l,
         \A i \in 1 .. k : es[i] = gs[i]
  PROVE  \A i \in 0 .. k : f[i] = g[i]
<1> DEFINE T == {n \in 0 .. k : f[n] # g[n]}
<1> SUFFICES ASSUME T # {} PROVE FALSE
  OBVIOUS
<1>1. PICK n \in T : \A m \in T : n <= m
  <2>1. T \in SUBSET Nat
    OBVIOUS
  <2> HIDE DEF T
  <2> QED BY <2>1, LeastNumber
<1>2. \A i \in 0 .. k : f[i] = IF i = 0 THEN << >>
                               ELSE IF es[i].type = t /\ es[i].m \in K THEN Append(f[i - 1], es[i].m)
                               ELSE f[i - 1]
  BY DEF IsChannel
<1>3. \A i \in 0 .. l : g[i] = IF i = 0 THEN << >>
                               ELSE IF gs[i].type = t /\ gs[i].m \in K THEN Append(g[i - 1], gs[i].m)
                               ELSE g[i - 1]
  BY DEF IsChannel
<1>4. n \in 0 .. k /\ n \in 0 .. l
  BY <1>1
<1>5. CASE n = 0
  BY <1>1, <1>2, <1>3, <1>4, <1>5
<1>6. CASE n # 0
  <2>1. n - 1 \in 0 .. k /\ n - 1 \notin T /\ n \in 1 .. k
    BY <1>1, <1>4, <1>6
  <2>2. f[n - 1] = g[n - 1] /\ es[n] = gs[n]
    BY <2>1
  <2> QED BY <1>1, <1>2, <1>3, <1>4, <1>6, <2>2
<1> QED BY <1>5, <1>6

LEMMA ChannelEmpty == ASSUME NEW t, NEW K PROVE Channel(<< >>, t, K) = << >>
<1> DEFINE f == CHOOSE g : IsChannel(g, << >>, t, K, 0)
<1>1. Channel(<< >>, t, K) = f[0]
  BY DEF Channel, IsChannel
<1>2. IsChannel(f, << >>, t, K, 0)
  BY ChannelExists
<1> HIDE DEF f
<1> QED BY <1>1, <1>2 DEF IsChannel

LEMMA ChannelAppend ==
  ASSUME NEW S, NEW es \in Seq(S), NEW e \in S, NEW t, NEW K
  PROVE  Channel(Snoc(es, e), t, K) =
           IF e.type = t /\ e.m \in K THEN Snoc(Channel(es, t, K), e.m) ELSE Channel(es, t, K)
<1> DEFINE k == Len(es)
           gs == Append(es, e)
           f == CHOOSE h : IsChannel(h, es, t, K, k)
           g == CHOOSE h : IsChannel(h, gs, t, K, k + 1)
<1>1. k \in Nat /\ k + 1 \in Nat /\ Len(gs) = k + 1 /\ gs[k + 1] = e
      /\ \A i \in 1 .. k : es[i] = gs[i]
  OBVIOUS
<1>2. Channel(es, t, K) = f[k]
  BY DEF Channel, IsChannel
<1>3. Channel(gs, t, K) = g[k + 1]
  <2> HIDE DEF gs
  <2> QED BY <1>1 DEF Channel, IsChannel
<1>4. IsChannel(f, es, t, K, k) /\ IsChannel(g, gs, t, K, k + 1)
  BY <1>1, ChannelExists
<1> HIDE DEF f, g, gs
<1>5. f[k] = g[k]
  <2>1. \A i \in 0 .. k : f[i] = g[i]
    BY <1>1, <1>4, ChannelPrefix
  <2> QED BY <1>1, <2>1
<1>6. g[k + 1] = IF gs[k + 1].type = t /\ gs[k + 1].m \in K THEN Append(g[k], gs[k + 1].m)
                 ELSE g[k]
  <2> DEFINE n == k + 1
  <2>1. n \in 0 .. n /\ n # 0 /\ n - 1 = k
    BY <1>1
  <2>2. g[n] = IF gs[n].type = t /\ gs[n].m \in K THEN Append(g[n - 1], gs[n].m)
               ELSE g[n - 1]
    <3> HIDE DEF n
    <3> QED BY <1>4, <2>1 DEF IsChannel, n
  <2> QED BY <2>1, <2>2
<1> QED BY <1>1, <1>2, <1>3, <1>5, <1>6 DEF gs, Snoc

LEMMA SubSeqGrows ==
  ASSUME NEW S, NEW s \in Seq(S), NEW n \in 1 .. Len(s)
  PROVE  /\ SubSeq(s, 1, n) = Snoc(SubSeq(s, 1, n - 1), s[n])
         /\ SubSeq(s, 1, n - 1) \in Seq(S) /\ s[n] \in S
BY DEF Snoc

LEMMA SubSeqEnds ==
  ASSUME NEW S, NEW s \in Seq(S)
  PROVE  SubSeq(s, 1, 0) = << >> /\ SubSeq(s, 1, Len(s)) = s
OBVIOUS

\* A set of lengths without a least one is empty: what holds of the empty list
\* and of a list that is one longer holds of all.
LEMMA Lengths ==
  ASSUME NEW len \in Nat, NEW T \in SUBSET (0 .. len), 0 \notin T,
         \A n \in 1 .. len : n \in T => n - 1 \in T
  PROVE  T = {}
<1> SUFFICES ASSUME T # {} PROVE FALSE
  OBVIOUS
<1>1. PICK n \in T : \A m \in T : n <= m
  BY LeastNumber
<1>2. n \in 1 .. len
  BY <1>1
<1>3. n - 1 \in T
  BY <1>1, <1>2
<1> QED BY <1>1, <1>2, <1>3

LEMMA ChannelType ==
  ASSUME NEW S, NEW es \in Seq(S), NEW t, NEW K
  PROVE  Channel(es, t, K) \in Seq(K)
<1> DEFINE T == {n \in 0 .. Len(es) : ~ (Channel(SubSeq(es, 1, n), t, K) \in Seq(K))}
<1>1. Len(es) \in Nat
  OBVIOUS
<1>2. 0 \notin T
  <2>1. Channel(SubSeq(es, 1, 0), t, K) = << >>
    BY SubSeqEnds, ChannelEmpty
  <2> QED BY <2>1, EmptySequence
<1>3. ASSUME NEW n \in 1 .. Len(es), n \in T PROVE n - 1 \in T
  <2> DEFINE s == SubSeq(es, 1, n - 1)
  <2>1. SubSeq(es, 1, n) = Snoc(s, es[n]) /\ s \in Seq(S) /\ es[n] \in S
    BY SubSeqGrows
  <2> HIDE DEF s
  <2>2. Channel(Snoc(s, es[n]), t, K) =
          IF es[n].type = t /\ es[n].m \in K THEN Snoc(Channel(s, t, K), es[n].m)
          ELSE Channel(s, t, K)
    BY <2>1, ChannelAppend
  <2>3. ~ (Channel(Snoc(s, es[n]), t, K) \in Seq(K))
    BY <1>3, <2>1
  <2>4. ~ (Channel(s, t, K) \in Seq(K))
    <3> SUFFICES ASSUME Channel(s, t, K) \in Seq(K) PROVE FALSE
      OBVIOUS
    <3>1. es[n].m \in K => Snoc(Channel(s, t, K), es[n].m) \in Seq(K)
      BY DEF Snoc
    <3> QED BY <2>2, <2>3, <3>1
  <2>5. n - 1 \in 0 .. Len(es)
    BY <1>1
  <2> QED BY <2>4, <2>5 DEF s
<1>4. T = {}
  <2>1. T \in SUBSET (0 .. Len(es))
    OBVIOUS
  <2> HIDE DEF T
  <2> QED BY <1>1, <1>2, <1>3, <2>1, Lengths
<1>5. Len(es) \notin T /\ Len(es) \in 0 .. Len(es)
  BY <1>1, <1>4
<1> QED BY <1>5, SubSeqEnds

\* The channel of a list and its continuation.
LEMMA ChannelConcat ==
  ASSUME NEW S, NEW a \in Seq(S), NEW b \in Seq(S), NEW t, NEW K
  PROVE  Channel(Cat(a, b), t, K) = Cat(Channel(a, t, K), Channel(b, t, K))
<1> DEFINE Good(n) == Channel(Cat(a, SubSeq(b, 1, n)), t, K)
                        = Cat(Channel(a, t, K), Channel(SubSeq(b, 1, n), t, K))
           T == {n \in 0 .. Len(b) : ~ Good(n)}
<1>1. Len(b) \in Nat
  OBVIOUS
<1>2. 0 \notin T
  <2>1. SubSeq(b, 1, 0) = << >> /\ Channel(<< >>, t, K) = << >>
    BY SubSeqEnds, ChannelEmpty
  <2>2. Cat(a, << >>) = a /\ Cat(Channel(a, t, K), << >>) = Channel(a, t, K)
    BY SnocCat, ChannelType DEF Cat
  <2> QED BY <2>1, <2>2
<1>3. ASSUME NEW n \in 1 .. Len(b), n \in T PROVE n - 1 \in T
  <2> DEFINE s == SubSeq(b, 1, n - 1)
             ca == Channel(a, t, K)
             cs == Channel(s, t, K)
             cas == Channel(Cat(a, s), t, K)
  <2>1. SubSeq(b, 1, n) = Snoc(s, b[n]) /\ s \in Seq(S) /\ b[n] \in S
    BY SubSeqGrows
  <2> HIDE DEF s
  <2>2. Cat(a, SubSeq(b, 1, n)) = Snoc(Cat(a, s), b[n])
    <3>1. Snoc(Cat(a, s), b[n]) = Cat(a, Snoc(s, b[n]))
      BY <2>1, SnocCat
    <3> QED BY <2>1, <3>1
  <2>3. Cat(a, s) \in Seq(S)
    BY <2>1 DEF Cat
  <2>4. ~ (Channel(Cat(a, SubSeq(b, 1, n)), t, K) = Cat(ca, Channel(SubSeq(b, 1, n), t, K)))
    BY <1>3
  <2>5. Channel(Snoc(s, b[n]), t, K) =
          IF b[n].type = t /\ b[n].m \in K THEN Snoc(cs, b[n].m) ELSE cs
    BY <2>1, ChannelAppend
  <2>6. Channel(Snoc(Cat(a, s), b[n]), t, K) =
          IF b[n].type = t /\ b[n].m \in K THEN Snoc(cas, b[n].m) ELSE cas
    BY <2>1, <2>3, ChannelAppend
  <2>7. ca \in Seq(K) /\ cs \in Seq(K)
    BY <2>1, ChannelType
  <2> HIDE DEF ca, cs, cas
  <2>8. cas # Cat(ca, cs)
    <3> SUFFICES ASSUME cas = Cat(ca, cs) PROVE FALSE
      OBVIOUS
    <3>1. CASE b[n].type = t /\ b[n].m \in K
      <4>1. Snoc(Cat(ca, cs), b[n].m) = Cat(ca, Snoc(cs, b[n].m))
        BY <2>7, <3>1, SnocCat
      <4> QED BY <2>1, <2>2, <2>4, <2>5, <2>6, <3>1, <4>1
    <3>2. CASE ~ (b[n].type = t /\ b[n].m \in K)
      BY <2>1, <2>2, <2>4, <2>5, <2>6, <3>2
    <3> QED BY <3>1, <3>2
  <2>9. n - 1 \in 0 .. Len(b)
    BY <1>1
  <2> QED BY <2>8, <2>9 DEF s, ca, cs, cas
<1>4. T = {}
  <2>1. T \in SUBSET (0 .. Len(b))
    OBVIOUS
  <2> HIDE DEF T
  <2> QED BY <1>1, <1>2, <1>3, <2>1, Lengths
<1>5. Len(b) \notin T /\ Len(b) \in 0 .. Len(b)
  BY <1>1, <1>4
<1> QED BY <1>5, SubSeqEnds

LEMMA ChannelOne ==
  ASSUME NEW e, NEW t, NEW K
  PROVE  Channel(<<e>>, t, K) = IF e.type = t /\ e.m \in K THEN <<e.m>> ELSE << >>
<1> DEFINE z == << >>
           S == {e}
<1>1. z \in Seq(S) /\ e \in S
  BY EmptySequence
<1>2. Channel(z, t, K) = z /\ \A x : Snoc(z, x) = <<x>>
  BY ChannelEmpty DEF Snoc
<1> HIDE DEF z, S
<1>3. Channel(Snoc(z, e), t, K) =
        IF e.type = t /\ e.m \in K THEN Snoc(Channel(z, t, K), e.m) ELSE Channel(z, t, K)
  BY <1>1, ChannelAppend
<1> QED BY <1>2, <1>3 DEF z

\* The channel depends on the messages of K that are in the list.
LEMMA ChannelSame ==
  ASSUME NEW S, NEW es \in Seq(S), NEW t, NEW K, NEW L,
         \A i \in DOMAIN es : es[i].type = t => (es[i].m \in K <=> es[i].m \in L)
  PROVE  Channel(es, t, K) = Channel(es, t, L)
<1> DEFINE T == {n \in 0 .. Len(es) : ~ (Channel(SubSeq(es, 1, n), t, K)
                                           = Channel(SubSeq(es, 1, n), t, L))}
<1>1. Len(es) \in Nat /\ DOMAIN es = 1 .. Len(es)
  OBVIOUS
<1>2. 0 \notin T
  BY SubSeqEnds, ChannelEmpty
<1>3. ASSUME NEW n \in 1 .. Len(es), n \in T PROVE n - 1 \in T
  <2> DEFINE s == SubSeq(es, 1, n - 1)
  <2>1. SubSeq(es, 1, n) = Snoc(s, es[n]) /\ s \in Seq(S) /\ es[n] \in S
    BY SubSeqGrows
  <2>2. ~ (Channel(SubSeq(es, 1, n), t, K) = Channel(SubSeq(es, 1, n), t, L))
    BY <1>3
  <2> HIDE DEF s
  <2>3. \A J : Channel(Snoc(s, es[n]), t, J) =
          IF es[n].type = t /\ es[n].m \in J THEN Snoc(Channel(s, t, J), es[n].m)
          ELSE Channel(s, t, J)
    BY <2>1, ChannelAppend
  <2>4. Channel(s, t, K) # Channel(s, t, L)
    BY <1>1, <2>1, <2>2, <2>3
  <2>5. n - 1 \in 0 .. Len(es)
    BY <1>1
  <2> QED BY <2>4, <2>5 DEF s
<1>4. T = {}
  <2>1. T \in SUBSET (0 .. Len(es))
    OBVIOUS
  <2> HIDE DEF T
  <2> QED BY <1>1, <1>2, <1>3, <2>1, Lengths
<1>5. Len(es) \notin T /\ Len(es) \in 0 .. Len(es)
  BY <1>1, <1>4
<1> QED BY <1>5, SubSeqEnds

LEMMA ChannelNone ==
  ASSUME NEW S, NEW es \in Seq(S), NEW t, NEW K,
         \A i \in DOMAIN es : ~ (es[i].type = t /\ es[i].m \in K)
  PROVE  Channel(es, t, K) = << >>
<1>1. Channel(es, t, K) = Channel(es, t, {})
  BY ChannelSame
<1>2. Channel(es, t, {}) \in Seq({})
  BY ChannelType
<1>3. \A s \in Seq({}) : s = << >>
  OBVIOUS
<1> QED BY <1>1, <1>2, <1>3

-----------------------------------------------------------------------------
(* What is under way, and the channels of a kind of messages.              *)

MessageTypes == {"INBOUND_NETWORK_EVENT", "INBOUND_OSCORE_EVENT", "INBOUND_RI_EVENT"}
Kd == [Msgs -> {"free", "plain", "oscore"}]
Of(kd, k) == {m \in Msgs : kd[m] = k}

\* The messages of kind k in the list u of what is under way.
Line(u, kd, k) ==
  Cat(Cat(Channel(u, "INBOUND_RI_EVENT", Of(kd, k)),
          Channel(u, "INBOUND_OSCORE_EVENT", Of(kd, k))),
      Channel(u, "INBOUND_NETWORK_EVENT", Of(kd, k)))

\* An event has the message it should have, and only protected messages are on
\* their way to the OSCORE process; no message is under way twice.
FitEvent(e, kd) ==
  IF e.type \in MessageTypes
  THEN /\ e.m \in Msgs /\ kd[e.m] \in InKinds
       /\ e.type = "INBOUND_OSCORE_EVENT" => kd[e.m] = "oscore"
  ELSE e.m = NoMsg
Spread(u) == \A i, j \in DOMAIN u : u[i].m = u[j].m /\ u[i].m # NoMsg => i = j
Fit(u, kd) == Spread(u) /\ \A i \in DOMAIN u : FitEvent(u[i], kd)

LEMMA CatFacts ==
  ASSUME NEW S, NEW a \in Seq(S), NEW b \in Seq(S), NEW c \in Seq(S), NEW x \in S
  PROVE  /\ Cat(a, b) \in Seq(S) /\ <<x>> \in Seq(S) /\ << >> \in Seq(S)
         /\ Cat(Cat(a, b), c) = Cat(a, Cat(b, c))
         /\ Cat(a, << >>) = a /\ Cat(<< >>, a) = a
         /\ Cat(a, <<x>>) = Append(a, x)
         /\ Cat(<<x>>, a) # << >> /\ Tail(Cat(<<x>>, a)) = a
BY DEF Cat

\* Putting an event between two parts of a list.
LEMMA InsertFits ==
  ASSUME NEW a \in Seq(Events), NEW b \in Seq(Events), NEW e \in Events, NEW kd \in Kd,
         Fit(Cat(a, b), kd), FitEvent(e, kd),
         e.m # NoMsg => \A i \in DOMAIN Cat(a, b) : Cat(a, b)[i].m # e.m
  PROVE  Fit(Cat(Cat(a, <<e>>), b), kd)
<1> DEFINE u == Cat(a, b)
           v == Cat(Cat(a, <<e>>), b)
           n == Len(a) + 1
           at(i) == IF i < n THEN i ELSE i - 1
<1>1. /\ Len(a) \in Nat /\ Len(b) \in Nat
      /\ DOMAIN u = 1 .. Len(a) + Len(b) /\ DOMAIN v = 1 .. Len(a) + Len(b) + 1
  BY DEF Cat
<1>2. v[n] = e
  BY DEF Cat
<1>3. \A i \in DOMAIN v : i # n => at(i) \in DOMAIN u /\ v[i] = u[at(i)]
  <2>1. \A i \in 1 .. Len(a) : v[i] = a[i] /\ u[i] = a[i]
    BY DEF Cat
  <2>2. \A i \in 1 .. Len(b) : v[n + i] = b[i] /\ u[Len(a) + i] = b[i]
    BY DEF Cat
  <2> SUFFICES ASSUME NEW i \in DOMAIN v, i # n
               PROVE  at(i) \in DOMAIN u /\ v[i] = u[at(i)]
    OBVIOUS
  <2> HIDE DEF u, v
  <2>3. CASE i < n
    BY <1>1, <2>1, <2>3
  <2>4. CASE i > n
    <3> DEFINE j == i - n
    <3>1. j \in 1 .. Len(b) /\ n + j = i /\ Len(a) + j = i - 1
      BY <1>1, <2>4
    <3> HIDE DEF j
    <3>2. v[n + j] = b[j] /\ u[Len(a) + j] = b[j]
      BY <2>2, <3>1
    <3>3. v[i] = b[j] /\ u[i - 1] = b[j]
      BY <3>1, <3>2
    <3> QED BY <1>1, <2>4, <3>3
  <2> QED BY <1>1, <2>3, <2>4
<1>4. \A i \in DOMAIN v, j \in DOMAIN v : i # n /\ j # n /\ at(i) = at(j) => i = j
  BY <1>1
<1> HIDE DEF u, v, n, at
<1>5. \A i \in DOMAIN v : FitEvent(v[i], kd)
  BY <1>2, <1>3 DEF Fit, u
<1>6. Spread(v)
  <2> SUFFICES ASSUME NEW i \in DOMAIN v, NEW j \in DOMAIN v, v[i].m = v[j].m, v[i].m # NoMsg
               PROVE  i = j
    BY DEF Spread
  <2>1. CASE i # n /\ j # n
    BY <1>3, <1>4, <2>1 DEF Fit, Spread, u
  <2>2. CASE i = n /\ j # n
    BY <1>2, <1>3, <2>2 DEF u
  <2>3. CASE i # n /\ j = n
    BY <1>2, <1>3, <2>3 DEF u
  <2> QED BY <2>1, <2>2, <2>3
<1> QED BY <1>5, <1>6 DEF Fit, v

\* Taking the first event.
LEMMA TailFits ==
  ASSUME NEW w \in Seq(Events), NEW e \in Events, NEW kd \in Kd, Fit(Cat(<<e>>, w), kd)
  PROVE  /\ Fit(w, kd) /\ FitEvent(e, kd)
         /\ e.m # NoMsg => \A i \in DOMAIN w : w[i].m # e.m
<1> DEFINE u == Cat(<<e>>, w)
<1>1. /\ DOMAIN w = 1 .. Len(w) /\ Len(w) \in Nat /\ DOMAIN u = 1 .. Len(w) + 1 /\ u[1] = e
      /\ \A i \in 1 .. Len(w) : u[i + 1] = w[i]
  BY DEF Cat
<1>2. 1 \in DOMAIN u /\ \A i \in DOMAIN w : i + 1 \in DOMAIN u /\ u[i + 1] = w[i] /\ i + 1 # 1
  BY <1>1
<1>3. \A i, j \in DOMAIN w : i + 1 = j + 1 => i = j
  BY <1>1
<1> HIDE DEF u
<1>4. Fit(u, kd)
  BY DEF u
<1>5. FitEvent(e, kd) /\ \A i \in DOMAIN w : FitEvent(w[i], kd)
  BY <1>1, <1>2, <1>4 DEF Fit
<1>6. Spread(w)
  BY <1>2, <1>3, <1>4 DEF Fit, Spread
<1>7. e.m # NoMsg => \A i \in DOMAIN w : w[i].m # e.m
  BY <1>1, <1>2, <1>4 DEF Fit, Spread
<1> QED BY <1>5, <1>6, <1>7 DEF Fit

\* The channel of a list with an event between two parts.
LEMMA ChannelInsert ==
  ASSUME NEW a \in Seq(Events), NEW b \in Seq(Events), NEW e \in Events, NEW t, NEW K
  PROVE  Channel(Cat(Cat(a, <<e>>), b), t, K) =
           IF e.type = t /\ e.m \in K
           THEN Cat(Cat(Channel(a, t, K), <<e.m>>), Channel(b, t, K))
           ELSE Channel(Cat(a, b), t, K)
<1> DEFINE one == <<e>>
           ca == Channel(a, t, K)
           cb == Channel(b, t, K)
<1>1. one \in Seq(Events) /\ Cat(a, one) \in Seq(Events)
  BY CatFacts
<1>2. Channel(one, t, K) = IF e.type = t /\ e.m \in K THEN <<e.m>> ELSE << >>
  BY ChannelOne
<1> HIDE DEF one
<1>3. Channel(Cat(Cat(a, one), b), t, K) = Cat(Cat(ca, Channel(one, t, K)), cb)
  BY <1>1, ChannelConcat
<1>4. Channel(Cat(a, b), t, K) = Cat(ca, cb)
  BY ChannelConcat
<1>5. ca \in Seq(K)
  BY ChannelType
<1> HIDE DEF ca, cb
<1>6. Cat(ca, << >>) = ca
  BY <1>5 DEF Cat
<1> QED BY <1>2, <1>3, <1>4, <1>6 DEF one, ca, cb

\* An event without a message of kind k does not show in the line of kind k.
LEMMA LineOther ==
  ASSUME NEW a \in Seq(Events), NEW b \in Seq(Events), NEW e \in Events, NEW kd, NEW k,
         e.m \notin Of(kd, k)
  PROVE  Line(Cat(Cat(a, <<e>>), b), kd, k) = Line(Cat(a, b), kd, k)
<1> DEFINE K == Of(kd, k)
<1>1. e.m \notin K
  OBVIOUS
<1> HIDE DEF K
<1>2. \A t : Channel(Cat(Cat(a, <<e>>), b), t, K) = Channel(Cat(a, b), t, K)
  <2> SUFFICES ASSUME NEW t
               PROVE  Channel(Cat(Cat(a, <<e>>), b), t, K) = Channel(Cat(a, b), t, K)
    OBVIOUS
  <2>1. Channel(Cat(Cat(a, <<e>>), b), t, K) =
          IF e.type = t /\ e.m \in K
          THEN Cat(Cat(Channel(a, t, K), <<e.m>>), Channel(b, t, K))
          ELSE Channel(Cat(a, b), t, K)
    BY ChannelInsert
  <2> QED BY <1>1, <2>1
<1> QED BY <1>2 DEF Line, K

LEMMA LineOtherHead ==
  ASSUME NEW w \in Seq(Events), NEW e \in Events, NEW kd, NEW k, e.m \notin Of(kd, k)
  PROVE  Line(Cat(<<e>>, w), kd, k) = Line(w, kd, k)
<1> DEFINE z == << >>
<1>1. /\ z \in Seq(Events)
      /\ Cat(Cat(z, <<e>>), w) = Cat(<<e>>, w) /\ Cat(z, w) = w
  BY EmptySequence DEF Cat
<1> HIDE DEF z
<1> QED BY <1>1, LineOther

\* The line depends on the kinds of the messages that are under way.
LEMMA LineKinds ==
  ASSUME NEW u \in Seq(Events), NEW kd, NEW kd2, NEW k,
         \A i \in DOMAIN u : u[i].m \in Msgs => (kd[u[i].m] = k <=> kd2[u[i].m] = k)
  PROVE  Line(u, kd, k) = Line(u, kd2, k)
<1>1. \A t : Channel(u, t, Of(kd, k)) = Channel(u, t, Of(kd2, k))
  BY ChannelSame DEF Of
<1> QED BY <1>1 DEF Line

LEMMA LineType ==
  ASSUME NEW u \in Seq(Events), NEW kd, NEW k
  PROVE  Line(u, kd, k) \in Seq(Of(kd, k))
BY ChannelType DEF Line, Cat

\* A message that comes in goes to the end of its line.
LEMMA LineReceive ==
  ASSUME NEW u \in Seq(Events), NEW e \in Events, NEW kd, NEW k,
         e.type = "INBOUND_NETWORK_EVENT", e.m \in Of(kd, k)
  PROVE  Line(Cat(u, <<e>>), kd, k) = Append(Line(u, kd, k), e.m)
<1> DEFINE z == << >>
           K == Of(kd, k)
           R == Channel(u, "INBOUND_RI_EVENT", K)
           O == Channel(u, "INBOUND_OSCORE_EVENT", K)
           N == Channel(u, "INBOUND_NETWORK_EVENT", K)
           v == Cat(Cat(u, <<e>>), z)
<1>1. z \in Seq(Events) /\ v = Cat(u, <<e>>) /\ Cat(u, z) = u
  BY EmptySequence DEF Cat
<1>2. \A t : Channel(z, t, K) = z
  BY ChannelEmpty
<1> HIDE DEF z
<1>3. /\ Channel(v, "INBOUND_RI_EVENT", K) = R
      /\ Channel(v, "INBOUND_OSCORE_EVENT", K) = O
      /\ Channel(v, "INBOUND_NETWORK_EVENT", K) = Cat(Cat(N, <<e.m>>), z)
  BY <1>1, <1>2, ChannelInsert
<1>4. R \in Seq(K) /\ O \in Seq(K) /\ N \in Seq(K)
  BY ChannelType
<1> HIDE DEF R, O, N, K, v
<1>5. Cat(Cat(R, O), Cat(Cat(N, <<e.m>>), z)) = Append(Cat(Cat(R, O), N), e.m)
  BY <1>4 DEF Cat, z, K
<1> QED BY <1>1, <1>3, <1>5 DEF Line, R, O, N, K

\* The engine takes the first of a line.
LEMMA LineHead ==
  ASSUME NEW w \in Seq(Events), NEW e \in Events, NEW kd, NEW k,
         e.type = "INBOUND_RI_EVENT", e.m \in Of(kd, k)
  PROVE  Line(Cat(<<e>>, w), kd, k) = Cat(<<e.m>>, Line(w, kd, k))
<1> DEFINE z == << >>
           K == Of(kd, k)
           R == Channel(w, "INBOUND_RI_EVENT", K)
           O == Channel(w, "INBOUND_OSCORE_EVENT", K)
           N == Channel(w, "INBOUND_NETWORK_EVENT", K)
           v == Cat(Cat(z, <<e>>), w)
<1>1. z \in Seq(Events) /\ v = Cat(<<e>>, w) /\ Cat(z, w) = w
  BY EmptySequence DEF Cat
<1>2. \A t : Channel(z, t, K) = z
  BY ChannelEmpty
<1> HIDE DEF z
<1>3. /\ Channel(v, "INBOUND_RI_EVENT", K) = Cat(Cat(z, <<e.m>>), R)
      /\ Channel(v, "INBOUND_OSCORE_EVENT", K) = O
      /\ Channel(v, "INBOUND_NETWORK_EVENT", K) = N
  BY <1>1, <1>2, ChannelInsert
<1>4. R \in Seq(K) /\ O \in Seq(K) /\ N \in Seq(K)
  BY ChannelType
<1> HIDE DEF R, O, N, K, v
<1>5. Cat(Cat(Cat(Cat(z, <<e.m>>), R), O), N) = Cat(<<e.m>>, Cat(Cat(R, O), N))
  BY <1>4 DEF Cat, z, K
<1> QED BY <1>1, <1>3, <1>5 DEF Line, R, O, N, K

\* Concatenation is associative.
LEMMA CatThree ==
  ASSUME NEW S, NEW a \in Seq(S), NEW b \in Seq(S), NEW c \in Seq(S)
  PROVE  Cat(a, Cat(b, c)) = Cat(Cat(a, b), c) /\ Cat(b, c) \in Seq(S)
BY DEF Cat

\* A message that does not decrypt leaves its line where it is.
LEMMA LineDrop ==
  ASSUME NEW w \in Seq(Events), NEW e \in Events, NEW kd, NEW k,
         e.type = "INBOUND_OSCORE_EVENT", e.m \in Of(kd, k)
  PROVE  \E x \in Seq(Of(kd, k)), y \in Seq(Of(kd, k)) :
           /\ Line(Cat(<<e>>, w), kd, k) = Cat(Cat(x, <<e.m>>), y)
           /\ Line(w, kd, k) = Cat(x, y)
<1> DEFINE z == << >>
           K == Of(kd, k)
           R == Channel(w, "INBOUND_RI_EVENT", K)
           O == Channel(w, "INBOUND_OSCORE_EVENT", K)
           N == Channel(w, "INBOUND_NETWORK_EVENT", K)
           v == Cat(Cat(z, <<e>>), w)
<1>1. z \in Seq(Events) /\ v = Cat(<<e>>, w) /\ Cat(z, w) = w
  BY EmptySequence DEF Cat
<1>2. \A t : Channel(z, t, K) = z
  BY ChannelEmpty
<1> HIDE DEF z
<1>3. /\ Channel(v, "INBOUND_RI_EVENT", K) = R
      /\ Channel(v, "INBOUND_OSCORE_EVENT", K) = Cat(Cat(z, <<e.m>>), O)
      /\ Channel(v, "INBOUND_NETWORK_EVENT", K) = N
  BY <1>1, <1>2, ChannelInsert
<1>4. R \in Seq(K) /\ O \in Seq(K) /\ N \in Seq(K)
  BY ChannelType
<1> HIDE DEF R, O, N, K, v
<1>5. Cat(Cat(R, Cat(Cat(z, <<e.m>>), O)), N) = Cat(Cat(R, <<e.m>>), Cat(O, N))
  <2> DEFINE h == <<e.m>>
  <2>1. h \in Seq(K) /\ Cat(z, h) = h
    BY DEF Cat, z, K
  <2> HIDE DEF h
  <2>2. Cat(R, Cat(h, O)) = Cat(Cat(R, h), O) /\ Cat(R, h) \in Seq(K)
    BY <1>4, <2>1, CatThree
  <2>3. Cat(Cat(Cat(R, h), O), N) = Cat(Cat(R, h), Cat(O, N))
    BY <1>4, <2>2, CatThree
  <2> QED BY <2>1, <2>2, <2>3 DEF h
<1>6. Cat(Cat(R, O), N) = Cat(R, Cat(O, N)) /\ Cat(O, N) \in Seq(K)
  BY <1>4 DEF Cat
<1>7. /\ Line(Cat(<<e>>, w), kd, k) = Cat(Cat(R, <<e.m>>), Cat(O, N))
      /\ Line(w, kd, k) = Cat(R, Cat(O, N))
  BY <1>1, <1>3, <1>5, <1>6 DEF Line, R, O, N, K
<1> QED BY <1>4, <1>6, <1>7 DEF K

\* A message goes from one stage to the next behind all that is in the queue, and
\* keeps its place in its line.
LEMMA LineMove ==
  ASSUME NEW a \in Seq(Events), NEW n \in Seq(Events), NEW e \in Events, NEW f \in Events,
         NEW kd, NEW k,
         \A i \in DOMAIN n : n[i].type = "INBOUND_NETWORK_EVENT",
         f.m = e.m, e.m \in Of(kd, k),
         \/ e.type = "INBOUND_NETWORK_EVENT" /\ f.type = "INBOUND_OSCORE_EVENT"
         \/ /\ e.type = "INBOUND_NETWORK_EVENT" /\ f.type = "INBOUND_RI_EVENT"
            /\ \A i \in DOMAIN a : ~ (a[i].type = "INBOUND_OSCORE_EVENT" /\ a[i].m \in Of(kd, k))
         \/ e.type = "INBOUND_OSCORE_EVENT" /\ f.type = "INBOUND_RI_EVENT"
  PROVE  Line(Cat(Cat(a, <<f>>), n), kd, k) = Line(Cat(<<e>>, Cat(a, n)), kd, k)
<1> DEFINE z == << >>
           K == Of(kd, k)
           R == Channel(a, "INBOUND_RI_EVENT", K)
           O == Channel(a, "INBOUND_OSCORE_EVENT", K)
           N == Channel(Cat(a, n), "INBOUND_NETWORK_EVENT", K)
           A == Channel(a, "INBOUND_NETWORK_EVENT", K)
           B == Channel(n, "INBOUND_NETWORK_EVENT", K)
           one == <<e.m>>
           w == Cat(a, n)
           u == Cat(Cat(z, <<e>>), w)
           v == Cat(Cat(a, <<f>>), n)
<1>1. /\ z \in Seq(Events) /\ u = Cat(<<e>>, w) /\ Cat(z, w) = w /\ w \in Seq(Events)
      /\ \A x \in Seq(K) : Cat(x, z) = x
  BY EmptySequence DEF Cat
<1>2. \A t : Channel(z, t, K) = z
  BY ChannelEmpty
<1>3. /\ Channel(n, "INBOUND_RI_EVENT", K) = z
      /\ Channel(n, "INBOUND_OSCORE_EVENT", K) = z
  BY ChannelNone
<1>4. /\ Channel(w, "INBOUND_RI_EVENT", K) = Cat(R, Channel(n, "INBOUND_RI_EVENT", K))
      /\ Channel(w, "INBOUND_OSCORE_EVENT", K) = Cat(O, Channel(n, "INBOUND_OSCORE_EVENT", K))
      /\ N = Cat(A, B)
  BY ChannelConcat
<1>5. R \in Seq(K) /\ O \in Seq(K) /\ A \in Seq(K) /\ B \in Seq(K) /\ N \in Seq(K)
  BY <1>1, ChannelType
<1>6. e.m \in K /\ one \in Seq(K)
  OBVIOUS
<1> DEFINE Front(t) == IF e.type = t THEN Cat(Cat(z, one), Channel(w, t, K)) ELSE Channel(w, t, K)
           Mid(t) == IF f.type = t THEN Cat(Cat(Channel(a, t, K), one), Channel(n, t, K))
                     ELSE Channel(w, t, K)
<1>7. \A t : Channel(u, t, K) = Front(t)
  <2> SUFFICES ASSUME NEW t PROVE Channel(u, t, K) = Front(t)
    OBVIOUS
  <2> HIDE DEF z, w, K
  <2>1. Channel(u, t, K) = IF e.type = t /\ e.m \in K
                           THEN Cat(Cat(Channel(z, t, K), <<e.m>>), Channel(w, t, K))
                           ELSE Channel(Cat(z, w), t, K)
    BY <1>1, ChannelInsert
  <2> QED BY <1>1, <1>2, <1>6, <2>1
<1>8. \A t : Channel(v, t, K) = Mid(t)
  <2> SUFFICES ASSUME NEW t PROVE Channel(v, t, K) = Mid(t)
    OBVIOUS
  <2> HIDE DEF K
  <2>1. Channel(v, t, K) = IF f.type = t /\ f.m \in K
                           THEN Cat(Cat(Channel(a, t, K), <<f.m>>), Channel(n, t, K))
                           ELSE Channel(Cat(a, n), t, K)
    BY ChannelInsert
  <2> QED BY <1>6, <2>1
<1>9. (\A i \in DOMAIN a : ~ (a[i].type = "INBOUND_OSCORE_EVENT" /\ a[i].m \in K)) => O = z
  BY ChannelNone
<1>10. Line(u, kd, k) = Cat(Cat(Channel(u, "INBOUND_RI_EVENT", K),
                                Channel(u, "INBOUND_OSCORE_EVENT", K)),
                            Channel(u, "INBOUND_NETWORK_EVENT", K))
  BY DEF Line
<1>11. Line(v, kd, k) = Cat(Cat(Channel(v, "INBOUND_RI_EVENT", K),
                                Channel(v, "INBOUND_OSCORE_EVENT", K)),
                            Channel(v, "INBOUND_NETWORK_EVENT", K))
  BY DEF Line
<1>12. \A x, y, s \in Seq(K) : /\ Cat(Cat(x, y), s) = Cat(x, Cat(y, s)) /\ Cat(x, y) \in Seq(K)
                               /\ Cat(z, x) = x
  BY DEF Cat
<1> HIDE DEF R, O, N, A, B, K, u, v, w, z, one
<1>13. /\ Channel(w, "INBOUND_RI_EVENT", K) = R /\ Channel(w, "INBOUND_OSCORE_EVENT", K) = O
       /\ Channel(w, "INBOUND_NETWORK_EVENT", K) = N
  BY <1>1, <1>3, <1>4, <1>5 DEF w, N
<1>14. CASE e.type = "INBOUND_NETWORK_EVENT" /\ f.type = "INBOUND_OSCORE_EVENT"
  <2>1. Line(u, kd, k) = Cat(Cat(R, O), Cat(Cat(z, one), N))
    BY <1>7, <1>10, <1>13, <1>14
  <2>2. Line(v, kd, k) = Cat(Cat(R, Cat(Cat(O, one), z)), N)
    BY <1>3, <1>8, <1>11, <1>13, <1>14 DEF O
  <2>3. Cat(Cat(O, one), z) = Cat(O, one) /\ Cat(z, one) = one
    BY <1>1, <1>5, <1>6, <1>12
  <2>4. Cat(Cat(R, Cat(O, one)), N) = Cat(Cat(R, O), Cat(one, N))
    BY <1>5, <1>6, <1>12
  <2> QED BY <1>1, <2>1, <2>2, <2>3, <2>4 DEF v, w
<1>15. CASE /\ e.type = "INBOUND_NETWORK_EVENT" /\ f.type = "INBOUND_RI_EVENT"
            /\ \A i \in DOMAIN a : ~ (a[i].type = "INBOUND_OSCORE_EVENT" /\ a[i].m \in K)
  <2>0. O = z
    BY <1>9, <1>15
  <2>1. Line(u, kd, k) = Cat(Cat(R, O), Cat(Cat(z, one), N))
    BY <1>7, <1>10, <1>13, <1>15
  <2>2. Line(v, kd, k) = Cat(Cat(Cat(Cat(R, one), z), O), N)
    BY <1>3, <1>8, <1>11, <1>13, <1>15 DEF R
  <2>3. Cat(R, one) \in Seq(K) /\ Cat(z, one) = one
    BY <1>5, <1>6, <1>12
  <2>4. Cat(Cat(R, one), N) = Cat(R, Cat(one, N))
    BY <1>5, <1>6, <1>12
  <2> QED BY <1>1, <1>5, <2>0, <2>1, <2>2, <2>3, <2>4 DEF v, w
<1>16. CASE e.type = "INBOUND_OSCORE_EVENT" /\ f.type = "INBOUND_RI_EVENT"
  <2>1. Line(u, kd, k) = Cat(Cat(R, Cat(Cat(z, one), O)), N)
    BY <1>7, <1>10, <1>13, <1>16
  <2>2. Line(v, kd, k) = Cat(Cat(Cat(Cat(R, one), z), O), N)
    BY <1>3, <1>8, <1>11, <1>13, <1>16 DEF R
  <2>3. Cat(R, one) \in Seq(K) /\ Cat(z, one) = one
    BY <1>5, <1>6, <1>12
  <2>4. Cat(Cat(R, one), O) = Cat(R, Cat(one, O))
    BY <1>5, <1>6, <1>12
  <2> QED BY <1>1, <2>1, <2>2, <2>3, <2>4 DEF v, w
<1> QED BY <1>14, <1>15, <1>16 DEF K

-----------------------------------------------------------------------------
(* Every step is a step of the service or leaves it alone.                 *)

\* What the network thread has handed over, and what it says of the interfaces.
Netted == [i \in DOMAIN netlist |-> Event("INBOUND_NETWORK_EVENT", netlist[i])]
Noticed == (IF "up" \in ifs THEN <<Event("INTERFACE_UP", NoMsg)>> ELSE << >>)
             \o (IF "down" \in ifs THEN <<Event("INTERFACE_DOWN", NoMsg)>> ELSE << >>)

Lines(u, kd) == [k \in InKinds |-> Line(u, kd, k)]

\* What the messages under way look like.
OrderInv == Inv /\ Fit(UnderWay, kind)

LEMMA UnderWayIs == UnderWay = Cat(Contents(q), Netted)
BY DEF UnderWay, Cat, Netted

LEMMA PendingIs ==
  /\ [k \in InKinds |-> OfKind(k)] = Lines(UnderWay, kind)
  /\ ([k \in InKinds |-> OfKind(k)] = Lines(UnderWay, kind))'
BY DEF OfKind, InStage, Lines, Line, Of, Cat

LEMMA NettedType ==
  ASSUME ThreadsType
  PROVE  Netted \in Seq(Events) /\ \A i \in DOMAIN Netted : Netted[i].type = "INBOUND_NETWORK_EVENT"
<1>1. \A i \in DOMAIN netlist : netlist[i] \in 0 .. MaxMsgs
  <2>1. netlist \in Seq(Msgs)
    BY DEF ThreadsType
  <2>2. \A m \in Msgs : m \in 0 .. MaxMsgs
    BY FlowAssumption DEF Msgs
  <2> QED BY <2>1, <2>2, Elements
<1>2. Netted \in [1 .. Len(netlist) -> Events] /\ Len(netlist) \in Nat
  <2>1. DOMAIN netlist = 1 .. Len(netlist) /\ Len(netlist) \in Nat
    BY SeqDomain DEF ThreadsType
  <2>2. \A i \in DOMAIN netlist : Event("INBOUND_NETWORK_EVENT", netlist[i]) \in Events
    BY <1>1, EventType
  <2> QED BY <2>1, <2>2 DEF Netted
<1> QED BY <1>2 DEF Netted, Event

LEMMA HandedIs ==
  ASSUME ThreadsType PROVE Handed = Cat(Netted, Noticed) /\ Noticed \in Seq(Events)
<1> DEFINE up == IF "up" \in ifs THEN <<Event("INTERFACE_UP", NoMsg)>> ELSE << >>
           dn == IF "down" \in ifs THEN <<Event("INTERFACE_DOWN", NoMsg)>> ELSE << >>
<1>1. Event("INTERFACE_UP", NoMsg) \in Events /\ Event("INTERFACE_DOWN", NoMsg) \in Events
  BY EventType, FlowAssumption DEF NoMsg
<1>2. up \in Seq(Events) /\ dn \in Seq(Events) /\ Netted \in Seq(Events)
  BY <1>1, NettedType
<1>3. Handed = Netted \o up \o dn /\ Noticed = up \o dn
  BY DEF Handed, Netted, Noticed
<1> HIDE DEF up, dn
<1>4. Netted \o up \o dn = Netted \o (up \o dn) /\ up \o dn \in Seq(Events)
  BY <1>2
<1> QED BY <1>3, <1>4 DEF Cat

LEMMA QueueHead ==
  ASSUME QueueInv, ThreadsType, q.nevents > 0
  PROVE  /\ Contents(Rest(q)) \in Seq(Events) /\ First(q) \in Events /\ Netted \in Seq(Events)
         /\ UnderWay = Cat(<<First(q)>>, Cat(Contents(Rest(q)), Netted))
<1>1. /\ First(q) = Head(Contents(q)) /\ Contents(q) # << >>
      /\ Contents(Rest(q)) = Tail(Contents(q))
  BY RestTakes DEF QueueInv
<1>2. \A s \in Seq(Events) : s # << >> => s = Cat(<<Head(s)>>, Tail(s)) /\ Tail(s) \in Seq(Events)
                                             /\ Head(s) \in Events
  BY DEF Cat
<1>3. Contents(q) = Cat(<<First(q)>>, Contents(Rest(q))) /\ Contents(Rest(q)) \in Seq(Events)
      /\ First(q) \in Events
  BY <1>1, <1>2 DEF QueueInv
<1>4. Netted \in Seq(Events)
  BY NettedType
<1>5. \A e \in Events, a, b \in Seq(Events) : Cat(Cat(<<e>>, a), b) = Cat(<<e>>, Cat(a, b))
  BY DEF Cat
<1> QED BY <1>3, <1>4, <1>5, UnderWayIs

\* Fitting does not depend on the kinds of buffers that are not under way.
LEMMA FitOther ==
  ASSUME NEW u, NEW kd \in Kd, NEW x \in Msgs, NEW y, Fit(u, kd),
         \A i \in DOMAIN u : u[i].m # x
  PROVE  Fit(u, [kd EXCEPT ![x] = y])
BY DEF Fit, FitEvent, Kd

LEMMA LinesOther ==
  ASSUME NEW u \in Seq(Events), NEW kd \in Kd, NEW x \in Msgs, NEW y,
         \A i \in DOMAIN u : u[i].m # x
  PROVE  Lines(u, [kd EXCEPT ![x] = y]) = Lines(u, kd)
<1> DEFINE kd2 == [kd EXCEPT ![x] = y]
<1>1. \A i \in DOMAIN u : u[i].m \in Msgs => kd2[u[i].m] = kd[u[i].m]
  BY DEF Kd
<1> HIDE DEF kd2
<1>2. \A k : Line(u, kd, k) = Line(u, kd2, k)
  BY <1>1, LineKinds
<1> QED BY <1>2 DEF Lines, kd2

LEMMA UnderWayType ==
  ASSUME OrderInv PROVE UnderWay \in Seq(Events) /\ kind \in Kd
<1>1. Contents(q) \in Seq(Events) /\ Netted \in Seq(Events)
  BY NettedType DEF OrderInv, Inv, QueueInv
<1>2. Cat(Contents(q), Netted) \in Seq(Events)
  BY <1>1 DEF Cat
<1> QED BY <1>2, UnderWayIs DEF OrderInv, Inv, ThreadsType, Kd

LEMMA NotUnderWay ==
  ASSUME OrderInv, NEW m \in Msgs, kind[m] = "free"
  PROVE  \A i \in DOMAIN UnderWay : UnderWay[i].m # m
<1>1. NoMsg \notin Msgs /\ "free" \notin InKinds
  BY FlowAssumption DEF NoMsg, Msgs
<1> QED BY <1>1 DEF OrderInv, Fit, FitEvent

LEMMA ReceiveStep ==
  ASSUME OrderInv, NEW k \in InKinds, NetReceive(k)
  PROVE  /\ Fit(UnderWay, kind)'
         /\ \E m \in Msgs : Lines(UnderWay, kind)' =
                              [Lines(UnderWay, kind) EXCEPT ![k] = Append(@, m)]
<1>1. PICK m \in Msgs : /\ kind[m] = "free" /\ kind' = [kind EXCEPT ![m] = k]
                        /\ netlist' = Append(netlist, m) /\ q' = q
  BY DEF NetReceive
<1> DEFINE e == Event("INBOUND_NETWORK_EVENT", m)
           u == UnderWay
           z == << >>
<1>2. /\ e \in Events /\ e.m = m /\ e.type = "INBOUND_NETWORK_EVENT"
      /\ z \in Seq(Events) /\ kind'[m] = k
      /\ m # NoMsg
  <2>1. m \in 0 .. MaxMsgs /\ m # NoMsg
    BY FlowAssumption DEF Msgs, NoMsg
  <2>2. e \in Events
    BY <2>1, EventType
  <2>3. kind'[m] = k
    BY <1>1 DEF OrderInv, Inv, ThreadsType
  <2> QED BY <2>1, <2>2, <2>3, EmptySequence DEF Event
<1>3. u \in Seq(Events) /\ kind \in Kd
  BY UnderWayType
<1>4. \A i \in DOMAIN u : u[i].m # m
  BY <1>1, NotUnderWay
<1>5. UnderWay' = Cat(u, <<e>>)
  <2>1. Netted' = Cat(Netted, <<e>>)
    <3>1. netlist \in Seq(Msgs)
      BY DEF OrderInv, Inv, ThreadsType
    <3>2. Netted' = [i \in DOMAIN netlist' |-> Event("INBOUND_NETWORK_EVENT", netlist'[i])]
      BY DEF Netted
    <3>3. \A n \in Seq(Msgs) :
            [i \in DOMAIN Append(n, m) |-> Event("INBOUND_NETWORK_EVENT", Append(n, m)[i])]
              = [i \in DOMAIN n |-> Event("INBOUND_NETWORK_EVENT", n[i])]
                  \o <<Event("INBOUND_NETWORK_EVENT", m)>>
      OBVIOUS
    <3> QED BY <1>1, <3>1, <3>2, <3>3 DEF Netted, Cat
  <2>2. UnderWay' = Cat(Contents(q)', Netted')
    BY DEF UnderWay, Cat, Netted
  <2>3. Contents(q)' = Contents(q)
    BY <1>1
  <2>4. Contents(q) \in Seq(Events) /\ Netted \in Seq(Events) /\ <<e>> \in Seq(Events)
    BY <1>2, NettedType DEF OrderInv, Inv, QueueInv
  <2> HIDE DEF e
  <2>5. Cat(Contents(q), Cat(Netted, <<e>>)) = Cat(Cat(Contents(q), Netted), <<e>>)
    BY <2>4 DEF Cat
  <2> QED BY <2>1, <2>2, <2>3, <2>4, <2>5, UnderWayIs
<1>6. Cat(u, z) = u /\ Cat(Cat(u, <<e>>), z) = Cat(u, <<e>>)
  BY <1>2, <1>3 DEF Cat
<1>7. kind' \in Kd
  BY <1>1, <1>3, FlowAssumption DEF Kd
<1>8. Fit(u, kind')
  BY <1>1, <1>3, <1>4, FitOther DEF OrderInv
<1> HIDE DEF e, u, z
<1>9. FitEvent(e, kind')
  BY <1>2 DEF FitEvent, MessageTypes
<1>10. Fit(Cat(Cat(u, <<e>>), z), kind')
  BY <1>2, <1>3, <1>4, <1>6, <1>7, <1>8, <1>9, InsertFits
<1>11. Lines(u, kind') = Lines(u, kind)
  BY <1>1, <1>3, <1>4, LinesOther
<1>12. Line(Cat(u, <<e>>), kind', k) = Append(Line(u, kind', k), m)
  <2>1. e.m \in Of(kind', k)
    BY <1>2 DEF Of
  <2> QED BY <1>2, <1>3, <2>1, LineReceive
<1>13. \A j \in InKinds : j # k => Line(Cat(u, <<e>>), kind', j) = Line(u, kind', j)
  <2> SUFFICES ASSUME NEW j \in InKinds, j # k
               PROVE  Line(Cat(u, <<e>>), kind', j) = Line(u, kind', j)
    OBVIOUS
  <2>1. e.m \notin Of(kind', j)
    BY <1>2 DEF Of
  <2>2. Line(Cat(Cat(u, <<e>>), z), kind', j) = Line(Cat(u, z), kind', j)
    BY <1>2, <1>3, <2>1, LineOther
  <2> QED BY <1>6, <2>2
<1>14. Fit(UnderWay, kind)'
  BY <1>5, <1>6, <1>10
<1>15. Lines(UnderWay, kind)' = [Lines(u, kind) EXCEPT ![k] = Append(@, m)]
  <2>1. Lines(UnderWay, kind)' = Lines(Cat(u, <<e>>), kind')
    BY <1>5 DEF Lines
  <2>2. Lines(Cat(u, <<e>>), kind') = [Lines(u, kind') EXCEPT ![k] = Append(@, m)]
    BY <1>12, <1>13 DEF Lines
  <2> QED BY <1>11, <2>1, <2>2
<1> QED BY <1>14, <1>15 DEF u

\* An event without a message, put anywhere, changes no line.
LEMMA QuietInsert ==
  ASSUME NEW a \in Seq(Events), NEW b \in Seq(Events), NEW t \in {"INTERFACE_UP", "INTERFACE_DOWN", "TIMER"},
         NEW kd \in Kd, Fit(Cat(a, b), kd)
  PROVE  /\ Cat(a, <<Event(t, NoMsg)>>) \in Seq(Events)
         /\ Fit(Cat(Cat(a, <<Event(t, NoMsg)>>), b), kd)
         /\ Lines(Cat(Cat(a, <<Event(t, NoMsg)>>), b), kd) = Lines(Cat(a, b), kd)
<1> DEFINE e == Event(t, NoMsg)
<1>1. e \in Events /\ e.m = NoMsg /\ e.type = t /\ NoMsg \notin Msgs
  BY EventType, FlowAssumption DEF NoMsg, Event, Msgs
<1>2. Cat(a, <<e>>) \in Seq(Events)
  BY <1>1 DEF Cat
<1> HIDE DEF e
<1>3. FitEvent(e, kd)
  BY <1>1 DEF FitEvent, MessageTypes
<1>4. Fit(Cat(Cat(a, <<e>>), b), kd)
  BY <1>1, <1>3, InsertFits
<1>5. ASSUME NEW k PROVE Line(Cat(Cat(a, <<e>>), b), kd, k) = Line(Cat(a, b), kd, k)
  <2>1. e.m \notin Of(kd, k)
    BY <1>1 DEF Of
  <2> QED BY <1>1, <2>1, LineOther
<1>6. Lines(Cat(Cat(a, <<e>>), b), kd) = Lines(Cat(a, b), kd)
  BY <1>5 DEF Lines
<1> QED BY <1>2, <1>4, <1>6 DEF e

\* Nor does it at the end.
LEMMA QuietEnd ==
  ASSUME NEW a \in Seq(Events), NEW t \in {"INTERFACE_UP", "INTERFACE_DOWN"},
         NEW kd \in Kd, Fit(a, kd)
  PROVE  /\ Cat(a, <<Event(t, NoMsg)>>) \in Seq(Events)
         /\ Fit(Cat(a, <<Event(t, NoMsg)>>), kd)
         /\ Lines(Cat(a, <<Event(t, NoMsg)>>), kd) = Lines(a, kd)
<1> DEFINE z == << >>
<1>1. z \in Seq(Events) /\ \A s \in Seq(Events) : Cat(s, z) = s
  BY EmptySequence DEF Cat
<1> HIDE DEF z
<1>2. Fit(Cat(a, z), kd)
  BY <1>1
<1>3. /\ Cat(a, <<Event(t, NoMsg)>>) \in Seq(Events)
      /\ Fit(Cat(Cat(a, <<Event(t, NoMsg)>>), z), kd)
      /\ Lines(Cat(Cat(a, <<Event(t, NoMsg)>>), z), kd) = Lines(Cat(a, z), kd)
  BY <1>1, <1>2, QuietInsert
<1> QED BY <1>1, <1>3

LEMMA CallStep ==
  ASSUME OrderInv, MainCall
  PROVE  Fit(UnderWay, kind)' /\ Lines(UnderWay, kind)' = Lines(UnderWay, kind)
<1> DEFINE u == UnderWay
           z == << >>
           up == IF "up" \in ifs THEN <<Event("INTERFACE_UP", NoMsg)>> ELSE << >>
           dn == IF "down" \in ifs THEN <<Event("INTERFACE_DOWN", NoMsg)>> ELSE << >>
<1>1. /\ u \in Seq(Events) /\ kind \in Kd /\ z \in Seq(Events) /\ ThreadsType
      /\ Contents(q) \in Seq(Events) /\ Netted \in Seq(Events)
      /\ q \in Queue(Events) /\ Handed \in Seq(Events)
  BY UnderWayType, EmptySequence, NettedType, HandedType DEF OrderInv, Inv, QueueInv
<1>2. \A s \in Seq(Events) : Cat(s, z) = s
  BY DEF Cat
<1>3. Contents(q') = Contents(q) \o Handed /\ netlist' = << >> /\ kind' = kind
  <2>1. q' = PostAll(q, Handed)
    BY DEF MainCall, Handed
  <2> QED BY <1>1, <2>1, PostAllAppends DEF MainCall
<1>4. UnderWay' = Cat(Contents(q), Handed)
  <2>1. [i \in DOMAIN << >> |-> Event("INBOUND_NETWORK_EVENT", << >>[i])] = << >>
    OBVIOUS
  <2>2. Netted' = << >>
    <3>1. Netted' = [i \in DOMAIN netlist' |-> Event("INBOUND_NETWORK_EVENT", netlist'[i])]
      BY DEF Netted
    <3> QED BY <1>3, <2>1, <3>1
  <2>3. UnderWay' = Contents(q') \o Netted'
    BY DEF UnderWay, Netted
  <2>4. (Contents(q) \o Handed) \o << >> = Contents(q) \o Handed
    BY <1>1
  <2> QED BY <1>3, <2>2, <2>3, <2>4 DEF Cat
<1>5. up \in Seq(Events) /\ dn \in Seq(Events)
  <2>1. Event("INTERFACE_UP", NoMsg) \in Events /\ Event("INTERFACE_DOWN", NoMsg) \in Events
    BY EventType, FlowAssumption DEF NoMsg
  <2> QED BY <2>1
<1>6. /\ Fit(Cat(u, up), kind) /\ Cat(u, up) \in Seq(Events)
      /\ Lines(Cat(u, up), kind) = Lines(u, kind)
  <2>1. CASE "up" \in ifs
    <3>1. u \in Seq(Events) /\ kind \in Kd /\ Fit(u, kind)
      BY <1>1 DEF OrderInv
    <3>2. up = <<Event("INTERFACE_UP", NoMsg)>>
      BY <2>1
    <3> HIDE DEF u, up
    <3> QED BY <3>1, <3>2, QuietEnd
  <2>2. CASE "up" \notin ifs
    BY <1>1, <1>2, <2>2 DEF OrderInv
  <2> QED BY <2>1, <2>2
<1> DEFINE v == Cat(u, up)
<1> HIDE DEF u, up, v
<1>7. Fit(Cat(v, dn), kind) /\ Lines(Cat(v, dn), kind) = Lines(v, kind)
  <2>1. CASE "down" \in ifs
    <3>1. v \in Seq(Events) /\ kind \in Kd /\ Fit(v, kind)
      BY <1>1, <1>6 DEF v
    <3>2. dn = <<Event("INTERFACE_DOWN", NoMsg)>>
      BY <2>1 DEF dn
    <3> QED BY <3>1, <3>2, QuietEnd
  <2>2. CASE "down" \notin ifs
    BY <1>2, <1>6, <2>2 DEF v
  <2> QED BY <2>1, <2>2
<1>8. Cat(Contents(q), Handed) = Cat(v, dn)
  <2>1. Handed = Cat(Netted, Noticed) /\ Noticed = Cat(up, dn)
    BY <1>1, HandedIs DEF Noticed, Cat, up
  <2>2. Cat(Contents(q), Cat(Netted, Cat(up, dn))) = Cat(Cat(Cat(Contents(q), Netted), up), dn)
    <3> DEFINE c == Contents(q)
    <3> HIDE DEF c, dn
    <3>1. c \in Seq(Events) /\ Netted \in Seq(Events) /\ up \in Seq(Events) /\ dn \in Seq(Events)
      BY <1>1, <1>5 DEF c
    <3>2. Cat(Netted, Cat(up, dn)) = Cat(Cat(Netted, up), dn) /\ Cat(Netted, up) \in Seq(Events)
      BY <3>1, CatThree
    <3>3. Cat(c, Cat(Cat(Netted, up), dn)) = Cat(Cat(c, Cat(Netted, up)), dn)
      BY <3>1, <3>2, CatThree
    <3>4. Cat(c, Cat(Netted, up)) = Cat(Cat(c, Netted), up)
      BY <3>1, CatThree
    <3> QED BY <3>2, <3>3, <3>4 DEF c
  <2> QED BY <2>1, <2>2, UnderWayIs DEF u, v
<1> QED BY <1>3, <1>4, <1>6, <1>7, <1>8 DEF u, v, Lines

LEMMA TimerStep ==
  ASSUME OrderInv, MainPollTimer
  PROVE  Fit(UnderWay, kind)' /\ Lines(UnderWay, kind)' = Lines(UnderWay, kind)
<1>1. kind' = kind /\ Netted' = Netted /\ UnderWay' = Cat(Contents(q'), Netted')
  BY DEF MainPollTimer, Netted, UnderWay, Cat
<1>2. CASE q' = q
  BY <1>1, <1>2, UnderWayIs DEF OrderInv, Lines
<1>3. CASE q' = Post(q, Event("TIMER", NoMsg))
  <2>1. Event("TIMER", NoMsg) \in Events
    BY EventType, FlowAssumption DEF NoMsg
  <2>2. Contents(q') = Cat(Contents(q), <<Event("TIMER", NoMsg)>>)
    <3>1. Contents(q') = Append(Contents(q), Event("TIMER", NoMsg)) /\ Contents(q) \in Seq(Events)
      BY <1>3, <2>1, PostAppends DEF OrderInv, Inv, QueueInv
    <3> QED BY <2>1, <3>1 DEF Cat
  <2>3. /\ Contents(q) \in Seq(Events) /\ Netted \in Seq(Events) /\ kind \in Kd
        /\ Fit(Cat(Contents(q), Netted), kind)
    BY UnderWayType, UnderWayIs, NettedType DEF OrderInv, Inv, QueueInv
  <2> DEFINE v == Cat(Cat(Contents(q), <<Event("TIMER", NoMsg)>>), Netted)
  <2>4. Fit(v, kind) /\ Lines(v, kind) = Lines(Cat(Contents(q), Netted), kind)
    BY <2>3, QuietInsert
  <2>5. UnderWay' = v
    BY <1>1, <2>2
  <2> QED BY <1>1, <2>4, <2>5, UnderWayIs DEF Lines
<1> QED BY <1>2, <1>3 DEF MainPollTimer

\* The list of what is under way: the event that is handled, and the others.
LEMMA UnderWayParts ==
  ASSUME OrderInv, q.nevents > 0, NEW e, e = First(q), NEW r, r = Contents(Rest(q)),
         NEW w, w = Cat(r, Netted)
  PROVE  /\ e \in Events /\ r \in Seq(Events) /\ Netted \in Seq(Events) /\ w \in Seq(Events)
         /\ UnderWay = Cat(<<e>>, w) /\ Lines(UnderWay, kind) = Lines(Cat(<<e>>, w), kind)
         /\ kind \in Kd /\ Fit(w, kind) /\ FitEvent(e, kind)
         /\ e.m # NoMsg => \A i \in DOMAIN w : w[i].m # e.m
         /\ \A i \in DOMAIN r : i \in DOMAIN w /\ w[i] = r[i]
<1>1. /\ r \in Seq(Events) /\ e \in Events /\ Netted \in Seq(Events)
      /\ UnderWay = Cat(<<e>>, w)
  BY QueueHead DEF OrderInv, Inv
<1>2. w \in Seq(Events) /\ \A i \in DOMAIN r : i \in DOMAIN w /\ w[i] = r[i]
  BY <1>1 DEF Cat
<1>3. Fit(Cat(<<e>>, w), kind) /\ kind \in Kd
  BY <1>1, UnderWayType DEF OrderInv
<1>4. /\ Fit(w, kind) /\ FitEvent(e, kind)
      /\ e.m # NoMsg => \A i \in DOMAIN w : w[i].m # e.m
  BY <1>1, <1>2, <1>3, TailFits
<1> QED BY <1>1, <1>2, <1>3, <1>4

LEMMA ForwardStep ==
  ASSUME OrderInv, Inbound \/ OscoreReceive
  PROVE  Fit(UnderWay, kind)' /\ Lines(UnderWay, kind)' = Lines(UnderWay, kind)
<1>1. q.nevents > 0 /\ netlist' = netlist /\ kind' = kind
  BY DEF Inbound, OscoreReceive, Turn
<1>2. PICK t \in {"INBOUND_OSCORE_EVENT", "INBOUND_RI_EVENT"} :
        /\ q' = Post(Rest(q), Event(t, M))
        /\ \/ /\ First(q).type = "INBOUND_NETWORK_EVENT"
              /\ t = "INBOUND_OSCORE_EVENT" <=> kind[M] = "oscore"
           \/ First(q).type = "INBOUND_OSCORE_EVENT" /\ t = "INBOUND_RI_EVENT"
  BY DEF Inbound, OscoreReceive, Turn
<1> DEFINE e == First(q)
           r == Contents(Rest(q))
           w == Cat(r, Netted)
           f == Event(t, M)
<1>3. /\ e \in Events /\ r \in Seq(Events) /\ Netted \in Seq(Events) /\ w \in Seq(Events)
      /\ Lines(UnderWay, kind) = Lines(Cat(<<e>>, w), kind)
      /\ kind \in Kd /\ Fit(w, kind) /\ FitEvent(e, kind)
      /\ e.m # NoMsg => \A i \in DOMAIN w : w[i].m # e.m
      /\ \A i \in DOMAIN r : i \in DOMAIN w /\ w[i] = r[i]
  BY <1>1, UnderWayParts
<1>4. \A i \in DOMAIN Netted : Netted[i].type = "INBOUND_NETWORK_EVENT"
  BY NettedType DEF OrderInv, Inv
<1>5. f \in Events /\ f.m = e.m /\ f.type = t /\ e.m = M
  <2>1. M \in 0 .. MaxMsgs
    BY <1>1, FirstType DEF OrderInv, Inv
  <2> QED BY <2>1, EventType DEF Event, M
<1>6. UnderWay' = Cat(Cat(r, <<f>>), Netted)
  <2>1. Rest(q) \in Queue(Events)
    BY <1>1, RestTakes DEF OrderInv, Inv, QueueInv
  <2>2. Contents(q') = Append(r, f)
    BY <1>2, <1>5, <2>1, PostAppends
  <2>3. Contents(q') = Cat(r, <<f>>)
    <3> HIDE DEF r, f
    <3>1. Append(r, f) = r \o <<f>>
      BY <1>3, <1>5
    <3> QED BY <2>2, <3>1 DEF Cat
  <2>4. UnderWay' = Cat(Contents(q'), Netted')
    BY DEF UnderWay, Cat, Netted
  <2>5. Netted' = Netted
    BY <1>1 DEF Netted
  <2> QED BY <2>3, <2>4, <2>5
<1> HIDE DEF e, r, w, f
<1>7. e.type \in MessageTypes /\ e.m \in Msgs /\ kind[e.m] \in InKinds /\ e.m # NoMsg
      /\ (e.type = "INBOUND_OSCORE_EVENT" => kind[e.m] = "oscore")
  BY <1>2, <1>3, FlowAssumption DEF FitEvent, MessageTypes, e, Msgs, NoMsg
<1>8. FitEvent(f, kind)
  BY <1>2, <1>5, <1>7 DEF FitEvent, MessageTypes, e
<1>9. Fit(Cat(Cat(r, <<f>>), Netted), kind)
  BY <1>3, <1>5, <1>8, InsertFits DEF w
<1>10. \A k : Line(Cat(Cat(r, <<f>>), Netted), kind, k) = Line(Cat(<<e>>, w), kind, k)
  <2> SUFFICES ASSUME NEW k
               PROVE  Line(Cat(Cat(r, <<f>>), Netted), kind, k) = Line(Cat(<<e>>, w), kind, k)
    OBVIOUS
  <2>1. CASE e.m \in Of(kind, k)
    <3>1. kind[e.m] = k
      BY <2>1 DEF Of
    <3>2. (e.type = "INBOUND_NETWORK_EVENT" /\ f.type = "INBOUND_RI_EVENT") =>
            \A i \in DOMAIN r : ~ (r[i].type = "INBOUND_OSCORE_EVENT" /\ r[i].m \in Of(kind, k))
      <4> SUFFICES ASSUME e.type = "INBOUND_NETWORK_EVENT", f.type = "INBOUND_RI_EVENT",
                          NEW i \in DOMAIN r, r[i].type = "INBOUND_OSCORE_EVENT",
                          r[i].m \in Of(kind, k)
                   PROVE  FALSE
        OBVIOUS
      <4>1. kind[r[i].m] = k /\ FitEvent(r[i], kind)
        BY <1>3 DEF Of, Fit
      <4>2. k = "oscore"
        BY <4>1 DEF FitEvent, MessageTypes
      <4>3. k # "oscore"
        BY <1>2, <1>5, <3>1 DEF e
      <4> QED BY <4>2, <4>3
    <3>3. \/ e.type = "INBOUND_NETWORK_EVENT" /\ f.type = "INBOUND_OSCORE_EVENT"
          \/ e.type = "INBOUND_NETWORK_EVENT" /\ f.type = "INBOUND_RI_EVENT"
          \/ e.type = "INBOUND_OSCORE_EVENT" /\ f.type = "INBOUND_RI_EVENT"
      BY <1>2, <1>5 DEF e
    <3> QED BY <1>3, <1>4, <1>5, <2>1, <3>2, <3>3, LineMove DEF w
  <2>2. CASE e.m \notin Of(kind, k)
    <3>1. Line(Cat(Cat(r, <<f>>), Netted), kind, k) = Line(w, kind, k)
      BY <1>3, <1>5, <2>2, LineOther DEF w
    <3>2. Line(Cat(<<e>>, w), kind, k) = Line(w, kind, k)
      BY <1>3, <2>2, LineOtherHead
    <3> QED BY <3>1, <3>2
  <2> QED BY <2>1, <2>2
<1>11. Lines(UnderWay, kind)' = Lines(Cat(<<e>>, w), kind)
  BY <1>1, <1>6, <1>10 DEF Lines
<1> QED BY <1>1, <1>3, <1>6, <1>9, <1>11

\* What is under way once the first event is taken.
LEMMA UnderWayRest ==
  ASSUME OrderInv, q' = Rest(q), netlist' = netlist
  PROVE  UnderWay' = Cat(Contents(Rest(q)), Netted)
BY DEF UnderWay, Cat, Netted

LEMMA QuietStep ==
  ASSUME OrderInv, InterfaceEvent \/ TimerEvent
  PROVE  Fit(UnderWay, kind)' /\ Lines(UnderWay, kind)' = Lines(UnderWay, kind)
<1>1. q.nevents > 0 /\ netlist' = netlist /\ kind' = kind /\ q' = Rest(q)
      /\ First(q).type \notin MessageTypes
  BY DEF InterfaceEvent, TimerEvent, Turn, MessageTypes
<1> DEFINE e == First(q)
           w == Cat(Contents(Rest(q)), Netted)
<1>2. /\ e \in Events /\ w \in Seq(Events)
      /\ Lines(UnderWay, kind) = Lines(Cat(<<e>>, w), kind)
      /\ Fit(w, kind) /\ FitEvent(e, kind)
  BY <1>1, UnderWayParts
<1>3. UnderWay' = w
  BY <1>1, UnderWayRest
<1>4. e.m \notin Msgs
  BY <1>1, <1>2, FlowAssumption DEF FitEvent, NoMsg, Msgs
<1> HIDE DEF e, w
<1>5. \A k : Line(Cat(<<e>>, w), kind, k) = Line(w, kind, k)
  BY <1>2, <1>4, LineOtherHead DEF Of
<1> QED BY <1>1, <1>2, <1>3, <1>5 DEF Lines

\* The message of the first event leaves: the engine takes it, or it does not decrypt.
LEMMA LeaveStep ==
  ASSUME OrderInv, Engine \/ OscoreReject, NEW e, e = First(q),
         NEW w, w = Cat(Contents(Rest(q)), Netted)
  PROVE  /\ e \in Events /\ w \in Seq(Events) /\ e.m \in Msgs /\ kind[e.m] \in InKinds
         /\ Lines(UnderWay, kind) = Lines(Cat(<<e>>, w), kind)
         /\ Fit(UnderWay, kind)' /\ Lines(UnderWay, kind)' = Lines(w, kind)
         /\ e.type = "INBOUND_OSCORE_EVENT" => kind[e.m] = "oscore"
<1>1. /\ q.nevents > 0 /\ netlist' = netlist /\ q' = Rest(q)
      /\ kind' = [kind EXCEPT ![e.m] = "free"] /\ e.type \in MessageTypes
  BY DEF Engine, OscoreReject, Turn, MessageTypes, M
<1>2. /\ e \in Events /\ w \in Seq(Events) /\ kind \in Kd
      /\ Lines(UnderWay, kind) = Lines(Cat(<<e>>, w), kind)
      /\ Fit(w, kind) /\ FitEvent(e, kind)
      /\ e.m # NoMsg => \A i \in DOMAIN w : w[i].m # e.m
  BY <1>1, UnderWayParts
<1>3. UnderWay' = w
  BY <1>1, UnderWayRest
<1>4. e.m \in Msgs /\ kind[e.m] \in InKinds /\ e.m # NoMsg
      /\ (e.type = "INBOUND_OSCORE_EVENT" => kind[e.m] = "oscore")
  BY <1>1, <1>2, FlowAssumption DEF FitEvent, NoMsg, Msgs
<1>5. Fit(w, kind')
  BY <1>1, <1>2, <1>4, FitOther
<1>6. Lines(w, kind') = Lines(w, kind)
  BY <1>1, <1>2, <1>4, LinesOther
<1> QED BY <1>2, <1>3, <1>4, <1>5, <1>6 DEF Lines

LEMMA CatHead ==
  ASSUME NEW S, NEW s \in Seq(S), NEW x \in S
  PROVE  Cat(<<x>>, s) # << >> /\ Tail(Cat(<<x>>, s)) = s
BY DEF Cat

LEMMA HandleStep ==
  ASSUME OrderInv, Engine
  PROVE  /\ Fit(UnderWay, kind)'
         /\ \E k \in InKinds :
              /\ Lines(UnderWay, kind)[k] # << >>
              /\ Lines(UnderWay, kind)' = [Lines(UnderWay, kind) EXCEPT ![k] = Tail(@)]
<1> DEFINE e == First(q)
           w == Cat(Contents(Rest(q)), Netted)
           k == kind[e.m]
<1>1. /\ e \in Events /\ w \in Seq(Events) /\ e.m \in Msgs /\ k \in InKinds
      /\ Lines(UnderWay, kind) = Lines(Cat(<<e>>, w), kind)
      /\ Fit(UnderWay, kind)' /\ Lines(UnderWay, kind)' = Lines(w, kind)
  BY LeaveStep
<1>2. e.type = "INBOUND_RI_EVENT"
  BY DEF Engine, Turn
<1>3. e.m \in Of(kind, k) /\ \A j : j # k => e.m \notin Of(kind, j)
  BY <1>1 DEF Of
<1> HIDE DEF e, w, k
<1>4. Line(Cat(<<e>>, w), kind, k) = Cat(<<e.m>>, Line(w, kind, k))
  BY <1>1, <1>2, <1>3, LineHead
<1>5. \A j : j # k => Line(Cat(<<e>>, w), kind, j) = Line(w, kind, j)
  BY <1>1, <1>3, LineOtherHead
<1>6. Cat(<<e.m>>, Line(w, kind, k)) # << >> /\ Tail(Cat(<<e.m>>, Line(w, kind, k))) = Line(w, kind, k)
  <2>1. Line(w, kind, k) \in Seq(Of(kind, k))
    BY <1>1, LineType
  <2> QED BY <1>3, <2>1, CatHead
<1>7. Lines(Cat(<<e>>, w), kind)[k] # << >>
  BY <1>1, <1>4, <1>6 DEF Lines
<1>8. Lines(w, kind) = [Lines(Cat(<<e>>, w), kind) EXCEPT ![k] = Tail(@)]
  BY <1>1, <1>4, <1>5, <1>6 DEF Lines
<1> QED BY <1>1, <1>7, <1>8

\* A list without its i-th element.
Before(s, i) == SubSeq(s, 1, i - 1)
After(s, i) == SubSeq(s, i + 1, Len(s))
Without(s, i) == Before(s, i) \o After(s, i)

LEMMA BeforeElements ==
  ASSUME NEW S, NEW s \in Seq(S), NEW i \in 1 .. Len(s)
  PROVE  /\ Before(s, i) \in Seq(S) /\ Len(Before(s, i)) = i - 1
         /\ \A j \in 1 .. i - 1 : Before(s, i)[j] = s[j]
BY DEF Before

LEMMA AfterElements ==
  ASSUME NEW S, NEW s \in Seq(S), NEW i \in 1 .. Len(s)
  PROVE  /\ After(s, i) \in Seq(S) /\ Len(After(s, i)) = Len(s) - i
         /\ \A j \in 1 .. Len(s) - i : After(s, i)[j] = s[i + j]
BY DEF After

LEMMA SameElements ==
  ASSUME NEW S, NEW s \in Seq(S), NEW t \in Seq(S), Len(s) = Len(t),
         \A j \in 1 .. Len(s) : s[j] = t[j]
  PROVE  s = t
OBVIOUS

LEMMA CutOne ==
  ASSUME NEW S, NEW x \in Seq(S), NEW y \in Seq(S), NEW m \in S,
         NEW s, s = Cat(Cat(x, <<m>>), y), NEW i, i = Len(x) + 1
  PROVE  i \in DOMAIN s /\ Without(s, i) = Cat(x, y)
<1>1. /\ Len(s) = Len(x) + 1 + Len(y) /\ DOMAIN s = 1 .. Len(s) /\ Len(x) \in Nat /\ Len(y) \in Nat
      /\ s \in Seq(S)
  BY DEF Cat
<1>2. \A j \in 1 .. Len(x) : s[j] = x[j]
  BY DEF Cat
<1>3. \A j \in 1 .. Len(y) : s[i + j] = y[j]
  BY DEF Cat
<1>4. i \in 1 .. Len(s) /\ i - 1 = Len(x) /\ Len(s) - i = Len(y)
  BY <1>1
<1>5. /\ Before(s, i) \in Seq(S) /\ Len(Before(s, i)) = Len(x)
      /\ \A j \in 1 .. Len(x) : Before(s, i)[j] = s[j]
  BY <1>1, <1>4, BeforeElements
<1>6. /\ After(s, i) \in Seq(S) /\ Len(After(s, i)) = Len(y)
      /\ \A j \in 1 .. Len(y) : After(s, i)[j] = s[i + j]
  BY <1>1, <1>4, AfterElements
<1>7. Before(s, i) = x
  <2>1. \A j \in 1 .. Len(Before(s, i)) : Before(s, i)[j] = x[j]
    BY <1>2, <1>5
  <2> QED BY <1>5, <2>1, SameElements
<1>8. After(s, i) = y
  <2>1. \A j \in 1 .. Len(After(s, i)) : After(s, i)[j] = y[j]
    BY <1>3, <1>6
  <2> QED BY <1>6, <2>1, SameElements
<1> QED BY <1>1, <1>4, <1>7, <1>8 DEF Without, Cat

LEMMA DropStep ==
  ASSUME OrderInv, OscoreReject
  PROVE  /\ Fit(UnderWay, kind)' /\ "oscore" \in InKinds
         /\ \E i \in DOMAIN Lines(UnderWay, kind)["oscore"] :
              Lines(UnderWay, kind)' =
                [Lines(UnderWay, kind) EXCEPT !["oscore"] = Without(@, i)]
<1> DEFINE e == First(q)
           w == Cat(Contents(Rest(q)), Netted)
           k == "oscore"
<1>1. /\ e \in Events /\ w \in Seq(Events) /\ e.m \in Msgs /\ kind[e.m] \in InKinds
      /\ Lines(UnderWay, kind) = Lines(Cat(<<e>>, w), kind)
      /\ Fit(UnderWay, kind)' /\ Lines(UnderWay, kind)' = Lines(w, kind)
      /\ e.type = "INBOUND_OSCORE_EVENT" => kind[e.m] = k
  BY LeaveStep
<1>2. e.type = "INBOUND_OSCORE_EVENT" /\ k \in InKinds
  BY <1>1 DEF OscoreReject, Turn
<1>3. e.m \in Of(kind, k) /\ \A j : j # k => e.m \notin Of(kind, j)
  BY <1>1, <1>2 DEF Of
<1> HIDE DEF e, w, k
<1>4. PICK x \in Seq(Of(kind, k)), y \in Seq(Of(kind, k)) :
        /\ Line(Cat(<<e>>, w), kind, k) = Cat(Cat(x, <<e.m>>), y)
        /\ Line(w, kind, k) = Cat(x, y)
  BY <1>1, <1>2, <1>3, LineDrop
<1>5. \A j : j # k => Line(Cat(<<e>>, w), kind, j) = Line(w, kind, j)
  BY <1>1, <1>3, LineOtherHead
<1> DEFINE s == Line(Cat(<<e>>, w), kind, k)
           i == Len(x) + 1
<1>6. i \in DOMAIN s /\ Without(s, i) = Line(w, kind, k)
  <2>1. s = Cat(Cat(x, <<e.m>>), y) /\ i = Len(x) + 1
    BY <1>4
  <2> HIDE DEF s, i
  <2>2. i \in DOMAIN s /\ Without(s, i) = Cat(x, y)
    BY <1>3, <2>1, CutOne
  <2> QED BY <1>4, <2>2
<1> HIDE DEF i
<1>7. i \in DOMAIN Lines(Cat(<<e>>, w), kind)[k]
  BY <1>2, <1>6 DEF Lines
<1>8. Lines(w, kind) = [Lines(Cat(<<e>>, w), kind) EXCEPT ![k] = Without(@, i)]
  BY <1>2, <1>5, <1>6 DEF Lines
<1> QED BY <1>1, <1>2, <1>7, <1>8 DEF k

LEMMA ServiceReceives ==
  ASSUME NEW k \in InKinds,
         \E m \in Msgs : Lines(UnderWay, kind)' = [Lines(UnderWay, kind) EXCEPT ![k] = Append(@, m)]
  PROVE  Service!Next
BY PendingIs DEF Service!Next, Service!Receive

LEMMA ServiceHandles ==
  ASSUME NEW k \in InKinds, Lines(UnderWay, kind)[k] # << >>,
         Lines(UnderWay, kind)' = [Lines(UnderWay, kind) EXCEPT ![k] = Tail(@)]
  PROVE  Service!Next
BY PendingIs DEF Service!Next, Service!Handle

LEMMA ServiceDrops ==
  ASSUME "oscore" \in InKinds,
         \E i \in DOMAIN Lines(UnderWay, kind)["oscore"] :
              Lines(UnderWay, kind)' =
                [Lines(UnderWay, kind) EXCEPT !["oscore"] = Without(@, i)]
  PROVE  Service!Next
BY PendingIs DEF Service!Next, Service!Drop, Without, Before, After

LEMMA NothingMoves ==
  ASSUME OrderInv, UNCHANGED <<q, netlist, kind>>
  PROVE  Fit(UnderWay, kind)' /\ Lines(UnderWay, kind)' = Lines(UnderWay, kind)
<1>1. UnderWay' = UnderWay /\ kind' = kind
  BY DEF UnderWay
<1> QED BY <1>1 DEF OrderInv, Lines

\* One step of the two threads.
LEMMA ServiceStep ==
  ASSUME OrderInv, [Next]_vars
  PROVE  Fit(UnderWay, kind)' /\ [Service!Next]_([k \in InKinds |-> OfKind(k)])
<1> DEFINE Good == Fit(UnderWay, kind)' /\ [Service!Next]_([k \in InKinds |-> OfKind(k)])
<1> SUFFICES Good
  OBVIOUS
<1>1. ASSUME Fit(UnderWay, kind)', Lines(UnderWay, kind)' = Lines(UnderWay, kind) PROVE Good
  BY <1>1, PendingIs
<1>0. ASSUME Fit(UnderWay, kind)', Service!Next PROVE Good
  BY <1>0
<1> HIDE DEF Good
<1>2. ASSUME NEW k \in InKinds, NetReceive(k) PROVE Good
  BY <1>0, <1>2, ReceiveStep, ServiceReceives
<1>3. CASE MainCall
  BY <1>1, <1>3, CallStep
<1>4. CASE MainPollTimer
  BY <1>1, <1>4, TimerStep
<1>5. CASE MainEvent
  <2>1. CASE NoEventLeft
    BY <1>1, <2>1, NothingMoves DEF NoEventLeft, data
  <2>2. CASE Inbound \/ OscoreReceive
    BY <1>1, <2>2, ForwardStep
  <2>3. CASE OscoreReject
    BY <1>0, <2>3, DropStep, ServiceDrops
  <2>4. CASE Engine
    BY <1>0, <2>4, HandleStep, ServiceHandles
  <2>5. CASE InterfaceEvent \/ TimerEvent
    BY <1>1, <2>5, QuietStep
  <2> QED BY <1>5, <2>1, <2>2, <2>3, <2>4, <2>5 DEF MainEvent
<1>6. CASE UNCHANGED <<q, netlist, kind>>
  BY <1>1, <1>6, NothingMoves
<1>7. CASE \E c \in IfChanges : NetInterface(c)
  <2>1. UNCHANGED <<q, netlist, kind>>
    BY <1>7 DEF NetInterface
  <2> QED BY <1>6, <2>1
<1>8. CASE Network \/ Tick \/ MainStart \/ MainPollNet \/ MainSleep \/ MainTimeout \/ UNCHANGED vars
  <2>1. UNCHANGED <<q, netlist, kind>>
    BY <1>8 DEF Network, NetNeedsPoll, NetStateMissed, NetRequest, NetSignal, Tick, MainStart,
       MainPollNet, MainSleep, MainTimeout, data, vars
  <2> QED BY <1>6, <2>1
<1>9. CASE \E k \in InKinds : NetReceive(k)
  BY <1>2, <1>9
<1>10. \/ \E k \in InKinds : NetReceive(k)
       \/ MainCall \/ MainPollTimer \/ MainEvent
       \/ \E c \in IfChanges : NetInterface(c)
       \/ Network \/ Tick \/ MainStart \/ MainPollNet \/ MainSleep \/ MainTimeout \/ UNCHANGED vars
  BY DEF Next, Main
<1> QED BY <1>3, <1>4, <1>5, <1>7, <1>8, <1>9, <1>10

\* No message is under way at the start.
LEMMA ServiceInit ==
  ASSUME Init PROVE Fit(UnderWay, kind) /\ Service!Init
<1> DEFINE z == << >>
<1>1. UnderWay = z
  <2>1. Contents(q) = << >>
    BY EmptyQueueHolds DEF Init
  <2>2. [i \in DOMAIN netlist |-> Event("INBOUND_NETWORK_EVENT", netlist[i])] = << >>
    BY DEF Init
  <2> QED BY <2>1, <2>2 DEF UnderWay
<1>2. DOMAIN z = {}
  OBVIOUS
<1>3. Fit(UnderWay, kind)
  BY <1>1, <1>2 DEF Fit, Spread
<1>4. \A t, K : Channel(z, t, K) = z
  BY ChannelEmpty
<1>5. Cat(z, z) = z
  BY DEF Cat
<1>6. \A k : Line(z, kind, k) = z
  BY <1>4, <1>5 DEF Line
<1>7. Lines(UnderWay, kind) = [k \in InKinds |-> << >>]
  BY <1>1, <1>6 DEF Lines
<1>8. Service!Init
  BY <1>7, PendingIs DEF Service!Init
<1> QED BY <1>3, <1>8

\* The two threads, the polling flags, the event queue that grows and the OSCORE
\* process implement the service: the messages of a kind reach the engine once, in
\* the order of their arrival, except those that do not decrypt.
THEOREM MessagesInOrder == Spec => ServiceSpec
<1>1. Init => OrderInv /\ Service!Init
  BY InitInv, ServiceInit DEF OrderInv
<1>2. OrderInv /\ [Next]_vars => OrderInv' /\ [Service!Next]_([k \in InKinds |-> OfKind(k)])
  BY ServiceStep, QueuePreserved, ThreadsPreserved DEF OrderInv, Inv
<1> QED BY <1>1, <1>2, PTL DEF Spec, ServiceSpec, Service!Spec
=============================================================================
