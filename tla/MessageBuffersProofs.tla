------------------------ MODULE MessageBuffersProofs ------------------------
(***************************************************************************)
(* The references to the message buffers, for any buffers, messages that   *)
(* are sent and length of the queue.                                       *)
(***************************************************************************)
EXTENDS MessageBuffers, FiniteSetTheorems, TLAPS

-----------------------------------------------------------------------------
(* How many events of a list belong to a message.                          *)

At(s, m) == {i \in DOMAIN s : s[i].m = m}
Count(s, m) == Cardinality(At(s, m))
One(b) == IF b THEN 1 ELSE 0

LEMMA CountType ==
  ASSUME NEW S, NEW s \in Seq(S), NEW m
  PROVE  IsFiniteSet(At(s, m)) /\ Count(s, m) \in Nat
<1>1. At(s, m) \subseteq 1 .. Len(s) /\ Len(s) \in Nat
  BY DEF At
<1>2. IsFiniteSet(1 .. Len(s))
  BY <1>1, FS_Interval
<1>3. IsFiniteSet(At(s, m))
  BY <1>1, <1>2, FS_Subset
<1> QED BY <1>3, FS_CardinalityType DEF Count

LEMMA CountNone ==
  ASSUME NEW S, NEW s \in Seq(S), NEW m
  PROVE  Count(s, m) = 0 <=> \A i \in DOMAIN s : s[i].m # m
<1>1. IsFiniteSet(At(s, m))
  BY CountType
<1>2. Count(s, m) = 0 <=> At(s, m) = {}
  BY <1>1, FS_EmptySet DEF Count
<1> QED BY <1>2 DEF At

LEMMA CountAppend ==
  ASSUME NEW S, NEW s \in Seq(S), NEW e \in S, NEW m
  PROVE  Count(Append(s, e), m) = Count(s, m) + One(e.m = m)
<1> DEFINE t == Append(s, e)
           n == Len(s) + 1
<1>1. Len(s) \in Nat /\ DOMAIN s = 1 .. Len(s) /\ DOMAIN t = 1 .. n /\ t[n] = e
  OBVIOUS
<1>2. \A i \in 1 .. Len(s) : t[i] = s[i]
  OBVIOUS
<1> HIDE DEF t
<1>3. IsFiniteSet(At(s, m)) /\ n \notin At(s, m) /\ Count(s, m) \in Nat
  <2>1. n \notin DOMAIN s
    BY <1>1
  <2>2. n \notin At(s, m)
    BY <2>1 DEF At
  <2> QED BY <2>2, CountType
<1>4. CASE e.m = m
  <2>1. At(t, m) = At(s, m) \cup {n}
    BY <1>1, <1>2, <1>4 DEF At
  <2> QED BY <1>3, <1>4, <2>1, FS_AddElement DEF Count, One, t
<1>5. CASE e.m # m
  <2>1. At(t, m) = At(s, m)
    BY <1>1, <1>2, <1>5 DEF At
  <2> QED BY <1>3, <1>5, <2>1 DEF Count, One, t
<1> QED BY <1>4, <1>5

LEMMA CountTail ==
  ASSUME NEW S, NEW s \in Seq(S), s # << >>, NEW m
  PROVE  Count(Tail(s), m) = Count(s, m) - One(Head(s).m = m)
<1> DEFINE t == Tail(s)
           A == At(s, m) \ {1}
           B == At(t, m)
           f == [i \in A |-> i - 1]
<1>1. /\ Len(s) \in Nat /\ Len(s) > 0 /\ DOMAIN s = 1 .. Len(s) /\ DOMAIN t = 1 .. Len(s) - 1
      /\ Head(s) = s[1]
  OBVIOUS
<1>2. \A i \in 1 .. Len(s) - 1 : t[i] = s[i + 1]
  OBVIOUS
<1> HIDE DEF t
<1>3. f \in Bijection(A, B)
  <2>1. f \in [A -> B]
    <3> SUFFICES ASSUME NEW i \in A PROVE i - 1 \in B
      OBVIOUS
    <3>1. i - 1 \in 1 .. Len(s) - 1 /\ (i - 1) + 1 = i /\ s[i].m = m
      BY <1>1 DEF At
    <3>2. t[i - 1] = s[i]
      BY <1>2, <3>1
    <3> QED BY <1>1, <3>1, <3>2 DEF At
  <2>2. \A a, b \in A : f[a] = f[b] => a = b
    BY <1>1 DEF At
  <2>3. \A b \in B : \E a \in A : f[a] = b
    <3> SUFFICES ASSUME NEW b \in B PROVE b + 1 \in A /\ (b + 1) - 1 = b
      OBVIOUS
    <3>1. b \in 1 .. Len(s) - 1 /\ t[b].m = m
      BY <1>1 DEF At
    <3>2. s[b + 1].m = m /\ b + 1 \in 1 .. Len(s) /\ b + 1 # 1
      BY <1>1, <1>2, <3>1
    <3> QED BY <1>1, <3>1, <3>2 DEF At
  <2> HIDE DEF A, B
  <2> QED BY <2>1, <2>2, <2>3 DEF Bijection, Injection, IsInjective, Surjection
<1>4. IsFiniteSet(At(s, m)) /\ Count(s, m) \in Nat
  BY CountType
<1>5. IsFiniteSet(A) /\ Cardinality(A) = IF 1 \in At(s, m) THEN Count(s, m) - 1 ELSE Count(s, m)
  BY <1>4, FS_RemoveElement DEF Count
<1>6. Cardinality(B) = Cardinality(A)
  <2> HIDE DEF f, A, B
  <2>1. ExistsBijection(A, B)
    BY <1>3 DEF ExistsBijection
  <2> QED BY <1>5, <2>1, FS_Bijection
<1>7. 1 \in At(s, m) <=> Head(s).m = m
  BY <1>1 DEF At
<1> QED BY <1>4, <1>5, <1>6, <1>7 DEF Count, One, t

LEMMA HoldersIs ==
  ASSUME NEW m
  PROVE  Holders(m) = Count(q, m) + One(m \in trans) + One(m \in tracked)
<1>1. \A T : Cardinality({m} \cap T) = One(m \in T)
  <2> SUFFICES ASSUME NEW T PROVE Cardinality({m} \cap T) = One(m \in T)
    OBVIOUS
  <2>1. CASE m \in T
    <3>1. {m} \cap T = {m}
      BY <2>1
    <3> QED BY <2>1, <3>1, FS_Singleton DEF One
  <2>2. CASE m \notin T
    <3>1. {m} \cap T = {}
      BY <2>2
    <3> QED BY <2>2, <3>1, FS_EmptySet DEF One
  <2> QED BY <2>1, <2>2
<1> QED BY <1>1 DEF Holders, Count, At

-----------------------------------------------------------------------------
(* The inductive invariant.                                                *)

Ev == [type : EventTypes, m : Msgs \cup {NoMsg}]
KindSet == {"free", "received", "unicast", "discovery", "oscore", "group", "encrypted", "empty"}
ConKinds == {s.kind : s \in {x \in Sends : x.con}}

Held(m) == Count(q, m) + One(m \in trans) + One(m \in tracked)

\* The events of timers have no message; what comes in is as it was received.
Meant(s, k) ==
  \A i \in DOMAIN s :
    IF s[i].type \in {"TIMER_ENGINE", "TIMER_CALLBACKS"} THEN s[i].m = NoMsg
    ELSE s[i].m \in Msgs /\ (s[i].type = "INBOUND_RI_EVENT" => k[s[i].m] = "received")

\* No buffer has fewer references than pointers that own one, a lost one has
\* more as long as nothing but its lost pointer was overwritten, and a buffer
\* without references is free.
Accounts ==
  \A m \in Msgs : /\ kind[m] = "free" <=> ref[m] = 0
                  /\ ref[m] >= Held(m)
                  /\ m \notin leaked => ref[m] = Held(m)

\* The messages of transactions are those that were sent, and no record of the
\* cache leads to one: what leaves its record late is in no transaction.
Keeps == \A m \in trans : kind[m] \in ConKinds
Apart == \A i \in Records : cache[i] \notin trans

Sound == Accounts /\ Meant(q, kind) /\ Keeps /\ Apart

Inv == TypeOK /\ (broken => doing = "event") /\ (~broken => Sound)

LEMMA ConKindsAre ==
  ConKinds \subseteq KindSet /\ "free" \notin ConKinds /\ "received" \notin ConKinds
BY BufferAssumption DEF ConKinds, KindSet

LEMMA HeldType ==
  ASSUME TypeOK, NEW m
  PROVE  /\ Count(q, m) \in Nat /\ Held(m) \in Nat /\ Held(m) >= Count(q, m)
         /\ (m \in trans \/ m \in tracked) => Held(m) > 0
<1>1. Count(q, m) \in Nat
  BY CountType DEF TypeOK
<1>2. One(m \in trans) \in {0, 1} /\ One(m \in tracked) \in {0, 1}
      /\ (m \in trans => One(m \in trans) = 1) /\ (m \in tracked => One(m \in tracked) = 1)
  BY DEF One
<1> QED BY <1>1, <1>2 DEF Held

\* The kinds of what is in the list decide what its events mean.
LEMMA MeantKinds ==
  ASSUME NEW s \in Seq(Ev), NEW k, NEW l, Meant(s, k),
         \A m \in Msgs : Count(s, m) > 0 => l[m] = k[m]
  PROVE  Meant(s, l)
<1> SUFFICES ASSUME NEW i \in DOMAIN s, s[i].type = "INBOUND_RI_EVENT"
             PROVE  l[s[i].m] = "received"
  BY DEF Meant
<1>1. s[i].m \in Msgs /\ k[s[i].m] = "received"
  BY DEF Meant
<1>2. Count(s, s[i].m) \in Nat /\ Count(s, s[i].m) # 0
  BY CountType, CountNone
<1> QED BY <1>1, <1>2

\* What is left to show of a step: the counts, what the buffers held before the
\* unused ones are freed, and the events.
LEMMA StepSound ==
  ASSUME NEW k \in [Msgs -> KindSet], kind' = FreeUnused(k), ref' \in [Msgs -> Int], TypeOK,
         q' \in Seq(Ev), trans' \subseteq Msgs, tracked' \subseteq Msgs,
         \A m \in Msgs : /\ ref'[m] >= Held(m)'
                         /\ m \notin leaked' => ref'[m] = Held(m)'
                         /\ ref'[m] > 0 => k[m] # "free",
         Meant(q', k), \A m \in trans' : k[m] \in ConKinds,
         \A i \in Records : cache'[i] \notin trans'
  PROVE  Sound' /\ kind' \in [Msgs -> KindSet] /\ ref' \in [Msgs -> Nat]
<1>1. \A m \in Msgs : /\ Count(q', m) \in Nat /\ Held(m)' \in Nat /\ Held(m)' >= Count(q', m)
                      /\ m \in trans' => Held(m)' > 0
  <2> SUFFICES ASSUME NEW m \in Msgs
               PROVE  /\ Count(q', m) \in Nat /\ Held(m)' \in Nat /\ Held(m)' >= Count(q', m)
                      /\ m \in trans' => Held(m)' > 0
    OBVIOUS
  <2>1. Count(q', m) \in Nat
    BY CountType
  <2>2. One(m \in trans') \in {0, 1} /\ One(m \in tracked') \in {0, 1}
        /\ (m \in trans' => One(m \in trans') = 1)
    BY DEF One
  <2>3. Held(m)' = Count(q', m) + One(m \in trans') + One(m \in tracked')
    BY DEF Held, Count, At
  <2> QED BY <2>1, <2>2, <2>3
<1>2. ref' \in [Msgs -> Nat]
  BY <1>1
<1>3. \A m \in Msgs : kind'[m] = IF ref'[m] = 0 THEN "free" ELSE k[m]
  BY <1>2 DEF FreeUnused
<1>4. kind' \in [Msgs -> KindSet]
  BY DEF FreeUnused, KindSet
<1>5. \A m \in Msgs : kind'[m] = "free" <=> ref'[m] = 0
  BY <1>2, <1>3
<1>6. \A m \in Msgs : Held(m)' > 0 => kind'[m] = k[m]
  BY <1>1, <1>2, <1>3
<1>7. Meant(q', kind')
  <2>1. \A m \in Msgs : Count(q', m) > 0 => kind'[m] = k[m]
    BY <1>1, <1>6
  <2> DEFINE s == q'
             l == kind'
  <2>2. s \in Seq(Ev) /\ Meant(s, k) /\ \A m \in Msgs : Count(s, m) > 0 => l[m] = k[m]
    BY <2>1
  <2> HIDE DEF s, l
  <2>3. Meant(s, l)
    BY <2>2, MeantKinds
  <2> QED BY <2>3 DEF s, l
<1>8. Keeps'
  BY <1>1, <1>6 DEF Keeps
<1>9. Accounts'
  BY <1>5 DEF Accounts
<1> QED BY <1>2, <1>4, <1>7, <1>8, <1>9 DEF Sound, Apart, Meant

-----------------------------------------------------------------------------
(* What the steps have in common.                                          *)

\* Event e means what its type says, for buffers that hold k.
Fits(e, k) ==
  IF e.type \in {"TIMER_ENGINE", "TIMER_CALLBACKS"} THEN e.m = NoMsg
  ELSE e.m \in Msgs /\ (e.type = "INBOUND_RI_EVENT" => k[e.m] = "received")

LEMMA Posted ==
  ASSUME NEW s \in Seq(Ev), NEW e \in Ev, NEW k, Meant(s, k), Fits(e, k), q' = Append(s, e)
  PROVE  /\ q' \in Seq(Ev) /\ Meant(q', k)
         /\ \A m : Count(q', m) = Count(s, m) + One(e.m = m)
<1> DEFINE t == Append(s, e)
<1>1. /\ t \in Seq(Ev) /\ DOMAIN t = 1 .. Len(s) + 1 /\ t[Len(s) + 1] = e /\ Len(s) \in Nat
      /\ DOMAIN s = 1 .. Len(s) /\ \A i \in 1 .. Len(s) : t[i] = s[i]
  OBVIOUS
<1>2. \A i \in DOMAIN t : i = Len(s) + 1 \/ i \in DOMAIN s
  BY <1>1
<1>3. Meant(t, k)
  BY <1>1, <1>2 DEF Meant, Fits
<1>4. \A m : Count(t, m) = Count(s, m) + One(e.m = m)
  BY CountAppend
<1>5. q' = t
  OBVIOUS
<1> HIDE DEF t
<1> QED BY <1>1, <1>3, <1>4, <1>5

\* The first event is taken.
LEMMA Taken ==
  ASSUME TypeOK, Meant(q, kind), NEW t, Turn(t)
  PROVE  /\ Tail(q) \in Seq(Ev) /\ Meant(Tail(q), kind)
         /\ \A m : Count(Tail(q), m) = Count(q, m) - One(M = m)
         /\ Count(q, M) > 0
         /\ t \in {"TIMER_ENGINE", "TIMER_CALLBACKS"} => M = NoMsg
         /\ t \in EventTypes \ {"TIMER_ENGINE", "TIMER_CALLBACKS"} => M \in Msgs
         /\ t = "INBOUND_RI_EVENT" => kind[M] = "received"
<1> DEFINE s == Tail(q)
<1>1. q \in Seq(Ev) /\ q # << >> /\ Head(q).type = t /\ M = Head(q).m
  BY DEF TypeOK, Ev, Turn, M
<1>2. /\ Len(q) \in Nat /\ Len(q) > 0 /\ DOMAIN q = 1 .. Len(q) /\ Head(q) = q[1]
      /\ s \in Seq(Ev) /\ DOMAIN s = 1 .. Len(q) - 1
      /\ \A i \in 1 .. Len(q) - 1 : s[i] = q[i + 1]
  BY <1>1
<1>3. \A i \in DOMAIN s : i + 1 \in DOMAIN q /\ s[i] = q[i + 1]
  BY <1>2
<1>4. 1 \in DOMAIN q
  BY <1>2
<1> HIDE DEF s
<1>5. Meant(s, kind)
  BY <1>3 DEF Meant
<1>6. /\ t \in {"TIMER_ENGINE", "TIMER_CALLBACKS"} => M = NoMsg
      /\ t \in EventTypes \ {"TIMER_ENGINE", "TIMER_CALLBACKS"} => M \in Msgs
      /\ t = "INBOUND_RI_EVENT" => kind[M] = "received"
  BY <1>1, <1>2, <1>4 DEF Meant
<1>7. Count(q, M) # 0 /\ Count(q, M) \in Nat
  BY <1>1, <1>2, <1>4, CountNone, CountType
<1>8. \A m : Count(s, m) = Count(q, m) - One(M = m)
  BY <1>1, CountTail DEF s
<1> QED BY <1>2, <1>5, <1>6, <1>7, <1>8 DEF s

LEMMA EventIn ==
  ASSUME NEW t \in EventTypes, NEW m \in Msgs \cup {NoMsg}
  PROVE  Event(t, m) \in Ev /\ Event(t, m).m = m /\ Event(t, m).type = t
BY DEF Event, Ev

\* A free buffer is nowhere.
LEMMA FreeIsNowhere ==
  ASSUME TypeOK, Accounts, NEW m \in Msgs, kind[m] = "free"
  PROVE  ref[m] = 0 /\ Held(m) = 0 /\ Count(q, m) = 0 /\ m \notin trans /\ m \notin tracked
BY HeldType DEF Accounts

\* A buffer with a pointer to it is in use.
LEMMA HeldInUse ==
  ASSUME TypeOK, Accounts, NEW m \in Msgs, Count(q, m) > 0 \/ m \in trans \/ m \in tracked
  PROVE  ref[m] > 0 /\ kind[m] # "free" /\ ref[m] \in Nat
<1>1. Held(m) > 0 /\ ref[m] >= Held(m) /\ Held(m) \in Nat /\ ref[m] \in Nat
  BY HeldType DEF Accounts, TypeOK
<1> QED BY <1>1 DEF Accounts

LEMMA HeldNext ==
  ASSUME NEW m
  PROVE  Held(m)' = Count(q', m) + One(m \in trans') + One(m \in tracked')
BY DEF Held, Count, At

LEMMA KindFree ==
  ASSUME TypeOK, Accounts
  PROVE  \A m \in Msgs : ref[m] > 0 => kind[m] # "free"
BY DEF Accounts, TypeOK

-----------------------------------------------------------------------------
(* The steps.                                                              *)

\* A handler passes its message on, or drops its reference to it.
LEMMA PassOnSound ==
  ASSUME TypeOK, Sound, NEW t \in EventTypes \ {"TIMER_ENGINE", "TIMER_CALLBACKS"}, Turn(t),
         NEW es, NEW drop, PassOn(es, drop),
         \/ es = << >> /\ drop = {M}
         \/ /\ drop = {}
            /\ \E u \in {"OUTBOUND_GROUP_OSCORE_EVENT", "OUTBOUND_OSCORE_EVENT"} :
                 es = <<Event(u, M)>>
  PROVE  TypeOK' /\ Sound'
<1>1. /\ Tail(q) \in Seq(Ev) /\ Meant(Tail(q), kind) /\ M \in Msgs
      /\ \A m : Count(Tail(q), m) = Count(q, m) - One(M = m)
  BY Taken DEF Sound
<1>2. /\ q' = IF es = << >> THEN Tail(q) ELSE Append(Tail(q), es[1])
      /\ ref' = Unref(ref, drop) /\ kind' = FreeUnused(kind)
      /\ UNCHANGED <<doing, trans, cache, tracked, tm, leaked, broken>>
  BY DEF PassOn
<1>3. /\ q' \in Seq(Ev) /\ Meant(q', kind)
      /\ \A m \in Msgs : Count(q', m) = Count(q, m) - One(m \in drop)
  <2>1. CASE es = << >> /\ drop = {M}
    BY <1>1, <1>2, <2>1 DEF One
  <2>2. CASE drop = {} /\ \E u \in {"OUTBOUND_GROUP_OSCORE_EVENT", "OUTBOUND_OSCORE_EVENT"} :
                            es = <<Event(u, M)>>
    <3>1. PICK u \in {"OUTBOUND_GROUP_OSCORE_EVENT", "OUTBOUND_OSCORE_EVENT"} :
            es = <<Event(u, M)>>
      BY <2>2
    <3> DEFINE e == Event(u, M)
    <3>2. e \in Ev /\ e.m = M /\ Fits(e, kind)
      BY <1>1, EventIn DEF Fits, EventTypes
    <3>3. q' = Append(Tail(q), e)
      BY <1>2, <3>1
    <3> HIDE DEF e
    <3>4. /\ q' \in Seq(Ev) /\ Meant(q', kind)
          /\ \A m : Count(q', m) = Count(Tail(q), m) + One(e.m = m)
      BY <1>1, <3>2, <3>3, Posted
    <3>5. \A m \in Msgs : Count(q, m) \in Nat /\ One(M = m) \in {0, 1}
      BY HeldType DEF One
    <3> QED BY <1>1, <2>2, <3>2, <3>4, <3>5 DEF One
  <2> QED BY <2>1, <2>2
<1>4. \A m \in Msgs : ref'[m] = ref[m] - One(m \in drop) /\ Held(m)' = Held(m) - One(m \in drop)
  <2> SUFFICES ASSUME NEW m \in Msgs
               PROVE  ref'[m] = ref[m] - One(m \in drop) /\ Held(m)' = Held(m) - One(m \in drop)
    OBVIOUS
  <2>1. ref'[m] = ref[m] - One(m \in drop)
    BY <1>2 DEF Unref, One, TypeOK
  <2>2. Held(m)' = Count(q', m) + One(m \in trans) + One(m \in tracked)
    BY <1>2, HeldNext
  <2>3. Count(q, m) \in Nat /\ One(m \in trans) \in {0, 1} /\ One(m \in tracked) \in {0, 1}
        /\ One(m \in drop) \in {0, 1}
    BY HeldType DEF One
  <2> QED BY <1>3, <2>1, <2>2, <2>3 DEF Held
<1>5. ref' \in [Msgs -> Int] /\ kind \in [Msgs -> KindSet]
  BY <1>2 DEF Unref, TypeOK, KindSet
<1>6. \A m \in Msgs : /\ ref'[m] >= Held(m)'
                      /\ m \notin leaked' => ref'[m] = Held(m)'
                      /\ ref'[m] > 0 => kind[m] # "free"
  <2> SUFFICES ASSUME NEW m \in Msgs
               PROVE  /\ ref'[m] >= Held(m)'
                      /\ m \notin leaked' => ref'[m] = Held(m)'
                      /\ ref'[m] > 0 => kind[m] # "free"
    OBVIOUS
  <2>1. /\ Held(m) \in Nat /\ One(m \in drop) \in {0, 1} /\ ref[m] \in Nat
        /\ ref[m] >= Held(m) /\ (m \notin leaked => ref[m] = Held(m))
        /\ (ref[m] > 0 => kind[m] # "free")
    BY HeldType, KindFree DEF One, TypeOK, Accounts, Sound
  <2> QED BY <1>2, <1>4, <2>1
<1>7. Sound' /\ kind' \in [Msgs -> KindSet] /\ ref' \in [Msgs -> Nat]
  <2>1. trans' \subseteq Msgs /\ tracked' \subseteq Msgs
        /\ (\A m \in trans' : kind[m] \in ConKinds) /\ \A i \in Records : cache'[i] \notin trans'
    BY <1>2 DEF TypeOK, Sound, Keeps, Apart
  <2> QED BY <1>2, <1>3, <1>5, <1>6, <2>1, StepSound
<1> QED BY <1>2, <1>3, <1>7 DEF TypeOK, Ev, KindSet

\* The three things to show of a buffer: its pointers and references change
\* alike, ...
LEMMA Balance ==
  ASSUME TypeOK, Accounts, NEW m \in Msgs, NEW k, NEW d \in Int,
         ref'[m] = ref[m] + d, Held(m)' = Held(m) + d, m \notin leaked' => m \notin leaked,
         k[m] = kind[m], d <= 0 \/ Held(m) > 0
  PROVE  /\ ref'[m] >= Held(m)' /\ (m \notin leaked' => ref'[m] = Held(m)')
         /\ (ref'[m] > 0 => k[m] # "free")
<1>1. /\ Held(m) \in Nat /\ ref[m] \in Nat /\ ref[m] >= Held(m)
      /\ (m \notin leaked => ref[m] = Held(m))
      /\ (ref[m] > 0 => kind[m] # "free")
  BY HeldType, KindFree DEF TypeOK, Accounts
<1> QED BY <1>1

\* ... or it was free, and is filled.
LEMMA NewHeld ==
  ASSUME TypeOK, Accounts, NEW m \in Msgs, kind[m] = "free"
  PROVE  /\ ref[m] = 0 /\ Count(q, m) = 0 /\ One(m \in trans) = 0 /\ One(m \in tracked) = 0
BY FreeIsNowhere DEF One

LEMMA KindSame ==
  ASSUME NEW k \in [Msgs -> KindSet], kind' = k, \A m \in Msgs : ref'[m] <= 0 => k[m] = "free"
  PROVE  kind' = FreeUnused(k)
BY DEF FreeUnused

LEMMA NetReceiveSound ==
  ASSUME TypeOK, Sound, NEW n \in Msgs, NetReceive(n)
  PROVE  TypeOK' /\ Sound'
<1> DEFINE k == [kind EXCEPT ![n] = "received"]
           e == Event("INBOUND_RI_EVENT", n)
<1>1. /\ kind[n] = "free" /\ q' = Append(q, e) /\ ref' = [ref EXCEPT ![n] = 1] /\ kind' = k
      /\ UNCHANGED <<doing, trans, cache, tracked, tm, leaked, broken>>
  BY DEF NetReceive, Free
<1>2. k \in [Msgs -> KindSet] /\ k[n] = "received" /\ \A m \in Msgs : m # n => k[m] = kind[m]
  BY DEF TypeOK, KindSet
<1>3. Accounts /\ Meant(q, kind) /\ q \in Seq(Ev)
  BY DEF Sound, TypeOK, Ev
<1>4. ref[n] = 0 /\ Count(q, n) = 0 /\ One(n \in trans) = 0 /\ One(n \in tracked) = 0
  BY <1>1, <1>3, NewHeld
<1>5. e \in Ev /\ e.m = n /\ Fits(e, k)
  BY <1>2, EventIn DEF Fits, EventTypes
<1> HIDE DEF k, e
<1>6. Meant(q, k)
  <2>1. \A m \in Msgs : Count(q, m) > 0 => k[m] = kind[m]
    BY <1>2, <1>4
  <2> QED BY <1>3, <2>1, MeantKinds
<1>7. /\ q' \in Seq(Ev) /\ Meant(q', k) /\ \A m : Count(q', m) = Count(q, m) + One(e.m = m)
  BY <1>1, <1>3, <1>5, <1>6, Posted
<1>8. \A m \in Msgs : /\ ref'[m] >= Held(m)' /\ (m \notin leaked' => ref'[m] = Held(m)')
                      /\ (ref'[m] > 0 => k[m] # "free")
  <2> SUFFICES ASSUME NEW m \in Msgs
               PROVE  /\ ref'[m] >= Held(m)' /\ (m \notin leaked' => ref'[m] = Held(m)')
                      /\ (ref'[m] > 0 => k[m] # "free")
    OBVIOUS
  <2>1. Held(m)' = Count(q', m) + One(m \in trans) + One(m \in tracked)
    BY <1>1, HeldNext
  <2>2. CASE m = n
    <3>1. ref'[m] = 1 /\ Held(m)' = 1
      BY <1>1, <1>4, <1>5, <1>7, <2>1, <2>2 DEF One, TypeOK
    <3> QED BY <1>2, <2>2, <3>1
  <2>3. CASE m # n
    <3>1. Count(q', m) = Count(q, m) /\ Count(q, m) \in Nat
      BY <1>5, <1>7, <2>3, HeldType DEF One
    <3> DEFINE d == 0
    <3>2. Held(m)' = Held(m) + d /\ ref'[m] = ref[m] + d /\ d \in Int /\ d <= 0
      BY <1>1, <2>1, <2>3, <3>1 DEF Held, TypeOK, One
    <3> HIDE DEF d
    <3> QED BY <1>1, <1>2, <1>3, <2>3, <3>2, Balance
  <2> QED BY <2>2, <2>3
<1>9. /\ ref' \in [Msgs -> Int] /\ kind' = FreeUnused(k)
  <2>1. \A m \in Msgs : ref'[m] <= 0 => k[m] = "free"
    BY <1>1, <1>2, <1>3 DEF TypeOK, Accounts
  <2>2. kind' = FreeUnused(k)
    BY <1>1, <1>2, <2>1, KindSame
  <2>3. ref' \in [Msgs -> Int]
    BY <1>1 DEF TypeOK
  <2> QED BY <2>2, <2>3
<1>10. /\ trans' \subseteq Msgs /\ tracked' \subseteq Msgs
       /\ (\A m \in trans' : k[m] \in ConKinds) /\ \A i \in Records : cache'[i] \notin trans'
  <2>1. n \notin trans
    BY <1>4 DEF One
  <2> QED BY <1>1, <1>2, <2>1 DEF TypeOK, Sound, Keeps, Apart
<1>11. Sound' /\ kind' \in [Msgs -> KindSet] /\ ref' \in [Msgs -> Nat]
  BY <1>2, <1>7, <1>8, <1>9, <1>10, StepSound
<1> QED BY <1>1, <1>7, <1>11 DEF TypeOK, Ev, KindSet

\* A handler takes its message and posts event e of a new buffer n; buffers of F,
\* all free so far, are filled, and k is what the buffers then hold.
LEMMA TakeAndFill ==
  ASSUME TypeOK, Sound, NEW t \in EventTypes \ {"TIMER_ENGINE", "TIMER_CALLBACKS"}, Turn(t),
         NEW F \in SUBSET Msgs, \A m \in F : kind[m] = "free", NEW n \in F,
         NEW u \in {"OUTBOUND_NETWORK_EVENT", "OUTBOUND_NETWORK_EVENT_ENCRYPTED"},
         q' = Append(Tail(q), Event(u, n)),
         NEW k, \A m \in Msgs \ F : k[m] = kind[m]
  PROVE  /\ q' \in Seq(Ev) /\ Meant(q', k) /\ M \in Msgs \ F /\ Count(q, M) > 0
         /\ \A m : Count(q', m) = Count(q, m) - One(M = m) + One(n = m)
         /\ \A m \in F : ref[m] = 0 /\ Count(q, m) = 0 /\ m \notin trans /\ m \notin tracked
<1> DEFINE e == Event(u, n)
           s == Tail(q)
<1>1. Accounts /\ Meant(q, kind) /\ q \in Seq(Ev)
  BY DEF Sound, TypeOK, Ev
<1>2. \A m \in F : ref[m] = 0 /\ Count(q, m) = 0 /\ m \notin trans /\ m \notin tracked
  BY <1>1, FreeIsNowhere
<1>3. e \in Ev /\ e.m = n /\ Fits(e, k)
  BY EventIn DEF Fits, EventTypes
<1>4. /\ s \in Seq(Ev) /\ Meant(s, kind) /\ M \in Msgs /\ Count(q, M) > 0
      /\ \A m : Count(s, m) = Count(q, m) - One(M = m)
  BY <1>1, Taken
<1>5. M \notin F
  BY <1>2, <1>4
<1>6. q' = Append(s, e)
  OBVIOUS
<1> HIDE DEF e, s
<1>7. Meant(s, k)
  <2>1. \A m \in Msgs : Count(s, m) > 0 => k[m] = kind[m]
    <3> SUFFICES ASSUME NEW m \in F, Count(s, m) > 0 PROVE FALSE
      OBVIOUS
    <3>1. Count(s, m) = 0 - One(M = m) /\ One(M = m) = 0
      BY <1>2, <1>4, <1>5 DEF One
    <3> QED BY <3>1
  <2> QED BY <1>4, <2>1, MeantKinds
<1>8. /\ q' \in Seq(Ev) /\ Meant(q', k) /\ \A m : Count(q', m) = Count(s, m) + One(e.m = m)
  BY <1>3, <1>4, <1>6, <1>7, Posted
<1> QED BY <1>2, <1>3, <1>4, <1>5, <1>8

LEMMA OscoreSendSound ==
  ASSUME TypeOK, Sound, NEW n \in Msgs, OscoreSend(n)
  PROVE  TypeOK' /\ Sound'
<1> DEFINE k == [kind EXCEPT ![n] = "encrypted"]
<1>1. /\ Turn("OUTBOUND_OSCORE_EVENT") /\ kind[n] = "free" /\ q' = Append(Tail(q), Event("OUTBOUND_NETWORK_EVENT_ENCRYPTED", n))
      /\ ref' = Unref([ref EXCEPT ![n] = 1], {M}) /\ kind' = FreeUnused(k)
      /\ UNCHANGED <<doing, trans, cache, tracked, tm, leaked, broken>>
  BY DEF OscoreSend, Free
<1>2. k \in [Msgs -> KindSet] /\ k[n] = "encrypted" /\ \A m \in Msgs : m # n => k[m] = kind[m]
  BY DEF TypeOK, KindSet
<1>3. Accounts
  BY DEF Sound
<1> HIDE DEF k
<1>4. /\ q' \in Seq(Ev) /\ Meant(q', k) /\ M \in Msgs /\ M # n
      /\ \A m : Count(q', m) = Count(q, m) - One(M = m) + One(n = m)
      /\ ref[n] = 0 /\ Count(q, n) = 0 /\ n \notin trans /\ n \notin tracked
  <2> DEFINE F == {n}
  <2>1. /\ F \in SUBSET Msgs /\ n \in F /\ \A m \in F : kind[m] = "free"
        /\ \A m \in Msgs \ F : k[m] = kind[m]
    BY <1>1, <1>2
  <2>2. \A m : m \in F <=> m = n
    OBVIOUS
  <2> HIDE DEF F
  <2>3. "OUTBOUND_OSCORE_EVENT" \in EventTypes \ {"TIMER_ENGINE", "TIMER_CALLBACKS"}
    BY DEF EventTypes
  <2> QED BY <1>1, <2>1, <2>2, <2>3, TakeAndFill
<1>8. \A m \in Msgs : /\ ref'[m] >= Held(m)' /\ (m \notin leaked' => ref'[m] = Held(m)')
                      /\ (ref'[m] > 0 => k[m] # "free")
  <2> SUFFICES ASSUME NEW m \in Msgs
               PROVE  /\ ref'[m] >= Held(m)' /\ (m \notin leaked' => ref'[m] = Held(m)')
                      /\ (ref'[m] > 0 => k[m] # "free")
    OBVIOUS
  <2>1. Held(m)' = Count(q', m) + One(m \in trans) + One(m \in tracked)
    BY <1>1, HeldNext
  <2>2. CASE m = n
    <3>1. ref'[m] = 1 /\ Held(m)' = 1
      BY <1>1, <1>4, <2>1, <2>2 DEF One, TypeOK, Unref
    <3> QED BY <1>2, <2>2, <3>1
  <2>3. CASE m # n
    <3> DEFINE d == - One(M = m)
    <3>1. Count(q', m) = Count(q, m) + d /\ Count(q, m) \in Nat /\ d \in Int /\ d <= 0
      BY <1>4, <2>3, HeldType DEF One
    <3>2. ref'[m] = ref[m] + d
      BY <1>1, <2>3 DEF TypeOK, One, Unref
    <3> HIDE DEF d
    <3>3. One(m \in trans) \in {0, 1} /\ One(m \in tracked) \in {0, 1}
      BY DEF One
    <3>4. Held(m)' = Held(m) + d
      BY <2>1, <3>1, <3>3 DEF Held
    <3> QED BY <1>1, <1>2, <1>3, <2>3, <3>1, <3>2, <3>4, Balance
  <2> QED BY <2>2, <2>3
<1>9. ref' \in [Msgs -> Int]
  BY <1>1 DEF TypeOK, Unref
<1>10. /\ trans' \subseteq Msgs /\ tracked' \subseteq Msgs
       /\ (\A m \in trans' : k[m] \in ConKinds) /\ \A i \in Records : cache'[i] \notin trans'
  BY <1>1, <1>2, <1>4 DEF TypeOK, Sound, Keeps, Apart
<1>11. Sound' /\ kind' \in [Msgs -> KindSet] /\ ref' \in [Msgs -> Nat]
  <2>1. kind' = FreeUnused(k) /\ k \in [Msgs -> KindSet] /\ q' \in Seq(Ev) /\ Meant(q', k)
    BY <1>1, <1>2, <1>4
  <2>2. trans' \subseteq Msgs /\ tracked' \subseteq Msgs /\ (\A m \in trans' : k[m] \in ConKinds)
    BY <1>10
  <2>3. \A i \in Records : cache'[i] \notin trans'
    BY <1>10
  <2> QED BY <1>8, <1>9, <2>1, <2>2, <2>3, StepSound
<1> QED BY <1>1, <1>4, <1>11 DEF TypeOK, Ev, KindSet

LEMMA OneType == \A b : One(b) \in {0, 1} /\ (b => One(b) = 1) /\ (~b => One(b) = 0)
BY DEF One

LEMMA SendKind ==
  ASSUME NEW s \in Sends
  PROVE  s.kind \in KindSet \ {"free", "received"} /\ s.con \in BOOLEAN /\ (s.con => s.kind \in ConKinds)
BY BufferAssumption DEF KindSet, ConKinds

LEMMA EngineSendSound ==
  ASSUME TypeOK, Sound, NEW s \in Sends, NEW n \in Msgs, EngineSend(s, n)
  PROVE  TypeOK' /\ Sound'
<1> DEFINE k == [kind EXCEPT ![n] = s.kind]
           rec == IF s.secured /\ ~s.con THEN FindEmptyMsgRecord ELSE {}
           kept == s.con \/ rec # {}
<1>1. /\ Turn("INBOUND_RI_EVENT") /\ kind[n] = "free" /\ \A i \in Records : cache[i] # n
      /\ q' = Append(Tail(q), Event("OUTBOUND_NETWORK_EVENT", n))
      /\ ref' = Unref([ref EXCEPT ![n] = IF kept THEN 2 ELSE 1], {M}) /\ kind' = FreeUnused(k)
      /\ trans' = IF s.con THEN trans \cup {n} ELSE trans
      /\ tracked' = IF rec # {} THEN tracked \cup {n} ELSE tracked
      /\ cache' = [i \in Records |-> IF i \in rec THEN n ELSE cache[i]]
      /\ tm' = IF kept THEN [tm EXCEPT ![n] = "armed"] ELSE tm
      /\ UNCHANGED <<doing, leaked, broken>>
  BY DEF EngineSend, Free
<1>2. /\ k \in [Msgs -> KindSet] /\ k[n] = s.kind /\ s.kind # "free"
      /\ \A m \in Msgs : m # n => k[m] = kind[m]
  BY SendKind DEF TypeOK, KindSet
<1>3. Accounts /\ (rec # {} => ~s.con)
  BY DEF Sound
<1> HIDE DEF k, rec
<1>4. /\ q' \in Seq(Ev) /\ Meant(q', k) /\ M \in Msgs /\ M # n
      /\ \A m : Count(q', m) = Count(q, m) - One(M = m) + One(n = m)
      /\ ref[n] = 0 /\ Count(q, n) = 0 /\ n \notin trans /\ n \notin tracked
  <2> DEFINE F == {n}
  <2>1. /\ F \in SUBSET Msgs /\ n \in F /\ \A m \in F : kind[m] = "free"
        /\ \A m \in Msgs \ F : k[m] = kind[m]
    BY <1>1, <1>2
  <2>2. \A m : m \in F <=> m = n
    OBVIOUS
  <2> HIDE DEF F
  <2>3. "INBOUND_RI_EVENT" \in EventTypes \ {"TIMER_ENGINE", "TIMER_CALLBACKS"}
    BY DEF EventTypes
  <2> QED BY <1>1, <2>1, <2>2, <2>3, TakeAndFill
<1>5. \A m \in Msgs : /\ ref'[m] >= Held(m)' /\ (m \notin leaked' => ref'[m] = Held(m)')
                      /\ (ref'[m] > 0 => k[m] # "free")
  <2> SUFFICES ASSUME NEW m \in Msgs
               PROVE  /\ ref'[m] >= Held(m)' /\ (m \notin leaked' => ref'[m] = Held(m)')
                      /\ (ref'[m] > 0 => k[m] # "free")
    OBVIOUS
  <2>1. Held(m)' = Count(q', m) + One(m \in trans') + One(m \in tracked')
    BY HeldNext
  <2>2. CASE m = n
    <3>1. ref'[m] = IF kept THEN 2 ELSE 1
      BY <1>1, <1>4, <2>2 DEF TypeOK, Unref
    <3>2. Count(q', m) = 1
      BY <1>4, <2>2 DEF One
    <3>3. One(m \in trans') + One(m \in tracked') = IF kept THEN 1 ELSE 0
      BY <1>1, <1>3, <1>4, <2>2, SendKind DEF One
    <3> HIDE DEF kept
    <3>4. ref'[m] = Held(m)'
      <4>1. One(m \in trans') \in {0, 1} /\ One(m \in tracked') \in {0, 1}
        BY DEF One
      <4>2. CASE kept
        BY <2>1, <3>1, <3>2, <3>3, <4>1, <4>2
      <4>3. CASE ~kept
        BY <2>1, <3>1, <3>2, <3>3, <4>1, <4>3
      <4> QED BY <4>2, <4>3
    <3>5. k[m] # "free"
      BY <1>2, <2>2
    <3>6. Held(m)' \in Nat
      BY <2>1, <3>2, OneType
    <3> QED BY <3>4, <3>5, <3>6
  <2>3. CASE m # n
    <3> DEFINE d == - One(M = m)
    <3>1. Count(q', m) = Count(q, m) + d /\ Count(q, m) \in Nat /\ d \in Int /\ d <= 0
      BY <1>4, <2>3, HeldType DEF One
    <3>2. ref'[m] = ref[m] + d
      BY <1>1, <2>3 DEF TypeOK, One, Unref
    <3>3. (m \in trans' <=> m \in trans) /\ (m \in tracked' <=> m \in tracked)
      BY <1>1, <2>3
    <3> HIDE DEF d
    <3>4. Held(m)' = Held(m) + d
      <4>1. One(m \in trans') = One(m \in trans) /\ One(m \in tracked') = One(m \in tracked)
        BY <3>3 DEF One
      <4> QED BY <2>1, <3>1, <4>1, OneType DEF Held
    <3> QED BY <1>1, <1>2, <1>3, <2>3, <3>1, <3>2, <3>4, Balance
  <2> QED BY <2>2, <2>3
<1>6. ref' \in [Msgs -> Int]
  BY <1>1 DEF TypeOK, Unref
<1>7. /\ trans' \subseteq Msgs /\ tracked' \subseteq Msgs
      /\ (\A m \in trans' : k[m] \in ConKinds) /\ \A i \in Records : cache'[i] \notin trans'
  <2>1. trans' \subseteq Msgs /\ tracked' \subseteq Msgs
    BY <1>1 DEF TypeOK
  <2>2. \A m \in trans' : k[m] \in ConKinds
    BY <1>1, <1>2, <1>4, SendKind DEF TypeOK, Sound, Keeps
  <2>3. \A i \in Records : cache'[i] \notin trans'
    BY <1>1, <1>3, <1>4 DEF Sound, Apart
  <2> QED BY <2>1, <2>2, <2>3
<1>8. Sound' /\ kind' \in [Msgs -> KindSet] /\ ref' \in [Msgs -> Nat]
  <2>1. kind' = FreeUnused(k)
    BY <1>1
  <2> QED BY <1>2, <1>4, <1>5, <1>6, <1>7, <2>1, StepSound
<1>9. cache' \in [Records -> Msgs \cup {NoMsg}] /\ tm' \in [Msgs -> {"idle", "armed", "posted"}]
  BY <1>1 DEF TypeOK
<1> QED BY <1>1, <1>4, <1>7, <1>8, <1>9 DEF TypeOK, Ev, KindSet

LEMMA EngineEchoSound ==
  ASSUME TypeOK, Sound, NEW t \in Msgs, NEW lost \in Msgs, NEW n \in Msgs, EngineEcho(t, lost, n)
  PROVE  TypeOK' /\ Sound'
<1> DEFINE k == [kind EXCEPT ![lost] = "empty", ![n] = kind[t]]
<1>1. /\ Turn("INBOUND_RI_EVENT") /\ kind[n] = "free" /\ kind[lost] = "free" /\ lost # n
      /\ \A i \in Records : cache[i] # n
      /\ t \in trans /\ leaked' = leaked \cup {lost}
      /\ q' = Append(Tail(q), Event("OUTBOUND_NETWORK_EVENT", n))
      /\ ref' = Unref([ref EXCEPT ![lost] = 1, ![n] = 2], {t, M}) /\ kind' = FreeUnused(k)
      /\ trans' = (trans \ {t}) \cup {n}
      /\ tm' = [tm EXCEPT ![t] = "idle", ![n] = "armed"]
      /\ UNCHANGED <<doing, cache, tracked, broken>>
  BY DEF EngineEcho, Free
<1>2. /\ k \in [Msgs -> KindSet] /\ k[n] = kind[t] /\ k[lost] = "empty"
      /\ \A m \in Msgs : m # n /\ m # lost => k[m] = kind[m]
  BY <1>1 DEF TypeOK, KindSet
<1>3. Accounts /\ kind[t] \in ConKinds /\ kind[t] # "free" /\ kind[t] # "received"
  BY <1>1, ConKindsAre DEF Sound, Keeps
<1> HIDE DEF k
<1>4. /\ q' \in Seq(Ev) /\ Meant(q', k) /\ M \in Msgs /\ M # n /\ M # lost
      /\ \A m : Count(q', m) = Count(q, m) - One(M = m) + One(n = m)
      /\ \A m \in {n, lost} : ref[m] = 0 /\ Count(q, m) = 0 /\ m \notin trans /\ m \notin tracked
  <2> DEFINE F == {n, lost}
  <2>1. /\ F \in SUBSET Msgs /\ n \in F /\ \A m \in F : kind[m] = "free"
        /\ \A m \in Msgs \ F : k[m] = kind[m]
    BY <1>1, <1>2
  <2>2. \A m : m \in F <=> m = n \/ m = lost
    OBVIOUS
  <2> HIDE DEF F
  <2>3. "INBOUND_RI_EVENT" \in EventTypes \ {"TIMER_ENGINE", "TIMER_CALLBACKS"}
    BY DEF EventTypes
  <2>4. /\ q' \in Seq(Ev) /\ Meant(q', k) /\ M \in Msgs \ F
        /\ \A m : Count(q', m) = Count(q, m) - One(M = m) + One(n = m)
        /\ \A m \in F : ref[m] = 0 /\ Count(q, m) = 0 /\ m \notin trans /\ m \notin tracked
    <3>1. Turn("INBOUND_RI_EVENT") /\ q' = Append(Tail(q), Event("OUTBOUND_NETWORK_EVENT", n))
      BY <1>1
    <3> DEFINE t1 == "INBOUND_RI_EVENT"
               u1 == "OUTBOUND_NETWORK_EVENT"
    <3>2. /\ t1 \in EventTypes \ {"TIMER_ENGINE", "TIMER_CALLBACKS"} /\ Turn(t1)
          /\ u1 \in {"OUTBOUND_NETWORK_EVENT", "OUTBOUND_NETWORK_EVENT_ENCRYPTED"}
          /\ q' = Append(Tail(q), Event(u1, n))
      BY <2>3, <3>1
    <3> HIDE DEF t1, u1
    <3>3. q' \in Seq(Ev) /\ Meant(q', k)
      BY <2>1, <3>2, TakeAndFill
    <3>4. M \in Msgs \ F
      BY <2>1, <3>2, TakeAndFill
    <3>5. \A m : Count(q', m) = Count(q, m) - One(M = m) + One(n = m)
      <4> SUFFICES ASSUME NEW m PROVE Count(q', m) = Count(q, m) - One(M = m) + One(n = m)
        OBVIOUS
      <4> DEFINE s == Tail(q)
                 e == Event(u1, n)
      <4>1. e \in Ev /\ e.m = n
        BY EventIn DEF EventTypes, u1
      <4>2. s \in Seq(Ev) /\ Count(s, m) = Count(q, m) - One(M = m)
        BY <1>3, <3>2, Taken DEF Sound
      <4>3. q' = Append(s, e)
        BY <3>2
      <4> HIDE DEF s, e
      <4>4. Count(Append(s, e), m) = Count(s, m) + One(e.m = m)
        BY <4>1, <4>2, CountAppend
      <4> QED BY <4>1, <4>2, <4>3, <4>4
    <3>6. \A m \in F : ref[m] = 0 /\ Count(q, m) = 0 /\ m \notin trans /\ m \notin tracked
      BY <2>1, <3>2, TakeAndFill
    <3> QED BY <3>3, <3>4, <3>5, <3>6
  <2> QED BY <2>2, <2>4 DEF F
<1>m. kind[M] = "received" /\ t # M
  BY <1>1, <1>3, Taken DEF Sound
<1>5. \A m \in Msgs : /\ ref'[m] >= Held(m)' /\ (m \notin leaked' => ref'[m] = Held(m)')
                      /\ (ref'[m] > 0 => k[m] # "free")
  <2> SUFFICES ASSUME NEW m \in Msgs
               PROVE  /\ ref'[m] >= Held(m)' /\ (m \notin leaked' => ref'[m] = Held(m)')
                      /\ (ref'[m] > 0 => k[m] # "free")
    OBVIOUS
  <2>1. Held(m)' = Count(q', m) + One(m \in trans') + One(m \in tracked)
    BY <1>1, HeldNext
  <2>2. CASE m = n
    <3>1. ref'[m] = 2
      BY <1>1, <1>4, <2>2 DEF TypeOK, Unref
    <3>2. Count(q', m) = 1 /\ One(m \in trans') = 1 /\ One(m \in tracked) = 0
      BY <1>1, <1>4, <2>2 DEF One
    <3> QED BY <1>2, <1>3, <2>1, <2>2, <3>1, <3>2
  <2>3. CASE m = lost
    <3>1. ref'[m] = 1
      BY <1>1, <1>4, <2>3 DEF TypeOK, Unref
    <3>2. Count(q', m) = 0 /\ One(m \in trans') = 0 /\ One(m \in tracked) = 0
      BY <1>1, <1>4, <2>3 DEF One
    <3> QED BY <1>1, <1>2, <2>1, <2>3, <3>1, <3>2
  <2>4. CASE m # n /\ m # lost
    <3> DEFINE d == - One(M = m) - One(t = m)
    <3>1. /\ Count(q', m) = Count(q, m) - One(M = m) /\ Count(q, m) \in Nat /\ d \in Int /\ d <= 0
          /\ One(m \in trans') = One(m \in trans) - One(t = m)
      <4>1. Count(q', m) = Count(q, m) - One(M = m) /\ Count(q, m) \in Nat
        BY <1>4, <2>4, HeldType DEF One
      <4>2. d \in Int /\ d <= 0
        BY DEF One
      <4>3. One(m \in trans') = One(m \in trans) - One(t = m)
        BY <1>1, <2>4 DEF One
      <4> QED BY <4>1, <4>2, <4>3
    <3>2. ref'[m] = ref[m] + d
      BY <1>1, <1>m, <2>4 DEF TypeOK, One, Unref
    <3>4. Held(m)' = Held(m) + d
      <4>1. One(M = m) \in {0, 1} /\ One(t = m) \in {0, 1} /\ One(m \in trans) \in {0, 1}
            /\ One(m \in tracked) \in {0, 1}
        BY DEF One
      <4> QED BY <2>1, <3>1, <4>1 DEF Held
    <3> HIDE DEF d
    <3> QED BY <1>1, <1>2, <1>3, <2>4, <3>1, <3>2, <3>4, Balance
  <2> QED BY <2>2, <2>3, <2>4
<1>6. ref' \in [Msgs -> Int]
  BY <1>1 DEF TypeOK, Unref
<1>7. /\ trans' \subseteq Msgs /\ tracked' \subseteq Msgs
      /\ (\A m \in trans' : k[m] \in ConKinds) /\ \A i \in Records : cache'[i] \notin trans'
  BY <1>1, <1>2, <1>3, <1>4 DEF TypeOK, Sound, Keeps, Apart
<1>8. Sound' /\ kind' \in [Msgs -> KindSet] /\ ref' \in [Msgs -> Nat]
  <2>1. kind' = FreeUnused(k)
    BY <1>1
  <2> QED BY <1>2, <1>4, <1>5, <1>6, <1>7, <2>1, StepSound
<1>9. tm' \in [Msgs -> {"idle", "armed", "posted"}] /\ leaked' \subseteq Msgs
  BY <1>1 DEF TypeOK
<1> QED BY <1>1, <1>4, <1>7, <1>8, <1>9 DEF TypeOK, Ev, KindSet

LEMMA EngineEchoCachedSound ==
  ASSUME TypeOK, Sound, NEW i \in Records, NEW n \in Msgs, EngineEchoCached(i, n)
  PROVE  TypeOK' /\ Sound'
<1> DEFINE old == cache[i]
           k == [kind EXCEPT ![n] = kind[old]]
           rec == FindEmptyMsgRecord
           kept == rec # {}
<1>1. /\ Turn("INBOUND_RI_EVENT") /\ kind[n] = "free" /\ \A j \in Records : cache[j] # n
      /\ old # NoMsg /\ Passed(old) /\ kind[old] # "free"
      /\ q' = Append(Tail(q), Event("OUTBOUND_NETWORK_EVENT", n))
      /\ ref' = Unref([ref EXCEPT ![n] = IF kept THEN 2 ELSE 1], {old, M})
      /\ kind' = FreeUnused(k)
      /\ cache' = [[j \in Records |-> IF j \in rec THEN n ELSE cache[j]]
                     EXCEPT ![FindRecordByMsg(old)] = NoMsg]
      /\ tracked' = (IF kept THEN tracked \cup {n} ELSE tracked) \ {old}
      /\ tm' = [tm EXCEPT ![n] = IF kept THEN "armed" ELSE @, ![old] = "idle"]
      /\ UNCHANGED <<doing, trans, leaked, broken>>
  BY DEF EngineEchoCached, Free
<1>2. old \in Msgs /\ old # n /\ old \notin trans
  BY <1>1 DEF TypeOK, Sound, Apart
<1>3. /\ k \in [Msgs -> KindSet] /\ k[n] = kind[old]
      /\ \A m \in Msgs : m # n => k[m] = kind[m]
  BY <1>2 DEF TypeOK, KindSet
<1>4. Accounts /\ Count(q, old) = 0
  <2>1. q \in Seq(Ev)
    BY DEF TypeOK, Ev
  <2> QED BY <1>1, <2>1, CountNone DEF Sound, Passed
<1> HIDE DEF k, rec, old
<1>5. /\ q' \in Seq(Ev) /\ Meant(q', k) /\ M \in Msgs /\ M # n /\ Count(q, M) > 0
      /\ \A m : Count(q', m) = Count(q, m) - One(M = m) + One(n = m)
      /\ ref[n] = 0 /\ Count(q, n) = 0 /\ n \notin trans /\ n \notin tracked
  <2> DEFINE F == {n}
  <2>1. /\ F \in SUBSET Msgs /\ n \in F /\ \A m \in F : kind[m] = "free"
        /\ \A m \in Msgs \ F : k[m] = kind[m]
    BY <1>1, <1>3
  <2>2. \A m : m \in F <=> m = n
    OBVIOUS
  <2> HIDE DEF F
  <2>3. "INBOUND_RI_EVENT" \in EventTypes \ {"TIMER_ENGINE", "TIMER_CALLBACKS"}
    BY DEF EventTypes
  <2> QED BY <1>1, <2>1, <2>2, <2>3, TakeAndFill
<1>6. M # old
  BY <1>4, <1>5
<1>7. \A m \in Msgs : /\ ref'[m] >= Held(m)' /\ (m \notin leaked' => ref'[m] = Held(m)')
                      /\ (ref'[m] > 0 => k[m] # "free")
  <2> SUFFICES ASSUME NEW m \in Msgs
               PROVE  /\ ref'[m] >= Held(m)' /\ (m \notin leaked' => ref'[m] = Held(m)')
                      /\ (ref'[m] > 0 => k[m] # "free")
    OBVIOUS
  <2>1. Held(m)' = Count(q', m) + One(m \in trans) + One(m \in tracked')
    BY <1>1, HeldNext
  <2>2. CASE m = n
    <3>1. ref'[m] = IF kept THEN 2 ELSE 1
      BY <1>1, <1>2, <1>5, <2>2 DEF TypeOK, Unref
    <3>2. Count(q', m) = 1 /\ One(m \in trans) = 0
      BY <1>5, <2>2 DEF One
    <3>3. One(m \in tracked') = IF kept THEN 1 ELSE 0
      BY <1>1, <1>2, <1>5, <2>2 DEF One
    <3>4. k[m] # "free"
      BY <1>1, <1>3, <2>2
    <3> HIDE DEF kept
    <3>5. CASE kept
      BY <2>1, <3>1, <3>2, <3>3, <3>4, <3>5
    <3>6. CASE ~kept
      BY <2>1, <3>1, <3>2, <3>3, <3>4, <3>6
    <3> QED BY <3>5, <3>6
  <2>3. CASE m = old
    <3>1. ref'[m] = ref[m] - 1 /\ k[m] = kind[m] /\ kind[m] # "free"
      BY <1>1, <1>2, <1>3, <2>3 DEF TypeOK, Unref
    <3>2. Count(q', m) = 0 /\ One(m \in trans) = 0 /\ One(m \in tracked') = 0
      BY <1>1, <1>2, <1>4, <1>6, <1>5, <2>3 DEF One
    <3>3. Held(m) = One(m \in tracked) /\ Held(m)' = 0
      BY <1>4, <2>1, <2>3, <3>2, OneType DEF Held
    <3>4. ref[m] \in Nat /\ ref[m] # 0 /\ ref[m] >= Held(m) /\ (m \notin leaked => ref[m] = Held(m))
      BY <1>4, <3>1 DEF TypeOK, Accounts
    <3>5. One(m \in tracked) \in {0, 1}
      BY DEF One
    <3> QED BY <1>1, <3>1, <3>3, <3>4, <3>5
  <2>4. CASE m # n /\ m # old
    <3> DEFINE d == - One(M = m)
    <3>1. Count(q', m) = Count(q, m) + d /\ Count(q, m) \in Nat /\ d \in Int /\ d <= 0
      BY <1>5, <2>4, HeldType DEF One
    <3>2. ref'[m] = ref[m] + d
      BY <1>1, <2>4 DEF TypeOK, One, Unref
    <3>3. m \in tracked' <=> m \in tracked
      BY <1>1, <2>4
    <3> HIDE DEF d
    <3>4. Held(m)' = Held(m) + d
      <4>1. One(m \in tracked') = One(m \in tracked) /\ One(m \in tracked) \in {0, 1}
            /\ One(m \in trans) \in {0, 1}
        BY <3>3 DEF One
      <4> QED BY <2>1, <3>1, <4>1 DEF Held
    <3> QED BY <1>1, <1>3, <1>4, <2>4, <3>1, <3>2, <3>4, Balance
  <2> QED BY <2>2, <2>3, <2>4
<1>8. ref' \in [Msgs -> Int]
  BY <1>1 DEF TypeOK, Unref
<1>9. /\ trans' \subseteq Msgs /\ tracked' \subseteq Msgs
      /\ (\A m \in trans' : k[m] \in ConKinds) /\ \A j \in Records : cache'[j] \notin trans'
  <2>1. trans' \subseteq Msgs /\ tracked' \subseteq Msgs
    BY <1>1 DEF TypeOK
  <2>2. \A m \in trans' : k[m] \in ConKinds
    BY <1>1, <1>3, <1>5 DEF TypeOK, Sound, Keeps
  <2>3. \A j \in Records : cache'[j] = NoMsg \/ cache'[j] = n \/ cache'[j] = cache[j]
    BY <1>1
  <2>4. NoMsg \notin trans
    BY BufferAssumption DEF TypeOK
  <2> QED BY <1>1, <1>5, <2>1, <2>2, <2>3, <2>4 DEF Sound, Apart
<1>10. Sound' /\ kind' \in [Msgs -> KindSet] /\ ref' \in [Msgs -> Nat]
  <2>1. kind' = FreeUnused(k)
    BY <1>1
  <2> QED BY <1>3, <1>5, <1>7, <1>8, <1>9, <2>1, StepSound
<1>11. cache' \in [Records -> Msgs \cup {NoMsg}] /\ tm' \in [Msgs -> {"idle", "armed", "posted"}]
  BY <1>1 DEF TypeOK
<1> QED BY <1>1, <1>5, <1>9, <1>10, <1>11 DEF TypeOK, Ev, KindSet

\* A buffer is used or freed once too often: nothing is said after that.
LEMMA BreaksTyped ==
  ASSUME TypeOK, Sound, OscoreNoContext \/ EngineEchoBroken
  PROVE  TypeOK' /\ broken' /\ doing' = "event"
<1>1. Meant(q, kind) /\ Accounts
  BY DEF Sound
<1>2. CASE OscoreNoContext
  <2>1. /\ Turn("OUTBOUND_OSCORE_EVENT") /\ q' = Tail(q) /\ ref' = Unref(ref, {M})
        /\ kind' = FreeUnused(kind) /\ broken' = TRUE
        /\ UNCHANGED <<doing, trans, cache, tracked, tm, leaked>>
    BY <1>2 DEF OscoreNoContext
  <2>2. Tail(q) \in Seq(Ev) /\ M \in Msgs /\ Count(q, M) > 0
    <3>1. "OUTBOUND_OSCORE_EVENT" \in EventTypes \ {"TIMER_ENGINE", "TIMER_CALLBACKS"}
      BY DEF EventTypes
    <3> QED BY <1>1, <2>1, <3>1, Taken
  <2>3. ref[M] > 0 /\ ref[M] \in Nat
    BY <1>1, <2>2, HeldInUse
  <2>4. ref' \in [Msgs -> Nat] /\ kind' \in [Msgs -> KindSet]
    BY <2>1, <2>3 DEF TypeOK, Unref, FreeUnused, KindSet
  <2>5. doing = "event"
    BY <2>1 DEF Turn
  <2> QED BY <2>1, <2>2, <2>4, <2>5 DEF TypeOK, Ev, KindSet
<1>3. CASE EngineEchoBroken
  <2>1. /\ Turn("INBOUND_RI_EVENT") /\ q' = Tail(q) /\ broken' = TRUE
        /\ UNCHANGED <<doing, kind, ref, trans, cache, tracked, tm, leaked>>
    BY <1>3 DEF EngineEchoBroken
  <2>2. Tail(q) \in Seq(Ev)
    BY <1>1, <2>1, Taken
  <2>5. doing = "event"
    BY <2>1 DEF Turn
  <2> QED BY <2>1, <2>2, <2>5 DEF TypeOK, Ev
<1> QED BY <1>2, <1>3

\* The event of a message is taken and its reference is not dropped.
LEMMA OscoreNoMemorySound ==
  ASSUME TypeOK, Sound, OscoreNoMemory
  PROVE  TypeOK' /\ Sound'
<1>1. /\ Turn("OUTBOUND_OSCORE_EVENT") /\ q' = Tail(q) /\ leaked' = leaked \cup {M}
      /\ UNCHANGED <<doing, kind, ref, trans, cache, tracked, tm, broken>>
  BY DEF OscoreNoMemory
<1>2. /\ Tail(q) \in Seq(Ev) /\ Meant(Tail(q), kind) /\ M \in Msgs
      /\ \A m : Count(Tail(q), m) = Count(q, m) - One(M = m)
  <2>1. "OUTBOUND_OSCORE_EVENT" \in EventTypes \ {"TIMER_ENGINE", "TIMER_CALLBACKS"}
    BY DEF EventTypes
  <2> QED BY <1>1, <2>1, Taken DEF Sound
<1>3. Accounts'
  <2> SUFFICES ASSUME NEW m \in Msgs
               PROVE  /\ kind'[m] = "free" <=> ref'[m] = 0
                      /\ ref'[m] >= Held(m)'
                      /\ m \notin leaked' => ref'[m] = Held(m)'
    BY DEF Accounts
  <2>1. Held(m)' = Count(q', m) + One(m \in trans) + One(m \in tracked)
    BY <1>1, HeldNext
  <2>2. /\ Count(q, m) \in Nat /\ One(m \in trans) \in {0, 1} /\ One(m \in tracked) \in {0, 1}
        /\ One(M = m) \in {0, 1} /\ (M # m => One(M = m) = 0)
    BY HeldType DEF One
  <2>3. Held(m)' = Held(m) - One(M = m)
    BY <1>1, <1>2, <2>1, <2>2 DEF Held
  <2>4. /\ kind[m] = "free" <=> ref[m] = 0
        /\ ref[m] >= Held(m) /\ (m \notin leaked => ref[m] = Held(m))
        /\ ref[m] \in Nat /\ Held(m) \in Nat
    BY HeldType DEF Sound, Accounts, TypeOK
  <2> QED BY <1>1, <2>2, <2>3, <2>4
<1>4. Meant(q', kind')
  BY <1>1, <1>2
<1> QED BY <1>1, <1>2, <1>3, <1>4 DEF TypeOK, Ev, Sound, Keeps, Apart, Meant

\* No buffer is filled: d is what is added to the references of each.
LEMMA ChangeSound ==
  ASSUME TypeOK, Sound, q' \in Seq(Ev), Meant(q', kind), kind' = FreeUnused(kind), leaked' = leaked,
         ref' \in [Msgs -> Int], trans' \subseteq trans, tracked' \subseteq tracked,
         \A j \in Records : cache'[j] \in {cache[j], NoMsg},
         NEW d \in [Msgs -> Int],
         \A m \in Msgs : /\ ref'[m] = ref[m] + d[m] /\ Held(m)' = Held(m) + d[m]
                         /\ d[m] <= 0 \/ Held(m) > 0
  PROVE  Sound' /\ kind' \in [Msgs -> KindSet] /\ ref' \in [Msgs -> Nat]
<1>1. \A m \in Msgs : /\ ref'[m] >= Held(m)' /\ (m \notin leaked' => ref'[m] = Held(m)')
                      /\ (ref'[m] > 0 => kind[m] # "free")
  <2> SUFFICES ASSUME NEW m \in Msgs
               PROVE  /\ ref'[m] >= Held(m)' /\ (m \notin leaked' => ref'[m] = Held(m)')
                      /\ (ref'[m] > 0 => kind[m] # "free")
    OBVIOUS
  <2> DEFINE c == d[m]
  <2>1. c \in Int /\ ref'[m] = ref[m] + c /\ Held(m)' = Held(m) + c /\ (c <= 0 \/ Held(m) > 0)
    OBVIOUS
  <2> HIDE DEF c
  <2> QED BY <2>1, Balance DEF Sound
<1>2. /\ trans' \subseteq Msgs /\ tracked' \subseteq Msgs /\ kind \in [Msgs -> KindSet]
      /\ (\A m \in trans' : kind[m] \in ConKinds) /\ \A j \in Records : cache'[j] \notin trans'
  BY BufferAssumption DEF TypeOK, KindSet, Sound, Keeps, Apart
<1> QED BY <1>1, <1>2, StepSound

LEMMA TimerEventSound ==
  ASSUME TypeOK, Sound, TimerEvent
  PROVE  TypeOK' /\ Sound'
<1>1. PICK t \in {"TIMER_ENGINE", "TIMER_CALLBACKS"} : Turn(t)
  BY DEF TimerEvent
<1>2. /\ q' = Tail(q) /\ doing' \in {"callbacks", "transactions"}
      /\ UNCHANGED <<kind, ref, trans, cache, tracked, tm, leaked, broken>>
  BY DEF TimerEvent
<1>3. /\ Tail(q) \in Seq(Ev) /\ Meant(Tail(q), kind) /\ M = NoMsg
      /\ \A m : Count(Tail(q), m) = Count(q, m) - One(M = m)
  BY <1>1, Taken DEF Sound
<1>4. Accounts'
  <2> SUFFICES ASSUME NEW m \in Msgs
               PROVE  Held(m)' = Held(m)
    BY <1>2 DEF Accounts, Sound
  <2>1. Held(m)' = Count(q', m) + One(m \in trans) + One(m \in tracked)
    BY <1>2, HeldNext
  <2>2. Count(q', m) = Count(q, m)
    BY <1>2, <1>3, HeldType, BufferAssumption DEF One
  <2> QED BY <2>1, <2>2 DEF Held
<1>5. Meant(q', kind')
  BY <1>2, <1>3
<1> QED BY <1>2, <1>3, <1>4, <1>5 DEF TypeOK, Ev, Sound, Keeps, Apart, Meant

LEMMA TimersDoneSound ==
  ASSUME TypeOK, Sound, TimersDone
  PROVE  TypeOK' /\ Sound'
<1>1. /\ doing' = "event"
      /\ UNCHANGED <<q, kind, ref, trans, cache, tracked, tm, leaked, broken>>
  BY DEF TimersDone
<1> QED BY <1>1 DEF TypeOK, Sound, Accounts, Held, Count, At, Meant, Keeps, Apart

LEMMA EngineAnswerSound ==
  ASSUME TypeOK, Sound, NEW t \in Msgs, EngineAnswer(t)
  PROVE  TypeOK' /\ Sound'
<1> DEFINE d == [m \in Msgs |-> IF m \in {t, M} THEN -1 ELSE 0]
<1>1. /\ Turn("INBOUND_RI_EVENT") /\ t \in trans /\ q' = Tail(q) /\ trans' = trans \ {t}
      /\ ref' = Unref(Unref(ref, {t}), {M}) /\ kind' = FreeUnused(kind)
      /\ tm' = [tm EXCEPT ![t] = "idle"]
      /\ UNCHANGED <<doing, cache, tracked, leaked, broken>>
  BY DEF EngineAnswer, Clear
<1>2. /\ Tail(q) \in Seq(Ev) /\ Meant(Tail(q), kind) /\ kind[M] = "received" /\ M \in Msgs
      /\ \A m : Count(Tail(q), m) = Count(q, m) - One(M = m)
  <2>1. "INBOUND_RI_EVENT" \in EventTypes \ {"TIMER_ENGINE", "TIMER_CALLBACKS"}
    BY DEF EventTypes
  <2> QED BY <1>1, <2>1, Taken DEF Sound
<1>3. t # M
  BY <1>1, <1>2, ConKindsAre DEF Sound, Keeps
<1>4. \A m \in Msgs : /\ ref'[m] = ref[m] + d[m] /\ Held(m)' = Held(m) + d[m]
                      /\ d[m] <= 0 \/ Held(m) > 0
  <2> SUFFICES ASSUME NEW m \in Msgs
               PROVE  ref'[m] = ref[m] + d[m] /\ Held(m)' = Held(m) + d[m] /\ d[m] <= 0
    OBVIOUS
  <2>1. d[m] = - One(M = m) - One(t = m) /\ d[m] <= 0
    BY <1>3 DEF One
  <2>2. ref'[m] = ref[m] + d[m]
    BY <1>1, <1>3 DEF TypeOK, Unref
  <2>3. Held(m)' = Count(q', m) + One(m \in trans') + One(m \in tracked)
    BY <1>1, HeldNext
  <2>4. Count(q', m) = Count(q, m) - One(M = m) /\ Count(q, m) \in Nat
    BY <1>1, <1>2, HeldType
  <2>5. One(m \in trans') = One(m \in trans) - One(t = m)
    BY <1>1 DEF One
  <2>6. /\ One(m \in tracked) \in {0, 1} /\ One(m \in trans) \in {0, 1}
        /\ One(M = m) \in {0, 1} /\ One(t = m) \in {0, 1}
    BY DEF One
  <2> HIDE DEF d
  <2>7. Held(m)' = Held(m) + d[m]
    BY <2>1, <2>3, <2>4, <2>5, <2>6 DEF Held
  <2> QED BY <2>1, <2>2, <2>7
<1>5. d \in [Msgs -> Int]
  OBVIOUS
<1> HIDE DEF d
<1>6. ref' \in [Msgs -> Int] /\ tm' \in [Msgs -> {"idle", "armed", "posted"}]
  BY <1>1 DEF TypeOK, Unref
<1>7. Sound' /\ kind' \in [Msgs -> KindSet] /\ ref' \in [Msgs -> Nat]
  <2>1. q' \in Seq(Ev) /\ Meant(q', kind)
    BY <1>1, <1>2
  <2> QED BY <1>1, <1>4, <1>5, <1>6, <2>1, ChangeSound
<1> QED BY <1>1, <1>2, <1>6, <1>7 DEF TypeOK, Ev, KindSet

\* A transaction or a tracked message gives up its reference.
LEMMA GivesUpSound ==
  ASSUME TypeOK, Sound, NEW x \in Msgs, Timeout(x) \/ CallbackCache(x)
  PROVE  TypeOK' /\ Sound'
<1> DEFINE d == [m \in Msgs |-> IF m = x THEN -1 ELSE 0]
<1>1. /\ \A m \in Msgs : ref'[m] = ref[m] + d[m]
      /\ kind' = FreeUnused(kind) /\ tm' = [tm EXCEPT ![x] = "idle"]
      /\ UNCHANGED <<q, doing, leaked, broken>>
      /\ ref' \in [Msgs -> Int] /\ cache' \in [Records -> Msgs \cup {NoMsg}]
      /\ \A j \in Records : cache'[j] \in {cache[j], NoMsg}
      /\ \/ x \in trans /\ trans' = trans \ {x} /\ tracked' = tracked
         \/ x \in tracked /\ trans' = trans /\ tracked' = tracked \ {x}
  <2>1. CASE Timeout(x)
    <3>1. /\ x \in trans /\ trans' = trans \ {x} /\ ref' = Unref(Unref(ref, {x}), {})
          /\ kind' = FreeUnused(kind) /\ tm' = [tm EXCEPT ![x] = "idle"]
          /\ UNCHANGED <<q, doing, cache, tracked, leaked, broken>>
      BY <2>1 DEF Timeout, Clear
    <3>2. ref' \in [Msgs -> Int] /\ \A m \in Msgs : ref'[m] = ref[m] + d[m]
      BY <3>1 DEF Unref, TypeOK
    <3> QED BY <3>1, <3>2 DEF TypeOK
  <2>2. CASE CallbackCache(x)
    <3>1. /\ x \in tracked /\ tracked' = tracked \ {x} /\ ref' = Unref(ref, {x})
          /\ cache' = [cache EXCEPT ![0] = NoMsg]
          /\ kind' = FreeUnused(kind) /\ tm' = [tm EXCEPT ![x] = "idle"]
          /\ UNCHANGED <<q, doing, trans, leaked, broken>>
      BY <2>2 DEF CallbackCache, FindRecordByMsg
    <3>2. ref' \in [Msgs -> Int] /\ \A m \in Msgs : ref'[m] = ref[m] + d[m]
      BY <3>1 DEF Unref, TypeOK
    <3>3. cache' \in [Records -> Msgs \cup {NoMsg}] /\ \A j \in Records : cache'[j] \in {cache[j], NoMsg}
      BY <3>1 DEF TypeOK
    <3> QED BY <3>1, <3>2, <3>3
  <2> QED BY <2>1, <2>2
<1>2. \A m \in Msgs : /\ ref'[m] = ref[m] + d[m] /\ Held(m)' = Held(m) + d[m]
                      /\ d[m] <= 0 \/ Held(m) > 0
  <2> SUFFICES ASSUME NEW m \in Msgs
               PROVE  Held(m)' = Held(m) + d[m] /\ d[m] <= 0
    BY <1>1
  <2>1. d[m] = - One(x = m) /\ d[m] <= 0
    BY DEF One
  <2>2. Held(m)' = Count(q', m) + One(m \in trans') + One(m \in tracked')
    BY HeldNext
  <2>3. Count(q', m) = Count(q, m) /\ Count(q, m) \in Nat
    BY <1>1, HeldType
  <2>4. \/ One(m \in trans') = One(m \in trans) - One(x = m) /\ One(m \in tracked') = One(m \in tracked)
        \/ One(m \in trans') = One(m \in trans) /\ One(m \in tracked') = One(m \in tracked) - One(x = m)
    BY <1>1 DEF One
  <2>5. One(m \in tracked) \in {0, 1} /\ One(m \in trans) \in {0, 1} /\ One(x = m) \in {0, 1}
    BY DEF One
  <2> HIDE DEF d
  <2>6. Held(m)' = Held(m) + d[m]
    BY <2>1, <2>2, <2>3, <2>4, <2>5 DEF Held
  <2> QED BY <2>1, <2>6
<1>3. d \in [Msgs -> Int]
  OBVIOUS
<1> HIDE DEF d
<1>4. q' \in Seq(Ev) /\ Meant(q', kind) /\ trans' \subseteq trans /\ tracked' \subseteq tracked
  BY <1>1 DEF TypeOK, Ev, Sound
<1>5. Sound' /\ kind' \in [Msgs -> KindSet] /\ ref' \in [Msgs -> Nat]
  BY <1>1, <1>2, <1>3, <1>4, ChangeSound
<1>6. tm' \in [Msgs -> {"idle", "armed", "posted"}]
  BY <1>1 DEF TypeOK
<1> QED BY <1>1, <1>4, <1>5, <1>6 DEF TypeOK, Ev, KindSet

LEMMA TimerExpiresSound ==
  ASSUME TypeOK, Sound, NEW t \in Msgs, TimerExpires(t)
  PROVE  TypeOK' /\ Sound'
<1> DEFINE e == Event(IF t \in trans THEN "TIMER_ENGINE" ELSE "TIMER_CALLBACKS", NoMsg)
<1>1. /\ q' = Append(q, e) /\ tm' = [tm EXCEPT ![t] = "posted"]
      /\ UNCHANGED <<doing, kind, ref, trans, cache, tracked, leaked, broken>>
  BY DEF TimerExpires
<1>2. e \in Ev /\ e.m = NoMsg /\ Fits(e, kind)
  BY DEF Event, Ev, EventTypes, Fits
<1> HIDE DEF e
<1>3. q \in Seq(Ev) /\ Meant(q, kind)
  BY DEF TypeOK, Ev, Sound
<1>4. q' \in Seq(Ev) /\ Meant(q', kind) /\ \A m : Count(q', m) = Count(q, m) + One(e.m = m)
  BY <1>1, <1>2, <1>3, Posted
<1>5. Accounts'
  <2> SUFFICES ASSUME NEW m \in Msgs
               PROVE  Held(m)' = Held(m)
    BY <1>1 DEF Accounts, Sound
  <2>1. Held(m)' = Count(q', m) + One(m \in trans) + One(m \in tracked)
    BY <1>1, HeldNext
  <2>2. Count(q', m) = Count(q, m)
    BY <1>2, <1>4, HeldType, BufferAssumption DEF One
  <2> QED BY <2>1, <2>2 DEF Held
<1>6. tm' \in [Msgs -> {"idle", "armed", "posted"}]
  BY <1>1 DEF TypeOK
<1>7. Meant(q', kind')
  BY <1>1, <1>4
<1> QED BY <1>1, <1>4, <1>5, <1>6, <1>7 DEF TypeOK, Ev, Sound, Keeps, Apart, Meant

LEMMA RetransmitSound ==
  ASSUME TypeOK, Sound, NEW x \in Msgs, Retransmit(x)
  PROVE  TypeOK' /\ Sound'
<1> DEFINE e == Event("OUTBOUND_NETWORK_EVENT", x)
<1>1. /\ x \in trans /\ q' = Append(q, e) /\ ref' = [ref EXCEPT ![x] = @ + 1]
      /\ tm' = [tm EXCEPT ![x] = "armed"]
      /\ UNCHANGED <<doing, kind, trans, cache, tracked, leaked, broken>>
  BY DEF Retransmit
<1>2. e \in Ev /\ e.m = x /\ Fits(e, kind)
  BY DEF Event, Ev, EventTypes, Fits
<1> HIDE DEF e
<1>3. q \in Seq(Ev) /\ Meant(q, kind)
  BY DEF TypeOK, Ev, Sound
<1>4. q' \in Seq(Ev) /\ Meant(q', kind) /\ \A m : Count(q', m) = Count(q, m) + One(e.m = m)
  BY <1>1, <1>2, <1>3, Posted
<1>5. Accounts'
  <2> SUFFICES ASSUME NEW m \in Msgs
               PROVE  /\ kind'[m] = "free" <=> ref'[m] = 0
                      /\ ref'[m] >= Held(m)'
                      /\ m \notin leaked' => ref'[m] = Held(m)'
    BY DEF Accounts
  <2>1. Held(m)' = Count(q', m) + One(m \in trans) + One(m \in tracked)
    BY <1>1, HeldNext
  <2>2. Count(q', m) = Count(q, m) + One(x = m) /\ Count(q, m) \in Nat
        /\ One(m \in trans) \in {0, 1} /\ One(m \in tracked) \in {0, 1}
    BY <1>2, <1>4, HeldType DEF One
  <2>3. Held(m)' = Held(m) + One(x = m)
    <3>1. One(x = m) \in {0, 1}
      BY DEF One
    <3> QED BY <2>1, <2>2, <3>1 DEF Held
  <2>4. ref'[m] = ref[m] + One(x = m)
    BY <1>1 DEF TypeOK, One
  <2>5. /\ kind[m] = "free" <=> ref[m] = 0
        /\ ref[m] >= Held(m) /\ (m \notin leaked => ref[m] = Held(m))
        /\ ref[m] \in Nat /\ Held(m) \in Nat
    BY HeldType DEF Sound, Accounts, TypeOK
  <2>6. kind[x] # "free"
    BY <1>1, HeldInUse DEF Sound
  <2>7. One(x = m) \in {0, 1} /\ (x # m => One(x = m) = 0)
    BY DEF One
  <2> QED BY <1>1, <2>3, <2>4, <2>5, <2>6, <2>7
<1>6. tm' \in [Msgs -> {"idle", "armed", "posted"}] /\ ref' \in [Msgs -> Nat]
  BY <1>1 DEF TypeOK
<1>7. Meant(q', kind')
  BY <1>1, <1>4
<1> QED BY <1>1, <1>4, <1>5, <1>6, <1>7 DEF TypeOK, Ev, Sound, Keeps, Apart, Meant

LEMMA HandlersSound ==
  ASSUME TypeOK, Sound,
         Outbound \/ OscoreGroupSend \/ OutboundEncrypted \/ OscoreSendError \/ EngineReceive
  PROVE  TypeOK' /\ Sound'
<1> DEFINE Good == TypeOK' /\ Sound'
<1> SUFFICES Good
  OBVIOUS
<1>1. {"INBOUND_RI_EVENT", "OUTBOUND_NETWORK_EVENT", "OUTBOUND_OSCORE_EVENT",
       "OUTBOUND_GROUP_OSCORE_EVENT", "OUTBOUND_NETWORK_EVENT_ENCRYPTED"}
        \subseteq EventTypes \ {"TIMER_ENGINE", "TIMER_CALLBACKS"}
  BY DEF EventTypes
<1>2. \A t \in EventTypes \ {"TIMER_ENGINE", "TIMER_CALLBACKS"} :
        Turn(t) /\ PassOn(<< >>, {M}) => Good
  BY PassOnSound
<1>3. \A t \in EventTypes \ {"TIMER_ENGINE", "TIMER_CALLBACKS"} :
        \A u \in {"OUTBOUND_GROUP_OSCORE_EVENT", "OUTBOUND_OSCORE_EVENT"} :
          Turn(t) /\ PassOn(<<Event(u, M)>>, {}) => Good
  BY PassOnSound
<1> HIDE DEF Good
<1>4. CASE Outbound
  BY <1>1, <1>2, <1>3, <1>4 DEF Outbound
<1>5. CASE OscoreGroupSend
  BY <1>1, <1>2, <1>5 DEF OscoreGroupSend
<1>6. CASE OutboundEncrypted
  BY <1>1, <1>2, <1>6 DEF OutboundEncrypted
<1>7. CASE OscoreSendError
  BY <1>1, <1>2, <1>7 DEF OscoreSendError
<1>8. CASE EngineReceive
  BY <1>1, <1>2, <1>8 DEF EngineReceive
<1> QED BY <1>4, <1>5, <1>6, <1>7, <1>8

LEMMA InitInv == Init => Inv
<1> SUFFICES ASSUME Init PROVE Inv
  OBVIOUS
<1>1. TypeOK /\ ~broken
  <2>1. q \in Seq(Ev)
    BY DEF Init
  <2>2. cache \in [Records -> Msgs \cup {NoMsg}] /\ kind \in [Msgs -> KindSet]
    BY DEF Init, KindSet
  <2>3. ref \in [Msgs -> Nat] /\ tm \in [Msgs -> {"idle", "armed", "posted"}]
    BY DEF Init
  <2>4. broken \in BOOLEAN /\ ~broken
    BY DEF Init
  <2>5. trans \subseteq Msgs /\ tracked \subseteq Msgs /\ leaked \subseteq Msgs
        /\ doing \in {"event", "callbacks", "transactions"}
    BY DEF Init
  <2> QED BY <2>1, <2>2, <2>3, <2>4, <2>5 DEF TypeOK, Ev, KindSet
<1>2. \A m : Count(q, m) = 0 /\ One(m \in trans) = 0 /\ One(m \in tracked) = 0
  <2> SUFFICES ASSUME NEW m PROVE Count(q, m) = 0
    BY DEF Init, One
  <2>1. At(q, m) = {}
    BY DEF Init, At
  <2> QED BY <2>1, FS_EmptySet DEF Count
<1>3. Sound
  BY <1>2 DEF Init, Sound, Accounts, Meant, Keeps, Apart, Held
<1> QED BY <1>1, <1>3 DEF Inv

LEMMA NextInv == Inv /\ [Next]_vars => Inv'
<1> SUFFICES ASSUME Inv, [Next]_vars PROVE Inv'
  OBVIOUS
<1>1. TypeOK
  BY DEF Inv
<1>2. CASE UNCHANGED vars
  <2>1. TypeOK' /\ (broken' => doing' = "event")
    BY <1>2 DEF Inv, vars, TypeOK
  <2>2. Sound' <=> Sound
    BY <1>2 DEF vars, Sound, Accounts, Held, Count, At, Meant, Keeps, Apart
  <2> QED BY <1>2, <2>1, <2>2 DEF Inv, vars
<1>3. CASE Next /\ broken
  <2>1. doing = "event"
    BY <1>3 DEF Inv
  <2> QED BY <1>3, <2>1 DEF Next, NetReceive, OscoreSend, Outbound, OscoreGroupSend,
        OutboundEncrypted, OscoreSendError, OscoreNoContext, OscoreNoMemory, EngineReceive,
        EngineEchoBroken, EngineSend, EngineEcho, EngineEchoCached, TimerEvent, TimersDone,
        EngineAnswer, TimerExpires, CallbackCache, Retransmit, Timeout, Turn
<1>4. CASE Next /\ ~broken
  <2>1. Sound
    BY <1>4 DEF Inv
  <2>2. CASE OscoreNoContext \/ EngineEchoBroken
    BY <1>1, <2>1, <2>2, BreaksTyped DEF Inv
  <2>3. CASE ~(OscoreNoContext \/ EngineEchoBroken)
    <3>1. broken' = broken
      BY <1>4, <2>3 DEF Next, NetReceive, OscoreSend, Outbound, OscoreGroupSend, PassOn, Clear,
        OutboundEncrypted, OscoreSendError, OscoreNoMemory, EngineReceive,
        EngineSend, EngineEcho, EngineEchoCached, TimerEvent, TimersDone,
        EngineAnswer, TimerExpires, CallbackCache, Retransmit, Timeout
    <3> DEFINE Good == TypeOK' /\ Sound'
    <3>2. Good
      <4> SUFFICES Good
        OBVIOUS
      <4>1. /\ \A m \in Msgs : NetReceive(m) \/ OscoreSend(m) => Good
            /\ \A m \in Msgs, s \in Sends : EngineSend(s, m) => Good
            /\ \A t, lost, new \in Msgs : EngineEcho(t, lost, new) => Good
            /\ \A i \in Records, new \in Msgs : EngineEchoCached(i, new) => Good
        BY <1>1, <2>1, NetReceiveSound, OscoreSendSound, EngineSendSound, EngineEchoSound,
           EngineEchoCachedSound
      <4>2. /\ Outbound \/ OscoreGroupSend \/ OutboundEncrypted \/ OscoreSendError => Good
            /\ EngineReceive \/ OscoreNoMemory \/ TimerEvent \/ TimersDone => Good
        BY <1>1, <2>1, HandlersSound, OscoreNoMemorySound, TimerEventSound, TimersDoneSound
      <4>3. \A m \in Msgs : /\ EngineAnswer(m) \/ TimerExpires(m) => Good
                            /\ CallbackCache(m) \/ Retransmit(m) \/ Timeout(m) => Good
        BY <1>1, <2>1, EngineAnswerSound, TimerExpiresSound, GivesUpSound, RetransmitSound
      <4> HIDE DEF Good
      <4> QED BY <1>4, <2>3, <4>1, <4>2, <4>3 DEF Next
    <3> QED BY <1>4, <3>1, <3>2 DEF Inv
  <2> QED BY <2>2, <2>3
<1> QED BY <1>2, <1>3, <1>4

-----------------------------------------------------------------------------
(* What holds of the buffers.                                              *)

\* The invariant holds in every reachable state.
THEOREM InvHolds == Spec => []Inv
BY InitInv, NextInv, PTL DEF Spec

\* Until a buffer is used after it was freed, every buffer has as many
\* references as there are events, transactions and callbacks that own one,
\* in any order of answers, challenges, retransmissions and timers, whatever
\* is sent and however many buffers there are (oc_buffer.c,
\* oc_oscore_engine.c, transactions.c, oc_replay.c).
THEOREM BuffersAreSound == Spec => []BuffersSound
<1>1. Inv => BuffersSound
  BY HoldersIs DEF Inv, Sound, Accounts, BuffersSound, RefsExact, Held
<1> QED BY <1>1, InvHolds, PTL

\* What an open transaction would send again is the confirmable message it was
\* opened for: neither freed nor protected in place (transactions.c).
THEOREM TransactionsAreKept == Spec => []TransactionsKeepMessage
<1>1. Inv => TransactionsKeepMessage
  BY DEF Inv, Sound, Keeps, ConKinds, TransactionsKeepMessage
<1> QED BY <1>1, InvHolds, PTL
=============================================================================
