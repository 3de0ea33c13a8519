------------------------- MODULE ReplayWindowProofs -------------------------
(***************************************************************************)
(* Proofs about ReplayWindow, for every number of clients, of records and  *)
(* of window bits.  The inductive invariant is the conjunction of the type *)
(* invariant, the uniqueness of records, the exactness of the window and,  *)
(* where the shift by the full width is masked, the absence of replays.    *)
(***************************************************************************)
EXTENDS ReplayWindow, TLAPS

\* What is true on every target, and what a masked shift adds.
Inv == TypeOK /\ OneRecordPerClient /\ WindowExact
MaskedInv == Inv /\ NoReplay

\* What oc_replay_add_client on one slot does to the table.
LEMMA AddClientKeepsInv ==
  ASSUME Inv, NEW s \in Slots, NEW c \in Clients, NEW n \in SSNs,
         AddClient(s, c, n),
         \A t \in Slots : GetRecord(t, c) => t = s
  PROVE  /\ rec' \in [Slots -> Record]
         /\ seen' \in [Slots -> SUBSET Nat]
         /\ OneRecordPerClient'
         /\ WindowExact'
<1> DEFINE r == [in_use |-> TRUE, client |-> c, ssn |-> n,
                 win |-> {0}, time |-> now]
<1>1. n \in Nat /\ 0 \in Bits
  BY InputAssumption, WindowAssumption DEF Bits
<1>2. r \in Record
  BY <1>1 DEF Record, Inv, TypeOK
<1>3. rec' \in [Slots -> Record] /\ seen' \in [Slots -> SUBSET Nat]
  BY <1>1, <1>2 DEF AddClient, Inv, TypeOK
<1>4. \A t \in Slots : /\ rec'[t] = IF t = s THEN r ELSE rec[t]
                       /\ seen'[t] = IF t = s THEN {n} ELSE seen[t]
  BY DEF AddClient, Inv, TypeOK
<1>5. OneRecordPerClient'
  BY <1>4 DEF OneRecordPerClient, GetRecord, Inv
<1>6. WindowExact'
  <2> SUFFICES ASSUME NEW t \in Slots, rec'[t].in_use
               PROVE  /\ \A d \in Bits :
                           d \in rec'[t].win <=> rec'[t].ssn - d \in seen'[t]
                      /\ \A m \in seen'[t] : m <= rec'[t].ssn
                      /\ rec'[t].ssn \in seen'[t]
    BY DEF WindowExact
  <2>1. CASE t = s
    <3>1. rec'[t].win = {0} /\ rec'[t].ssn = n /\ seen'[t] = {n}
      BY <1>4, <2>1
    <3>2. \A d \in Bits : d \in {0} <=> n - d \in {n}
      BY <1>1, WindowAssumption DEF Bits
    <3> QED BY <1>1, <3>1, <3>2
  <2>2. CASE t # s
    BY <1>4, <2>2 DEF WindowExact, Inv
  <2> QED BY <2>1, <2>2
<1> QED BY <1>3, <1>5, <1>6

\* Refreshing the time of a record, as oc_replay_check_client does before it
\* decides, disturbs nothing.
LEMMA NotSynchronisedKeepsInv ==
  ASSUME Inv, NEW c \in Clients, NEW n \in SSNs, NotSynchronised(c, n),
         seen' = seen
  PROVE  /\ rec' \in [Slots -> Record]
         /\ OneRecordPerClient'
         /\ WindowExact'
<1>1. CASE rec' = rec
  BY <1>1 DEF Inv, TypeOK, OneRecordPerClient, WindowExact
<1>2. CASE \E s \in Slots : rec' = [rec EXCEPT ![s].time = now]
  <2> PICK s \in Slots : rec' = [rec EXCEPT ![s].time = now]
    BY <1>2
  <2>1. rec' \in [Slots -> Record]
    BY DEF Inv, TypeOK, Record
  <2>2. \A t \in Slots : /\ rec'[t].in_use = rec[t].in_use
                         /\ rec'[t].client = rec[t].client
                         /\ rec'[t].ssn = rec[t].ssn
                         /\ rec'[t].win = rec[t].win
    BY DEF Inv, TypeOK, Record
  <2>3. OneRecordPerClient'
    BY <2>2 DEF Inv, OneRecordPerClient
  <2>4. WindowExact'
    BY <2>2 DEF Inv, WindowExact
  <2> QED BY <2>1, <2>3, <2>4
<1> QED BY <1>1, <1>2 DEF NotSynchronised

\* The slot of an accepted packet: only its own record changes, it stays with
\* its client, and the window it gets is exact.
LEMMA AcceptKeepsInv ==
  ASSUME Inv, NEW s \in Slots, NEW n \in SSNs,
         NEW r \in Record, r.in_use, rec[s].in_use, r.client = rec[s].client,
         rec' = [rec EXCEPT ![s] = r],
         seen' = [seen EXCEPT ![s] = @ \cup {n}],
         \A d \in Bits : d \in r.win <=> r.ssn - d \in seen[s] \cup {n},
         \A m \in seen[s] \cup {n} : m <= r.ssn,
         r.ssn \in seen[s] \cup {n}
  PROVE  /\ rec' \in [Slots -> Record]
         /\ seen' \in [Slots -> SUBSET Nat]
         /\ OneRecordPerClient'
         /\ WindowExact'
<1>1. rec' \in [Slots -> Record] /\ seen' \in [Slots -> SUBSET Nat]
  BY InputAssumption DEF Inv, TypeOK
<1>2. \A t \in Slots :
        /\ rec'[t] = IF t = s THEN r ELSE rec[t]
        /\ seen'[t] = IF t = s THEN seen[s] \cup {n} ELSE seen[t]
  BY DEF Inv, TypeOK
<1>3. OneRecordPerClient'
  BY <1>2 DEF Inv, OneRecordPerClient
<1>4. WindowExact'
  BY <1>2 DEF Inv, WindowExact
<1> QED BY <1>1, <1>3, <1>4

\* A late packet inside the window: its bit, and no other, is added.
LEMMA AcceptInsideKeepsInv ==
  ASSUME Inv, NEW s \in Slots, NEW n \in SSNs, NEW outcome \in ShiftOutcomes,
         AcceptInside(s, n, outcome)
  PROVE  /\ Inv'
         /\ outcome = "masked" => n \notin seen[s]
<1> DEFINE d0 == rec[s].ssn - n
           r == [rec[s] EXCEPT !.time = now,
                               !.win = @ \cup ShiftedOne(d0, outcome)]
<1>1. /\ rec[s] \in Record /\ n \in Nat /\ now \in Nat /\ W \in Nat \ {0}
      /\ seen[s] \in SUBSET Nat
  BY InputAssumption, WindowAssumption DEF Inv, TypeOK
<1>2. /\ rec[s].in_use
      /\ d0 \in 0 .. W
      /\ ShiftedOne(d0, outcome) \cap rec[s].win = {}
  BY <1>1 DEF AcceptInside, InsideWindow, TooOld, Received, Record
<1>3. /\ \A d \in Bits : d \in rec[s].win <=> rec[s].ssn - d \in seen[s]
      /\ \A m \in seen[s] : m <= rec[s].ssn
      /\ rec[s].ssn \in seen[s]
  BY <1>2 DEF Inv, WindowExact
<1>4. 0 \in rec[s].win
  BY <1>1, <1>3 DEF Bits, Record
<1>5. outcome = "masked" => d0 < W
  BY <1>1, <1>2, <1>4 DEF ShiftedOne, Record
<1>6. d0 < W => ShiftedOne(d0, outcome) = {d0} /\ d0 \in Bits
  BY <1>1, <1>2 DEF ShiftedOne, Bits
<1>7. d0 < W => n \notin seen[s]
  <2> SUFFICES ASSUME d0 < W PROVE n \notin seen[s]
    OBVIOUS
  <2>1. d0 \notin rec[s].win
    BY <1>2, <1>6
  <2>2. rec[s].ssn - d0 \notin seen[s]
    BY <1>3, <1>6, <2>1
  <2> QED BY <1>1, <2>2 DEF Record
<1>8. ShiftedOne(d0, outcome) \subseteq Bits
  <2>1. CASE d0 < W
    BY <1>6, <2>1
  <2>2. CASE ~(d0 < W)
    BY <1>5, <2>2 DEF ShiftedOne
  <2> QED BY <2>1, <2>2
<1>9. r \in Record
  BY <1>1, <1>8 DEF Record
<1>10. r.win = rec[s].win \cup ShiftedOne(d0, outcome)
  BY <1>1 DEF Record
<1>11. /\ r.in_use /\ r.client = rec[s].client /\ r.ssn = rec[s].ssn
  BY <1>1, <1>2 DEF Record
<1>12. \A d \in Bits : d \in r.win <=> r.ssn - d \in seen[s] \cup {n}
  <2> SUFFICES ASSUME NEW d \in Bits
               PROVE  d \in r.win <=> rec[s].ssn - d \in seen[s] \cup {n}
    BY <1>11
  <2>1. d \in rec[s].win <=> rec[s].ssn - d \in seen[s]
    BY <1>3
  <2>2. d \in ShiftedOne(d0, outcome) <=> rec[s].ssn - d = n
    <3>1. CASE d0 < W
      BY <1>1, <1>6, <3>1 DEF Bits, Record
    <3>2. CASE ~(d0 < W)
      <4>1. ShiftedOne(d0, outcome) = {}
        BY <1>5, <3>2 DEF ShiftedOne
      <4>2. d # d0
        BY <1>1, <1>2, <3>2 DEF Bits
      <4>3. rec[s].ssn - d # n
        BY <1>1, <4>2 DEF Bits, Record
      <4> QED BY <4>1, <4>3
    <3> QED BY <3>1, <3>2
  <2> QED BY <1>10, <2>1, <2>2
<1>13. \A m \in seen[s] \cup {n} : m <= r.ssn
  BY <1>1, <1>2, <1>3, <1>11 DEF Record
<1>14. rec' = [rec EXCEPT ![s] = r]
  BY DEF AcceptInside, Inv, TypeOK
<1>15. seen' = [seen EXCEPT ![s] = @ \cup {n}]
  BY DEF AcceptInside
<1>16. /\ rec' \in [Slots -> Record]
       /\ seen' \in [Slots -> SUBSET Nat]
       /\ OneRecordPerClient'
       /\ WindowExact'
  <2>1. r.ssn \in seen[s] \cup {n}
    BY <1>3, <1>11
  <2>2. rec[s].in_use
    BY <1>2
  <2> HIDE DEF r, d0
  <2> QED
    BY <1>9, <1>11, <1>12, <1>13, <1>14, <1>15, <2>1, <2>2, AcceptKeepsInv
<1>17. replayed' \in BOOLEAN /\ UNCHANGED <<rplwdo, now, issued>>
  BY DEF AcceptInside, Inv, TypeOK
<1> QED BY <1>5, <1>7, <1>16, <1>17 DEF Inv, TypeOK

\* A newer packet slides the window: the bits that stay in it keep naming the
\* SSNs they named.
LEMMA AcceptAheadKeepsInv ==
  ASSUME Inv, NEW s \in Slots, NEW n \in SSNs, AcceptAhead(s, n)
  PROVE  Inv' /\ n \notin seen[s]
<1> DEFINE k == n - rec[s].ssn
           r == [rec[s] EXCEPT !.time = now, !.ssn = n,
                               !.win = ShiftedLeft(@, k) \cup {0}]
<1>1. /\ rec[s] \in Record /\ n \in Nat /\ now \in Nat /\ W \in Nat \ {0}
      /\ seen[s] \in SUBSET Nat
  BY InputAssumption, WindowAssumption DEF Inv, TypeOK
<1>2. rec[s].in_use /\ rec[s].ssn < n
  BY DEF AcceptAhead, AheadOfWindow
<1>3. /\ \A d \in Bits : d \in rec[s].win <=> rec[s].ssn - d \in seen[s]
      /\ \A m \in seen[s] : m <= rec[s].ssn
      /\ rec[s].ssn \in seen[s]
  BY <1>2 DEF Inv, WindowExact
<1>4. k \in Nat \ {0}
  BY <1>1, <1>2 DEF Record
<1>5. n \notin seen[s]
  BY <1>1, <1>2, <1>3 DEF Record
<1>6. ShiftedLeft(rec[s].win, k) \subseteq Bits /\ 0 \in Bits
  BY <1>1 DEF ShiftedLeft, Bits
<1>7. r \in Record
  BY <1>1, <1>6 DEF Record
<1>8. /\ r.in_use /\ r.client = rec[s].client /\ r.ssn = n
      /\ r.win = ShiftedLeft(rec[s].win, k) \cup {0}
  BY <1>1, <1>2 DEF Record
<1>9. \A d \in Bits : d \in r.win <=> r.ssn - d \in seen[s] \cup {n}
  <2> SUFFICES ASSUME NEW d \in Bits
               PROVE  d \in r.win <=> n - d \in seen[s] \cup {n}
    BY <1>8
  <2>1. CASE d = 0
    BY <1>1, <1>8, <2>1
  <2>2. CASE d > 0 /\ d < k
    <3>1. n - d > rec[s].ssn /\ n - d # n
      BY <1>1, <2>2 DEF Bits, Record
    <3>2. n - d \notin seen[s]
      BY <1>1, <1>3, <3>1 DEF Record
    <3>3. d - k \notin rec[s].win
      BY <1>1, <1>4, <2>2 DEF Bits, Record
    <3>4. d \notin ShiftedLeft(rec[s].win, k)
      BY <3>3 DEF ShiftedLeft
    <3> QED BY <1>8, <2>2, <3>1, <3>2, <3>4
  <2>3. CASE d >= k
    <3>1. d - k \in Bits /\ ~(k >= W) /\ d # 0
      BY <1>1, <1>4, <2>3 DEF Bits
    <3>2. rec[s].ssn - (d - k) = n - d
      BY <1>1, <1>4 DEF Bits, Record
    <3>3. d \in ShiftedLeft(rec[s].win, k) <=> d - k \in rec[s].win
      BY <3>1 DEF ShiftedLeft
    <3>4. d - k \in rec[s].win <=> n - d \in seen[s]
      BY <1>3, <3>1, <3>2
    <3>5. n - d # n
      BY <1>1, <3>1 DEF Bits
    <3> QED BY <1>8, <3>1, <3>3, <3>4, <3>5
  <2> QED BY <1>4, <2>1, <2>2, <2>3 DEF Bits
<1>10. \A m \in seen[s] \cup {n} : m <= r.ssn
  BY <1>1, <1>2, <1>3, <1>8 DEF Record
<1>11. rec' = [rec EXCEPT ![s] = r]
  BY DEF AcceptAhead, Inv, TypeOK
<1>12. seen' = [seen EXCEPT ![s] = @ \cup {n}]
  BY DEF AcceptAhead
<1> HIDE DEF r
<1>13. /\ rec' \in [Slots -> Record]
       /\ seen' \in [Slots -> SUBSET Nat]
       /\ OneRecordPerClient'
       /\ WindowExact'
  BY <1>2, <1>7, <1>8, <1>9, <1>10, <1>11, <1>12, AcceptKeepsInv
<1>14. replayed' \in BOOLEAN /\ UNCHANGED <<rplwdo, now, issued>>
  BY DEF AcceptAhead, Inv, TypeOK
<1> QED BY <1>5, <1>13, <1>14 DEF Inv, TypeOK

\* Every step of the receive path keeps the invariant, whatever the shift does.
LEMMA NextKeepsInv ==
  ASSUME Inv, [Next]_vars
  PROVE  Inv'
<1>1. ASSUME NEW s \in Slots, NEW n \in SSNs, NEW outcome \in ShiftOutcomes,
             AcceptInside(s, n, outcome)
      PROVE  Inv'
  BY <1>1, AcceptInsideKeepsInv
<1>2. ASSUME NEW s \in Slots, NEW n \in SSNs, AcceptAhead(s, n)
      PROVE  Inv'
  BY <1>2, AcceptAheadKeepsInv
<1>3. ASSUME NEW c \in Clients, NEW n \in SSNs, TrustFirstMulticast(c, n)
      PROVE  Inv'
  <2>1. PICK s \in Slots : AddClient(s, c, n)
    BY <1>3 DEF TrustFirstMulticast
  <2>2. \A t \in Slots : GetRecord(t, c) => t = s
    BY <1>3 DEF TrustFirstMulticast, Unknown
  <2> QED
    BY <1>3, <2>1, <2>2, AddClientKeepsInv
       DEF TrustFirstMulticast, Inv, TypeOK
<1>4. ASSUME NEW c \in Clients, NEW n \in SSNs, NotSynchronised(c, n),
             UNCHANGED <<rplwdo, now, seen, replayed>>,
             issued' \subseteq Clients \X Nat
      PROVE  Inv'
  BY <1>4, NotSynchronisedKeepsInv DEF Inv, TypeOK
<1>5. ASSUME NEW c \in Clients, NEW n \in SSNs, SendChallenge(c, n)
      PROVE  Inv'
  BY <1>4, <1>5 DEF SendChallenge, Inv, TypeOK
<1>6. ASSUME NEW c \in Clients, NEW n \in SSNs, NEW echo \in Times,
             RenewChallenge(c, n, echo)
      PROVE  Inv'
  BY <1>4, <1>6 DEF RenewChallenge, Inv, TypeOK
<1>7. ASSUME NEW c \in Clients, NEW n \in SSNs,
             RejectEcho(c, n) \/ DispatchOwn(c, n)
      PROVE  Inv'
  BY <1>4, <1>7 DEF RejectEcho, DispatchOwn, Inv, TypeOK
<1>8. ASSUME NEW c \in Clients, NEW n \in SSNs, NEW echo \in Times,
             AcceptEcho(c, n, echo)
      PROVE  Inv'
  <2>1. \E s \in Slots : /\ AddClient(s, c, n)
                         /\ Unknown(c) \/ GetRecord(s, c)
    BY <1>8 DEF AcceptEcho
  <2>2. PICK s \in Slots : AddClient(s, c, n) /\ (Unknown(c) \/ GetRecord(s, c))
    BY <2>1
  <2>3. \A t \in Slots : GetRecord(t, c) => t = s
    BY <2>2 DEF Unknown, GetRecord, Inv, OneRecordPerClient
  <2> QED
    BY <1>8, <2>2, <2>3, AddClientKeepsInv DEF AcceptEcho, Inv, TypeOK
<1>9. ASSUME NEW v \in RplwdoValues, PutReplwdo(v)
      PROVE  Inv'
  BY <1>9, InputAssumption
     DEF PutReplwdo, Inv, TypeOK, OneRecordPerClient, WindowExact
<1>10. CASE Tick
  BY <1>10 DEF Tick, Inv, TypeOK, OneRecordPerClient, WindowExact
<1>11. CASE UNCHANGED vars
  BY <1>11 DEF vars, Inv, TypeOK, OneRecordPerClient, WindowExact
<1> QED
  BY <1>1, <1>2, <1>3, <1>5, <1>6, <1>7, <1>8, <1>9, <1>10, <1>11 DEF Next

(* oc_replay.c starts with every record free, which the invariant allows. *)
LEMMA InitEstablishesInv ==
  Init => MaskedInv
<1> SUFFICES ASSUME Init PROVE MaskedInv
  OBVIOUS
<1>1. FreeRecord \in Record
  BY DEF FreeRecord, Record
<1>2. TypeOK
  BY <1>1, InputAssumption DEF Init, TypeOK
<1>3. \A s \in Slots : rec[s].in_use = FALSE
  BY DEF Init, FreeRecord
<1> QED
  BY <1>2, <1>3
     DEF Init, MaskedInv, Inv, OneRecordPerClient, WindowExact, NoReplay

\* The table is well formed in every reachable state, on targets of either shift
\* behaviour: whatever the order of multicasts, challenges and evictions,
\* oc_replay_add_client never gives a client a second record.
THEOREM RecordsAreSound == Spec => []RecordsSound
<1>1. Inv => RecordsSound
  BY DEF Inv, RecordsSound
<1> QED
  BY <1>1, InitEstablishesInv, NextKeepsInv, PTL DEF Spec, MaskedInv

\* The window of a record in use is exactly the set of SSNs accepted within its
\* width, on targets of either shift behaviour.
THEOREM WindowIsExact == Spec => []WindowExact
<1>1. Inv => WindowExact
  BY DEF Inv
<1> QED
  BY <1>1, InitEstablishesInv, NextKeepsInv, PTL DEF Spec, MaskedInv

\* On targets that mask the shift count no SSN passes the window twice while
\* its client stays synchronised.
THEOREM MaskedShiftNeverReplays ==
  ASSUME "zero" \notin ShiftOutcomes
  PROVE  Spec => []NoReplay
<1>1. Init => MaskedInv
  BY InitEstablishesInv
<1>2. MaskedInv /\ [Next]_vars => MaskedInv'
  <2> SUFFICES ASSUME MaskedInv, [Next]_vars PROVE NoReplay'
    BY NextKeepsInv DEF MaskedInv
  <2>1. ASSUME NEW s \in Slots, NEW n \in SSNs, NEW outcome \in ShiftOutcomes,
               AcceptInside(s, n, outcome)
        PROVE  NoReplay'
    <3>1. outcome = "masked"
      BY ShiftAssumption
    <3> QED BY <2>1, <3>1, AcceptInsideKeepsInv
            DEF MaskedInv, NoReplay, AcceptInside
  <2>2. ASSUME NEW s \in Slots, NEW n \in SSNs, AcceptAhead(s, n)
        PROVE  NoReplay'
    BY <2>2, AcceptAheadKeepsInv DEF MaskedInv, NoReplay, AcceptAhead
  <2>3. ASSUME replayed' = replayed
        PROVE  NoReplay'
    BY <2>3 DEF MaskedInv, NoReplay
  <2> QED
    BY <2>1, <2>2, <2>3
       DEF Next, vars, TrustFirstMulticast, SendChallenge, RenewChallenge,
           RejectEcho, AcceptEcho, DispatchOwn, PutReplwdo, Tick
<1> QED BY <1>1, <1>2, PTL DEF Spec, MaskedInv

\* Room for a new client is made by dropping the client heard from least
\* recently, and in no other way.
THEOREM EvictionIsLeastRecent ==
  Spec => EvictsLeastRecent
<1> DEFINE Evicts == \A s \in Slots :
      rec[s].in_use /\ rec'[s].client # rec[s].client =>
        \A t \in Slots : rec[t].in_use /\ rec[s].time <= rec[t].time
<1>1. Init => Inv
  BY InitEstablishesInv DEF MaskedInv
<1>2. Inv /\ [Next]_vars => Inv'
  BY NextKeepsInv
<1>3. Inv /\ [Next]_vars => [Evicts]_vars
  <2> SUFFICES ASSUME Inv, Next PROVE Evicts
    OBVIOUS
  <2>0. rec \in [Slots -> Record]
    BY DEF Inv, TypeOK
  <2>1. ASSUME \A s \in Slots : rec'[s].client = rec[s].client
        PROVE  Evicts
    BY <2>1
  <2>2. ASSUME NEW c \in Clients, NEW n \in SSNs, NEW s \in Slots,
               GetEmptyRecord(s) \/ GetRecord(s, c), AddClient(s, c, n)
        PROVE  Evicts
    <3>1. \A t \in Slots : t # s => rec'[t] = rec[t]
      BY <2>0, <2>2 DEF AddClient
    <3>2. GetRecord(s, c) => rec'[s].client = rec[s].client
      BY <2>0, <2>2 DEF AddClient, GetRecord
    <3>3. GetEmptyRecord(s) /\ rec[s].in_use =>
            \A t \in Slots : rec[t].in_use /\ rec[s].time <= rec[t].time
      BY DEF GetEmptyRecord
    <3> QED BY <2>2, <3>1, <3>2, <3>3
  <2>3. ASSUME NEW c \in Clients, NEW n \in SSNs, NotSynchronised(c, n)
        PROVE  Evicts
    <3>1. \A s \in Slots : rec'[s].client = rec[s].client
      BY <2>0, <2>3 DEF NotSynchronised, Record
    <3> QED BY <2>1, <3>1
  <2>4. ASSUME NEW s \in Slots, NEW n \in SSNs, NEW outcome \in ShiftOutcomes,
               AcceptInside(s, n, outcome)
        PROVE  Evicts
    <3>1. \A t \in Slots : rec'[t].client = rec[t].client
      BY <2>0, <2>4 DEF AcceptInside, Record
    <3> QED BY <2>1, <3>1
  <2>5. ASSUME NEW s \in Slots, NEW n \in SSNs, AcceptAhead(s, n)
        PROVE  Evicts
    <3>1. \A t \in Slots : rec'[t].client = rec[t].client
      BY <2>0, <2>5 DEF AcceptAhead, Record
    <3> QED BY <2>1, <3>1
  <2>6. ASSUME NEW c \in Clients, NEW n \in SSNs, NEW echo \in Times,
               AcceptEcho(c, n, echo)
        PROVE  Evicts
    BY <2>2, <2>6 DEF AcceptEcho
  <2>7. ASSUME NEW c \in Clients, NEW n \in SSNs, TrustFirstMulticast(c, n)
        PROVE  Evicts
    BY <2>2, <2>7 DEF TrustFirstMulticast
  <2>8. ASSUME rec' = rec PROVE Evicts
    BY <2>8
  <2> QED
    BY <2>3, <2>4, <2>5, <2>6, <2>7, <2>8
       DEF Next, SendChallenge, RenewChallenge, RejectEcho, DispatchOwn,
           PutReplwdo, Tick
<1> QED BY <1>1, <1>2, <1>3, PTL DEF Spec, EvictsLeastRecent
=============================================================================
