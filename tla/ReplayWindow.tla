---------------------------- MODULE ReplayWindow ----------------------------
(***************************************************************************)
(* Replay protection of OSCORE requests: the table of synchronised clients *)
(* (api/oc_replay.c) and the part of coap_receive (messaging/coap/engine.c)*)
(* that consults it, challenges a client with an Echo option and           *)
(* (re)synchronises it.                                                    *)
(*                                                                         *)
(* A client is the pair of the KID and the KID context of a request.  A    *)
(* window is the set of the bit positions that are set in the code's       *)
(* uint32_t bit field: d \in win stands for bit d, "SSN ssn - d has been   *)
(* received".  SSNs come from a partial IV of at most five bytes, so the   *)
(* code's 64-bit subtraction never wraps and Int arithmetic is exact.      *)
(***************************************************************************)
EXTENDS Integers

CONSTANTS
  Clients,        \* the (KID, KID context) pairs that send requests
  NumRecords,     \* OC_MAX_REPLAY_RECORDS (20 in the code)
  W,              \* the bits of the window (32 in the code)
  SSNs,           \* the sender sequence numbers that arrive
  RplwdoValues,   \* the values written to /auth/o/replwdo
  RplwdoDefault,  \* g_oscore_replaywindow at start (32 in the code)
  Freshness,      \* OC_ECHO_FRESHNESS_TIME
  MaxTime,        \* bound on the clock
  ShiftOutcomes   \* what "(uint32_t)1 << W" may give, see ShiftedOne

NoClient == "no client"

ASSUME WindowAssumption == /\ W \in Nat \ {0}
                           /\ NumRecords \in Nat \ {0}
ASSUME ClientAssumption == NoClient \notin Clients
ASSUME InputAssumption ==
  /\ SSNs \subseteq Nat
  /\ RplwdoValues \subseteq Nat
  /\ RplwdoDefault \in Nat
  /\ Freshness \in Nat
  /\ MaxTime \in Nat
ASSUME ShiftAssumption == ShiftOutcomes \subseteq {"masked", "zero"}

VARIABLES
  rec,        \* replay_records[]: one record per slot
  rplwdo,     \* g_oscore_replaywindow
  now,        \* oc_clock_time()
  issued,     \* the Echo challenges sent: <<client, time stamp>>
  seen,       \* ghost: the SSNs accepted on a slot since it was synchronised
  replayed    \* ghost: the window has accepted an SSN it had accepted before

vars == <<rec, rplwdo, now, issued, seen, replayed>>

Slots == 1 .. NumRecords
Bits == 0 .. W - 1
Times == 0 .. MaxTime

Record == [in_use : BOOLEAN, client : Clients \cup {NoClient},
           ssn : Nat, win : SUBSET Bits, time : Nat]

\* free_record: the value of a slot that holds no client
FreeRecord == [in_use |-> FALSE, client |-> NoClient, ssn |-> 0,
               win |-> {}, time |-> 0]

-----------------------------------------------------------------------------
(* The table.                                                              *)

\* get_record: the slot of client c
GetRecord(s, c) == rec[s].in_use /\ rec[s].client = c

\* mutant: the search stops after the first slot
UnknownInFirst(c) == ~GetRecord(1, c)

Unknown(c) == \A s \in Slots : ~GetRecord(s, c)

\* mutant: the comparison of the time stamps is turned round
GetNewestRecord(s) ==
  \/ /\ ~rec[s].in_use
     /\ \A t \in Slots : t < s => rec[t].in_use
  \/ /\ \A t \in Slots : rec[t].in_use
     /\ \A t \in Slots : rec[s].time >= rec[t].time

\* get_empty_record: the first slot not in use; when there is none, the first
\* of the slots whose last packet is oldest, which is freed
GetEmptyRecord(s) ==
  \/ /\ ~rec[s].in_use
     /\ \A t \in Slots : t < s => rec[t].in_use
  \/ /\ \A t \in Slots : rec[t].in_use
     /\ \A t \in Slots : rec[s].time <= rec[t].time
     /\ \A t \in Slots : t < s => rec[s].time < rec[t].time

\* oc_replay_add_client on slot s
AddClient(s, c, n) ==
  /\ rec' = [rec EXCEPT ![s] = [in_use |-> TRUE, client |-> c, ssn |-> n,
                                win |-> {0}, time |-> now]]
  /\ seen' = [seen EXCEPT ![s] = {n}]

-----------------------------------------------------------------------------
(* oc_replay_check_client on a record that exists.                         *)

\* (uint32_t)1 << d, for the 0 <= d <= W the age check lets through.  At d = W
\* the shift is undefined: targets whose shift instruction reduces the count
\* modulo the width give bit 0, those that shift every bit out give zero.
ShiftedOne(d, outcome) ==
  IF d < W THEN {d} ELSE IF outcome = "masked" THEN {0} ELSE {}

\* mutant: a shift by the full width is left to the hardware, which reduces the
\* count
ShiftedUnguarded(win, k) == {d \in Bits : d - (k % W) \in win}

\* rec->window << k, zeroed by hand for k >= W
ShiftedLeft(win, k) == IF k >= W THEN {} ELSE {d \in Bits : d - k \in win}

\* ssn_diff >= 0: n is not newer than the record
TooOld(s, n) == rec[s].ssn - n > W

\* mutant: only the newest SSN is remembered
ReceivedLast(s, n, outcome) == rec[s].ssn = n

Received(s, n, outcome) ==
  ShiftedOne(rec[s].ssn - n, outcome) \cap rec[s].win # {}

\* oc_replay_check_client returns true for an SSN that is not newer
InsideWindow(s, n, outcome) ==
  /\ rec[s].ssn >= n
  /\ ~TooOld(s, n)
  /\ ~Received(s, n, outcome)

\* oc_replay_check_client returns true for a newer SSN
AheadOfWindow(s, n) == rec[s].ssn < n /\ n - rec[s].ssn <= rplwdo

CheckClient(s, n, outcome) == InsideWindow(s, n, outcome) \/ AheadOfWindow(s, n)

-----------------------------------------------------------------------------
(* coap_receive: one action per outcome of a decrypted OSCORE request.     *)

Init ==
  /\ rec = [s \in Slots |-> FreeRecord]
  /\ rplwdo = RplwdoDefault
  /\ now = 0
  /\ issued = {}
  /\ seen = [s \in Slots |-> {}]
  /\ replayed = FALSE

\* the record remembers an older SSN of its window
AcceptInside(s, n, outcome) ==
  /\ rec[s].in_use
  /\ InsideWindow(s, n, outcome)
  /\ rec' = [rec EXCEPT ![s].time = now,
                        ![s].win = @ \cup ShiftedOne(rec[s].ssn - n, outcome)]
  /\ replayed' = (replayed \/ n \in seen[s])
  /\ seen' = [seen EXCEPT ![s] = @ \cup {n}]
  /\ UNCHANGED <<rplwdo, now, issued>>

\* the record slides to a newer SSN
AcceptAhead(s, n) ==
  /\ rec[s].in_use
  /\ AheadOfWindow(s, n)
  /\ rec' = [rec EXCEPT ![s].time = now,
                        ![s].ssn = n,
                        ![s].win = ShiftedLeft(@, n - rec[s].ssn) \cup {0}]
  /\ replayed' = (replayed \/ n \in seen[s])
  /\ seen' = [seen EXCEPT ![s] = @ \cup {n}]
  /\ UNCHANGED <<rplwdo, now, issued>>

\* OC_TRUST_FIRST_MCAST: a multicast of an unknown client synchronises it
TrustFirstMulticast(c, n) ==
  /\ Unknown(c)
  /\ \E s \in Slots : GetEmptyRecord(s) /\ AddClient(s, c, n)
  /\ UNCHANGED <<rplwdo, now, issued, replayed>>

\* The client is not synchronised: unknown (and the request is a unicast), or
\* its record, whose time is refreshed, does not accept the SSN
NotSynchronised(c, n) ==
  \/ Unknown(c) /\ rec' = rec
  \/ \E s \in Slots, outcome \in ShiftOutcomes :
       /\ GetRecord(s, c)
       /\ ~CheckClient(s, n, outcome)
       /\ rec' = [rec EXCEPT ![s].time = now]

\* now - ts > Freshness in unsigned arithmetic: a time stamp of the future
\* would be stale too, but the device issues none
Fresh(ts) == now - ts <= Freshness

\* no Echo option: 4.01 with a challenge
SendChallenge(c, n) ==
  /\ NotSynchronised(c, n)
  /\ issued' = issued \cup {<<c, now>>}
  /\ UNCHANGED <<rplwdo, now, seen, replayed>>

\* a stale Echo option: 4.01 with a new challenge
RenewChallenge(c, n, echo) ==
  /\ <<c, echo>> \in issued
  /\ ~Fresh(echo)
  /\ NotSynchronised(c, n)
  /\ issued' = issued \cup {<<c, now>>}
  /\ UNCHANGED <<rplwdo, now, seen, replayed>>

\* an Echo option that is not eight bytes long: 4.02
RejectEcho(c, n) ==
  /\ NotSynchronised(c, n)
  /\ UNCHANGED <<rplwdo, now, issued, seen, replayed>>

\* a fresh Echo of an unknown client, or of one whose SSN is out of its
\* window, synchronises the client: the record is reset to this very SSN
AcceptEcho(c, n, echo) ==
  /\ <<c, echo>> \in issued
  /\ Fresh(echo)
  /\ \/ /\ Unknown(c)
        /\ \E s \in Slots : GetEmptyRecord(s) /\ AddClient(s, c, n)
     \/ \E s \in Slots, outcome \in ShiftOutcomes :
          /\ GetRecord(s, c)
          /\ ~CheckClient(s, n, outcome)
          /\ AddClient(s, c, n)
  /\ UNCHANGED <<rplwdo, now, issued, replayed>>

\* is_myself: a request from the device's own address and port is dispatched
\* although the check failed; no challenge and no synchronisation
DispatchOwn(c, n) ==
  /\ NotSynchronised(c, n)
  /\ UNCHANGED <<rplwdo, now, issued, seen, replayed>>

\* oc_core_knx_auth_o_replwdo_put_handler
PutReplwdo(v) ==
  /\ rplwdo' = v
  /\ UNCHANGED <<rec, now, issued, seen, replayed>>

Tick ==
  /\ now < MaxTime
  /\ now' = now + 1
  /\ UNCHANGED <<rec, rplwdo, issued, seen, replayed>>

Next ==
  \/ \E s \in Slots, n \in SSNs, outcome \in ShiftOutcomes :
       AcceptInside(s, n, outcome)
  \/ \E s \in Slots, n \in SSNs : AcceptAhead(s, n)
  \/ \E c \in Clients, n \in SSNs : TrustFirstMulticast(c, n)
  \/ \E c \in Clients, n \in SSNs : SendChallenge(c, n)
  \/ \E c \in Clients, n \in SSNs, echo \in Times : RenewChallenge(c, n, echo)
  \/ \E c \in Clients, n \in SSNs : RejectEcho(c, n)
  \/ \E c \in Clients, n \in SSNs, echo \in Times : AcceptEcho(c, n, echo)
  \/ \E c \in Clients, n \in SSNs : DispatchOwn(c, n)
  \/ \E v \in RplwdoValues : PutReplwdo(v)
  \/ Tick

Spec == Init /\ [][Next]_vars

-----------------------------------------------------------------------------
(* Properties.                                                             *)

\* The types of the records, of the window and of the ghosts.
TypeOK ==
  /\ rec \in [Slots -> Record]
  /\ rplwdo \in Nat
  /\ now \in Nat
  /\ issued \subseteq Clients \X Nat
  /\ seen \in [Slots -> SUBSET Nat]
  /\ replayed \in BOOLEAN

\* A client never owns two records: whatever the order of multicasts,
\* challenges and evictions, oc_replay_add_client finds the record get_record
\* would find, so no stale second window can ever be consulted.
OneRecordPerClient ==
  \A s, t \in Slots :
    rec[s].in_use /\ rec[t].in_use /\ rec[s].client = rec[t].client => s = t

\* The window is exact: after any sequence of slides, late packets,
\* resynchronisations and evictions, bit d of a record is set exactly when SSN
\* ssn - d was accepted since the record was synchronised, and no accepted SSN
\* is newer than the record's ssn.
WindowExact ==
  \A s \in Slots : rec[s].in_use =>
    /\ \A d \in Bits : d \in rec[s].win <=> rec[s].ssn - d \in seen[s]
    /\ \A n \in seen[s] : n <= rec[s].ssn
    /\ rec[s].ssn \in seen[s]

\* "rx 7 again, thrown out": since a client was synchronised, no SSN passes
\* oc_replay_check_client twice.
NoReplay == ~replayed

\* A client loses its record only to make room, and only when every other
\* slot belongs to a client heard from at least as recently.
EvictsLeastRecent ==
  [][\A s \in Slots : rec[s].in_use /\ rec'[s].client # rec[s].client =>
       \A t \in Slots : rec[t].in_use /\ rec[s].time <= rec[t].time]_vars

\* The records are what the code takes them for, and a client is found in one.
RecordsSound == TypeOK /\ OneRecordPerClient
=============================================================================
