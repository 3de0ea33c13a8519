------------------------- MODULE AccessTokensProofs -------------------------
(***************************************************************************)
(* For any number of entries, names, keys and objects of a POST: the type  *)
(* invariant of AccessTokens, that the ids of the entries are unique, that *)
(* storage agrees with the table, that a KID with its KID context has at   *)
(* most one recipient context and that no sender context outlives its key. *)
(*                                                                         *)
(* The ids are unique only if no name that a PASE handshake brings is the  *)
(* beginning of another one: Begins = {}.                                  *)
(***************************************************************************)
EXTENDS AccessTokens, TLAPS

-----------------------------------------------------------------------------
(* The inductive invariants.                                               *)

\* The salt is never in a file.
SaltsUnstored == \A s \in Slots : store[s].salt = None

\* An entry without an id has no KID either, in the table and in the files.
KidsNamed ==
  \A s \in Slots : /\ at[s].kid # None => at[s].id # None
                   /\ store[s].kid # None => store[s].id # None

\* A file is empty or has the id of its entry, though a write may have failed:
\* the file of a slot is erased before the slot changes hands.
StoredIds == \A s \in Slots : store[s].id \in {None, at[s].id}

TableInv == /\ at \in [Slots -> Entry] /\ store \in [Slots -> Entry]
            /\ torn \in BOOLEAN
            /\ KidsNamed /\ SaltsUnstored /\ StorageAgrees

ContextInv == ctxs \subseteq Context /\ RecipientsDistinct

Inv ==
  TableInv /\ ContextInv /\ post \in Post /\ removed \in BOOLEAN /\ foreign \in BOOLEAN

IdInv == StoredIds /\ UniqueTokens

-----------------------------------------------------------------------------
(* Types of the values that the actions write.                             *)

LEMMA NoEntryType == NoEntry \in Entry
BY DEF NoEntry, Entry

LEMMA NoPostType == NoPost \in Post
BY EntryAssumption DEF NoPost, Post

LEMMA DumpedType ==
  ASSUME NEW e \in Entry
  PROVE  /\ Dumped(e) \in Entry
         /\ Dumped(e).salt = None /\ Dumped(e).id = e.id /\ Dumped(e).kid = e.kid
BY DEF Dumped, Entry

LEMMA UpdatedType ==
  ASSUME NEW e \in Entry, NEW t \in Names, NEW o \in Objects
  PROVE  Updated(e, t, o) \in Entry /\ Updated(e, t, o).id = t
BY ObjectAssumption DEF Updated, Given, Entry, Object

LEMMA NotedType ==
  ASSUME post \in Post, NEW t \in Names, NEW o \in Objects, post.n < MaxObjects
  PROVE  Noted(t, o) \in Post
<1>1. post.n + 1 \in 0 .. MaxObjects
  BY EntryAssumption DEF Post
<1>2. /\ (post.scope \/ o.scope \in {"sec", "app"}) \in BOOLEAN
      /\ (post.other \/ o.kid # None \/ o.ms # None \/ o.salt # None) \in BOOLEAN
      /\ Known(t) \in BOOLEAN
  BY DEF Known
<1> QED
  BY <1>1, <1>2 DEF Noted, Post

\* The contexts made from a table have their types.
LEMMA SendersType ==
  ASSUME NEW table \in [Slots -> Entry]
  PROVE  Senders(table) \subseteq Context
<1> SUFFICES ASSUME NEW s \in Slots, Active(table[s])
             PROVE  SenderOf(table, s) \in Context
  BY DEF Senders
<1>1. table[s] \in Entry /\ table[s].id \in Names
  BY DEF Active, Entry
<1>2. KeyOf(table[s]) \in Key
  BY <1>1 DEF KeyOf, Key, Entry
<1> QED
  BY <1>1, <1>2 DEF SenderOf, Context, Entry

\* Only the recipient contexts survive oc_init_oscore_from_storage.
LEMMA InitOscoreType ==
  ASSUME ctxs \subseteq Context, NEW table \in [Slots -> Entry]
  PROVE  /\ InitOscore(table) \subseteq Context
         /\ \A c \in InitOscore(table) : c.role = "recipient" => c \in Recipients
<1>1. InitOscore(table) \subseteq Context
  BY SendersType DEF InitOscore, Recipients
<1>2. \A c \in Senders(table) : c.role = "sender"
  BY DEF Senders, SenderOf
<1> QED
  BY <1>1, <1>2 DEF InitOscore

\* A set of contexts with no new recipient has at most one for each KID.
LEMMA DistinctSubset ==
  ASSUME RecipientsDistinct, Recipients' \subseteq Recipients
  PROVE  RecipientsDistinct'
BY DEF RecipientsDistinct

LEMMA RecipientType ==
  ASSUME TableInv, NEW s \in Slots, NEW k \in Names, NEW x \in IdContexts,
         EntryFor(s, k)
  PROVE  /\ RecipientOf(s, x) \in Context
         /\ RecipientOf(s, x).kid = k /\ RecipientOf(s, x).idctx = x
<1>1. at[s] \in Entry /\ at[s].kid = k
  BY DEF TableInv, EntryFor
<1>2. at[s].id \in Names
  BY <1>1, NameAssumption DEF TableInv, KidsNamed, Entry
<1>3. KeyOf(at[s]) \in Key
  BY <1>1 DEF KeyOf, Key, Entry
<1> QED
  BY <1>1, <1>2, <1>3 DEF RecipientOf, Context

-----------------------------------------------------------------------------
(* What the writes to a slot preserve.                                     *)

\* Entry e goes to slot s and, if the write does not fail, to its file.
LEMMA SlotWritten ==
  ASSUME TableInv, NEW s \in Slots, NEW e \in Entry, e.id # None,
         at' = [at EXCEPT ![s] = e], Dump(s, e)
  PROVE  TableInv'
<1> USE DEF TableInv
<1>1. at' \in [Slots -> Entry]
  OBVIOUS
<1>2. CASE store' = [store EXCEPT ![s] = Dumped(e)] /\ torn' = torn
  <2>1. store' \in [Slots -> Entry]
    BY <1>2, DumpedType
  <2>2. KidsNamed' /\ SaltsUnstored'
    BY <1>2, DumpedType DEF KidsNamed, SaltsUnstored
  <2>3. StorageAgrees'
    BY <1>2 DEF StorageAgrees
  <2> QED
    BY <1>1, <1>2, <2>1, <2>2, <2>3
<1>3. CASE store' = store /\ torn' = TRUE
  <2>1. KidsNamed' /\ SaltsUnstored'
    BY <1>3 DEF KidsNamed, SaltsUnstored
  <2>2. StorageAgrees'
    BY <1>3 DEF StorageAgrees
  <2> QED
    BY <1>1, <1>3, <2>1, <2>2
<1> QED
  BY <1>2, <1>3 DEF Dump

\* The entries and files of the slots in S are emptied.
LEMMA SlotsCleared ==
  ASSUME TableInv, NEW S \in SUBSET Slots, torn' \in {torn, FALSE},
         torn' = FALSE /\ torn => S = Slots,
         at' = [s \in Slots |-> IF s \in S THEN NoEntry ELSE at[s]],
         store' = [s \in Slots |-> IF s \in S THEN NoEntry ELSE store[s]]
  PROVE  TableInv'
<1> USE DEF TableInv
<1>1. at' \in [Slots -> Entry] /\ store' \in [Slots -> Entry]
  BY NoEntryType
<1>2. KidsNamed' /\ SaltsUnstored'
  BY DEF KidsNamed, SaltsUnstored, NoEntry
<1>3. Dumped(NoEntry) = NoEntry
  BY DEF Dumped, NoEntry
<1>4. StorageAgrees'
  BY <1>3 DEF StorageAgrees
<1>5. torn' \in BOOLEAN
  OBVIOUS
<1> QED
  BY <1>1, <1>2, <1>4, <1>5

\* Nothing but an entry that the caller found may differ from its file.
LEMMA TableUnchanged ==
  ASSUME TableInv, UNCHANGED <<at, store>>, torn' = torn \/ torn' = TRUE
  PROVE  TableInv'
<1>1. KidsNamed' /\ SaltsUnstored'
  BY DEF TableInv, KidsNamed, SaltsUnstored
<1>2. StorageAgrees'
  BY DEF TableInv, StorageAgrees
<1> QED
  BY <1>1, <1>2 DEF TableInv

\* The contexts are those of InitOscore for a table.
LEMMA ContextsRebuilt ==
  ASSUME ContextInv, NEW table \in [Slots -> Entry], ctxs' = InitOscore(table)
  PROVE  ContextInv'
<1>1. ctxs' \subseteq Context /\ Recipients' \subseteq Recipients
  BY InitOscoreType DEF ContextInv, Recipients
<1> QED
  BY <1>1, DistinctSubset DEF ContextInv

\* Some contexts are freed.
LEMMA ContextsFreed ==
  ASSUME ContextInv, ctxs' \subseteq ctxs
  PROVE  ContextInv'
<1>1. Recipients' \subseteq Recipients
  BY DEF Recipients
<1> QED
  BY <1>1, DistinctSubset DEF ContextInv

-----------------------------------------------------------------------------
(* The table, the files and the contexts: one step per action.             *)

LEMMA InitEstablishesInv == Init => Inv
<1> SUFFICES ASSUME Init PROVE Inv
  OBVIOUS
<1> USE DEF Init
<1>1. at \in [Slots -> Entry] /\ store \in [Slots -> Entry]
  BY NoEntryType
<1>2. KidsNamed /\ SaltsUnstored
  BY DEF KidsNamed, SaltsUnstored, NoEntry
<1>3. StorageAgrees
  BY DEF StorageAgrees, Dumped, NoEntry
<1>4. TableInv
  BY <1>1, <1>2, <1>3 DEF TableInv
<1>5. ContextInv
  BY DEF ContextInv, RecipientsDistinct, Recipients
<1> QED
  BY <1>4, <1>5, NoPostType DEF Inv

LEMMA PostObjectPreserves ==
  ASSUME Inv, NEW s \in Slots, NEW t \in Names, NEW o \in Objects,
         PostObject(s, t, o)
  PROVE  Inv'
<1> USE DEF Inv
<1>1. TableInv'
  <2>1. CASE IdOnly(o)
    <3>1. /\ at' = [u \in Slots |-> IF u \in {s} THEN NoEntry ELSE at[u]]
          /\ store' = [u \in Slots |-> IF u \in {s} THEN NoEntry ELSE store[u]]
          /\ torn' = torn
      BY <2>1 DEF PostObject, TableInv
    <3>2. torn' \in {torn, FALSE} /\ (torn' = FALSE /\ torn => {s} = Slots)
      BY <3>1
    <3> QED
      BY <3>1, <3>2, SlotsCleared
  <2>2. CASE ~IdOnly(o)
    <3> DEFINE e == Updated(at[s], t, o)
    <3>1. at[s] \in Entry
      BY DEF TableInv
    <3>2. e \in Entry /\ e.id # None
      BY <3>1, UpdatedType, NameAssumption
    <3>3. at' = [at EXCEPT ![s] = e] /\ at'[s] = e
      BY <2>2 DEF PostObject, TableInv
    <3>4. Dump(s, at'[s])
      BY <2>2 DEF PostObject
    <3>5. Dump(s, e)
      BY <3>3, <3>4
    <3> HIDE DEF e
    <3> QED
      BY <3>2, <3>3, <3>5, SlotWritten
  <2> QED
    BY <2>1, <2>2
<1>2. ContextInv'
  BY ContextsFreed DEF PostObject
<1>3. post' \in Post
  BY NotedType DEF PostObject
<1> QED
  BY <1>1, <1>2, <1>3 DEF PostObject

\* The entry of a POST refused half way is the one write without a Dump.
LEMMA PostRefusedMidwayPreserves ==
  ASSUME Inv, NEW s \in Slots, NEW t \in Names, NEW o \in Objects,
         PostRefusedMidway(s, t, o)
  PROVE  Inv'
<1> USE DEF Inv
<1> DEFINE e == Updated(at[s], t, o)
<1>1. e \in Entry /\ e.id # None
  BY UpdatedType, NameAssumption DEF TableInv
<1>2. at' = [at EXCEPT ![s] = e] /\ Dump(s, e)
  BY DEF PostRefusedMidway, Dump
<1>3. TableInv'
  BY <1>1, <1>2, SlotWritten
<1>4. ContextInv'
  BY ContextsFreed DEF PostRefusedMidway
<1> QED
  BY <1>3, <1>4, NoPostType DEF PostRefusedMidway

LEMMA PostEndPreserves ==
  ASSUME Inv, PostEnd
  PROVE  Inv'
<1> USE DEF Inv
<1>1. TableInv'
  BY TableUnchanged DEF PostEnd
<1>2. ContextInv'
  BY ContextsFreed, ContextsRebuilt DEF PostEnd, TableInv
<1> QED
  BY <1>1, <1>2, NoPostType DEF PostEnd

LEMMA DeleteTokenPreserves ==
  ASSUME Inv, NEW s \in Slots, DeleteToken(s)
  PROVE  Inv'
<1> USE DEF Inv
<1>1. /\ at' = [u \in Slots |-> IF u \in {s} THEN NoEntry ELSE at[u]]
      /\ store' = [u \in Slots |-> IF u \in {s} THEN NoEntry ELSE store[u]]
      /\ torn' = torn
  BY DEF DeleteToken, TableInv
<1>2. torn' \in {torn, FALSE} /\ (torn' = FALSE /\ torn => {s} = Slots)
  BY <1>1
<1>3. TableInv'
  BY <1>1, <1>2, SlotsCleared
<1>4. ContextInv'
  BY ContextsFreed DEF DeleteToken
<1> QED
  BY <1>3, <1>4 DEF DeleteToken

LEMMA DeleteTablePreserves ==
  ASSUME Inv, DeleteTable
  PROVE  Inv'
<1> USE DEF Inv
<1>1. /\ at' = [u \in Slots |-> IF u \in Slots THEN NoEntry ELSE at[u]]
      /\ store' = [u \in Slots |-> IF u \in Slots THEN NoEntry ELSE store[u]]
      /\ torn' = FALSE
  BY DEF DeleteTable
<1>2. TableInv'
  BY <1>1, SlotsCleared
<1>3. ContextInv'
  BY ContextsFreed DEF DeleteTable
<1> QED
  BY <1>2, <1>3 DEF DeleteTable

LEMMA ResetTablePreserves ==
  ASSUME Inv, ResetTable
  PROVE  Inv'
<1> USE DEF Inv
<1> DEFINE S == {s \in Slots : at[s].scope # "sec"}
<1>1. /\ at' = [u \in Slots |-> IF u \in S THEN NoEntry ELSE at[u]]
      /\ store' = [u \in Slots |-> IF u \in S THEN NoEntry ELSE store[u]]
      /\ torn' = torn
  BY DEF ResetTable
<1>2. torn' \in {torn, FALSE} /\ (torn' = FALSE /\ torn => S = Slots)
  BY <1>1
<1>3. TableInv'
  <2>1. S \in SUBSET Slots
    OBVIOUS
  <2> HIDE DEF S
  <2> QED
    BY <1>1, <1>2, <2>1, SlotsCleared
<1>4. ContextInv'
  BY <1>3, ContextsRebuilt DEF ResetTable, TableInv
<1> QED
  BY <1>3, <1>4 DEF ResetTable

LEMMA SetAuthSharedPreserves ==
  ASSUME Inv, NEW s \in Slots, NEW t \in Names, NEW ms \in Secrets,
         SetAuthShared(s, t, ms)
  PROVE  Inv'
<1> USE DEF Inv
<1> DEFINE e == [id |-> t, kid |-> t, ms |-> ms, salt |-> at[s].salt,
                 scope |-> "sec", profile |-> "pase"]
<1>1. e \in Entry /\ e.id # None
  BY NameAssumption DEF TableInv, Entry, Scopes, Profiles
<1>2. at' = [at EXCEPT ![s] = e] /\ at'[s] = e
  BY DEF SetAuthShared, TableInv
<1>3. Dump(s, at'[s])
  BY DEF SetAuthShared
<1> HIDE DEF e
<1>4. TableInv'
  BY <1>1, <1>2, <1>3, SlotWritten
<1>5. ContextInv'
  BY <1>4, ContextsRebuilt DEF SetAuthShared, TableInv
<1> QED
  BY <1>4, <1>5 DEF SetAuthShared

\* A recipient context is made only where none answers for the KID.
LEMMA ReceiveFirstPreserves ==
  ASSUME Inv, NEW s \in Slots, NEW k \in Names, NEW x \in IdContexts,
         NEW decrypts \in BOOLEAN, ReceiveFirst(s, k, x, decrypts)
  PROVE  Inv'
<1> USE DEF Inv
<1> DEFINE r == RecipientOf(s, x)
<1>1. r \in Context /\ r.kid = k /\ r.idctx = x
  BY RecipientType DEF ReceiveFirst
<1>2. ctxs' = ctxs \cup {r} /\ \A c \in Recipients : ~(c.kid = k /\ c.idctx = x)
  BY DEF ReceiveFirst, CachedFor, Recipients
<1> HIDE DEF r
<1>3. Recipients' \subseteq Recipients \cup {r}
  BY <1>2 DEF Recipients
<1>4. ContextInv'
  BY <1>1, <1>2, <1>3 DEF ContextInv, RecipientsDistinct
<1>5. TableInv'
  BY TableUnchanged DEF ReceiveFirst
<1>6. foreign' \in BOOLEAN
  BY Zenon DEF ReceiveFirst, Granted
<1> QED
  BY <1>4, <1>5, <1>6 DEF ReceiveFirst

LEMMA RebootPreserves ==
  ASSUME Inv, Reboot
  PROVE  Inv'
<1> USE DEF Inv
<1>1. at' = store /\ store' = store /\ torn' = FALSE /\ ctxs' = Senders(store)
  BY DEF Reboot
<1>2. KidsNamed' /\ SaltsUnstored'
  BY <1>1 DEF TableInv, KidsNamed, SaltsUnstored
<1>3. \A e \in Entry : e.salt = None => Dumped(e) = e
  BY DEF Dumped, Entry
<1>4. StorageAgrees'
  BY <1>1, <1>3 DEF TableInv, StorageAgrees, SaltsUnstored
<1>5. TableInv'
  BY <1>1, <1>2, <1>4 DEF TableInv
<1>6. ctxs' \subseteq Context /\ Recipients' = {}
  BY <1>1, SendersType DEF TableInv, Recipients, Senders, SenderOf
<1>7. ContextInv'
  BY <1>6 DEF ContextInv, RecipientsDistinct
<1> QED
  BY <1>5, <1>7, NoPostType DEF Reboot

LEMMA NextPreservesInv == Inv /\ [Next]_vars => Inv'
<1> SUFFICES ASSUME Inv, [Next]_vars PROVE Inv'
  OBVIOUS
<1>1. CASE PostRefused
  <2>1. TableInv' /\ ContextInv'
    BY <1>1, TableUnchanged, ContextsFreed DEF PostRefused, Inv
  <2> QED
    BY <1>1, <2>1, NoPostType DEF PostRefused, Inv
<1>2. CASE \E c \in ctxs : ReceiveCached(c)
  <2>1. PICK c \in ctxs : ReceiveCached(c)
    BY <1>2
  <2>2. TableInv' /\ ContextInv'
    BY <2>1, TableUnchanged, ContextsFreed DEF ReceiveCached, Inv
  <2>3. foreign' \in BOOLEAN
    BY <2>1, Zenon DEF ReceiveCached, Granted
  <2> QED
    BY <2>1, <2>2, <2>3 DEF ReceiveCached, Inv
<1>3. CASE \E s \in Slots, k \in Names, x \in IdContexts, c \in ctxs :
             ReceiveKeyless(s, k, x, c)
  <2>1. TableInv' /\ ContextInv'
    BY <1>3, TableUnchanged, ContextsFreed DEF ReceiveKeyless, Inv
  <2> QED
    BY <1>3, <2>1 DEF ReceiveKeyless, Inv
<1>4. CASE UNCHANGED vars
  <2>1. TableInv' /\ ContextInv'
    BY <1>4, TableUnchanged, ContextsFreed DEF vars, Inv
  <2> QED
    BY <1>4, <2>1 DEF vars, Inv
<1> QED
  BY <1>1, <1>2, <1>3, <1>4, PostObjectPreserves, PostRefusedMidwayPreserves,
     PostEndPreserves, DeleteTokenPreserves, DeleteTablePreserves,
     ResetTablePreserves, SetAuthSharedPreserves, ReceiveFirstPreserves,
     RebootPreserves
  DEF Next

-----------------------------------------------------------------------------
(* The ids.                                                                *)

\* An entry goes to the slot with its id, or to a free one when none has it.
LEMMA IdWritten ==
  ASSUME TableInv, IdInv, NEW s \in Slots, NEW e \in Entry,
         at[s].id = e.id \/ (at[s].id = None /\ ~Known(e.id)),
         at' = [at EXCEPT ![s] = e],
         store' = store \/ store' = [store EXCEPT ![s] = Dumped(e)]
  PROVE  IdInv'
<1>1. StoredIds'
  BY DumpedType DEF TableInv, IdInv, StoredIds
<1>2. UniqueTokens'
  BY DEF TableInv, IdInv, UniqueTokens, Known
<1> QED
  BY <1>1, <1>2 DEF IdInv

LEMMA IdsCleared ==
  ASSUME TableInv, IdInv, NEW S \in SUBSET Slots,
         at' = [s \in Slots |-> IF s \in S THEN NoEntry ELSE at[s]],
         store' = [s \in Slots |-> IF s \in S THEN NoEntry ELSE store[s]]
  PROVE  IdInv'
BY DEF TableInv, IdInv, StoredIds, UniqueTokens, NoEntry

LEMMA IdsUnchanged ==
  ASSUME IdInv, UNCHANGED <<at, store>>
  PROVE  IdInv'
BY DEF IdInv, StoredIds, UniqueTokens

LEMMA NextPreservesIds ==
  ASSUME Begins = {}, Inv, IdInv, [Next]_vars
  PROVE  IdInv'
<1> USE DEF Inv
<1>1. CASE \E s \in Slots, t \in Names, o \in Objects :
             PostObject(s, t, o) \/ PostRefusedMidway(s, t, o)
  <2>1. PICK s \in Slots, t \in Names, o \in Objects :
           PostObject(s, t, o) \/ PostRefusedMidway(s, t, o)
    BY <1>1
  <2> DEFINE e == Updated(at[s], t, o)
  <2>2. e \in Entry /\ e.id = t
    BY UpdatedType DEF TableInv
  <2>3. at[s].id = t \/ (at[s].id = None /\ ~Known(t))
    BY <2>1 DEF PostObject, PostRefusedMidway, SlotFor, FirstFree
  <2>4. CASE PostObject(s, t, o) /\ IdOnly(o)
    <3>1. /\ at' = [u \in Slots |-> IF u \in {s} THEN NoEntry ELSE at[u]]
          /\ store' = [u \in Slots |-> IF u \in {s} THEN NoEntry ELSE store[u]]
      BY <2>4 DEF PostObject, TableInv
    <3> QED
      BY <3>1, IdsCleared
  <2>5. CASE (PostObject(s, t, o) /\ ~IdOnly(o)) \/ PostRefusedMidway(s, t, o)
    <3>1. at' = [at EXCEPT ![s] = e]
      BY <2>5 DEF PostObject, PostRefusedMidway
    <3>2. at'[s] = e
      BY <3>1 DEF TableInv
    <3>3. store' = store \/ store' = [store EXCEPT ![s] = Dumped(e)]
      BY <2>5, <3>2 DEF PostObject, PostRefusedMidway, Dump
    <3> HIDE DEF e
    <3> QED
      BY <2>2, <2>3, <3>1, <3>3, IdWritten
  <2> QED
    BY <2>1, <2>4, <2>5
<1>2. CASE \E s \in Slots : DeleteToken(s)
  <2>1. PICK s \in Slots : DeleteToken(s)
    BY <1>2
  <2>2. /\ at' = [u \in Slots |-> IF u \in {s} THEN NoEntry ELSE at[u]]
        /\ store' = [u \in Slots |-> IF u \in {s} THEN NoEntry ELSE store[u]]
    BY <2>1 DEF DeleteToken, TableInv
  <2> QED
    BY <2>2, IdsCleared
<1>3. CASE DeleteTable
  <2>1. /\ at' = [u \in Slots |-> IF u \in Slots THEN NoEntry ELSE at[u]]
        /\ store' = [u \in Slots |-> IF u \in Slots THEN NoEntry ELSE store[u]]
    BY <1>3 DEF DeleteTable
  <2> QED
    BY <2>1, IdsCleared
<1>4. CASE ResetTable
  <2> DEFINE S == {s \in Slots : at[s].scope # "sec"}
  <2>1. /\ at' = [u \in Slots |-> IF u \in S THEN NoEntry ELSE at[u]]
        /\ store' = [u \in Slots |-> IF u \in S THEN NoEntry ELSE store[u]]
    BY <1>4 DEF ResetTable
  <2>2. S \in SUBSET Slots
    OBVIOUS
  <2> HIDE DEF S
  <2> QED
    BY <2>1, <2>2, IdsCleared
<1>5. CASE \E s \in Slots, t \in Names, ms \in Secrets : SetAuthShared(s, t, ms)
  <2>1. PICK s \in Slots, t \in Names, ms \in Secrets : SetAuthShared(s, t, ms)
    BY <1>5
  <2> DEFINE e == [id |-> t, kid |-> t, ms |-> ms, salt |-> at[s].salt,
                   scope |-> "sec", profile |-> "pase"]
  <2>2. e \in Entry /\ e.id = t
    BY DEF TableInv, Entry, Scopes, Profiles
  <2>3. at[s].id = t \/ (at[s].id = None /\ ~Known(t))
    BY <2>1 DEF SetAuthShared, SharedSlot, Matches, FirstFree, Known
  <2>4. at' = [at EXCEPT ![s] = e] /\ at'[s] = e
    BY <2>1 DEF SetAuthShared, TableInv
  <2>5. store' = store \/ store' = [store EXCEPT ![s] = Dumped(at'[s])]
    BY <2>1 DEF SetAuthShared, Dump
  <2> HIDE DEF e
  <2> QED
    BY <2>2, <2>3, <2>4, <2>5, IdWritten
<1>6. CASE Reboot
  BY <1>6 DEF Reboot, IdInv, StoredIds, UniqueTokens
<1>7. CASE UNCHANGED <<at, store>>
  BY <1>7, IdsUnchanged
<1> QED
  BY <1>1, <1>2, <1>3, <1>4, <1>5, <1>6, <1>7
  DEF Next, PostRefused, PostEnd, ReceiveCached, ReceiveFirst, ReceiveKeyless, vars

-----------------------------------------------------------------------------
(* The sender contexts.                                                    *)

SendersMade == ctxs \ Recipients \subseteq Senders(at)

\* During a POST a sender context may be older than its entry, but then an object
\* had a key or a KID, and the end of the list makes all contexts anew.
SendersInv ==
  ~torn /\ ~removed => \/ SendersMade
                       \/ post # NoPost /\ post.other

\* Contexts made from the table, and recipients.
LEMMA SendersRebuilt ==
  ASSUME ctxs' = InitOscore(at')
  PROVE  SendersMade'
<1>1. \A c \in ctxs' : c.role # "recipient" => c \in Senders(at')
  BY DEF InitOscore, Recipients
<1> QED
  BY <1>1 DEF SendersMade, Recipients, Senders, SenderOf

\* The sender context of an entry is still that of the entry after an object
\* that carries neither key nor KID and does not take the token out of use.
LEMMA SenderKept ==
  ASSUME TableInv, NEW s \in Slots, NEW t \in Names, NEW o \in Objects,
         SlotFor(s, t), o.kid = None, o.ms = None, o.salt = None,
         at' = [at EXCEPT ![s] = IF IdOnly(o) THEN NoEntry ELSE Updated(at[s], t, o)],
         Active(at[s]) => Active(at'[s])
  PROVE  Senders(at) \subseteq Senders(at')
<1> SUFFICES ASSUME NEW u \in Slots, Active(at[u])
             PROVE  SenderOf(at, u) \in Senders(at')
  BY DEF Senders
<1>1. at'[u] = IF u = s THEN (IF IdOnly(o) THEN NoEntry ELSE Updated(at[s], t, o)) ELSE at[u]
  BY DEF TableInv
<1>2. Active(at'[u]) /\ SenderOf(at', u) = SenderOf(at, u)
  <2>1. CASE u # s
    BY <1>1, <2>1 DEF SenderOf
  <2>2. CASE u = s
    <3>1. at[s].id = t
      BY <2>2 DEF SlotFor, FirstFree, Active
    <3>2. Active(at'[s]) /\ ~Active(NoEntry)
      BY <2>2 DEF Active, NoEntry
    <3>3. at'[s] = Updated(at[s], t, o)
      BY <1>1, <2>2, <3>2
    <3> QED
      BY <2>2, <3>1, <3>2, <3>3 DEF Updated, Given, SenderOf, KeyOf
  <2> QED
    BY <2>1, <2>2
<1> QED
  BY <1>2 DEF Senders

LEMMA PostObjectSenders ==
  ASSUME Inv, SendersInv, NEW s \in Slots, NEW t \in Names, NEW o \in Objects,
         PostObject(s, t, o)
  PROVE  SendersInv'
<1>1. /\ post' # NoPost
      /\ post'.other = (post.other \/ o.kid # None \/ o.ms # None \/ o.salt # None)
  <2>1. post'.n = post.n + 1 /\ NoPost.n = 0
    BY DEF PostObject, Noted, NoPost
  <2>2. post.n \in Nat
    BY DEF Inv, Post
  <2>3. post' # NoPost
    BY <2>1, <2>2
  <2> QED
    BY <2>3 DEF PostObject, Noted
<1>2. CASE post'.other
  BY <1>1, <1>2 DEF SendersInv
<1>3. CASE ~post'.other
  <2>1. SUFFICES ASSUME ~torn', ~removed' PROVE SendersMade'
    BY DEF SendersInv
  <2>2. ~torn /\ ~removed /\ (Active(at[s]) => Active(at'[s]))
    BY <2>1 DEF PostObject, Dump, Inv, TableInv
  <2>3. o.kid = None /\ o.ms = None /\ o.salt = None /\ ~post.other
    BY <1>1, <1>3, Zenon
  <2>4. /\ at' = [at EXCEPT ![s] = IF IdOnly(o) THEN NoEntry ELSE Updated(at[s], t, o)]
        /\ SlotFor(s, t) /\ ctxs' = ctxs
    BY DEF PostObject
  <2>5. Senders(at) \subseteq Senders(at')
    BY <2>2, <2>3, <2>4, SenderKept DEF Inv
  <2>6. SendersMade
    BY <2>2, <2>3 DEF SendersInv
  <2> QED
    BY <2>4, <2>5, <2>6 DEF SendersMade, Recipients
<1> QED
  BY <1>2, <1>3

LEMMA PostEndSenders ==
  ASSUME SendersInv, PostEnd
  PROVE  SendersInv'
<1>1. CASE ScopeOnly
  <2>1. ~torn /\ ~removed => SendersMade
    BY <1>1 DEF ScopeOnly, SendersInv
  <2>2. UNCHANGED <<at, ctxs, torn>> /\ (removed => removed')
    BY <1>1 DEF PostEnd
  <2> QED
    BY <2>1, <2>2 DEF SendersInv, SendersMade, Recipients
<1>2. CASE ~ScopeOnly
  <2>1. ctxs' = InitOscore(at')
    BY <1>2 DEF PostEnd
  <2> QED
    BY <2>1, SendersRebuilt DEF SendersInv
<1> QED
  BY <1>1, <1>2

LEMMA DeleteTokenSenders ==
  ASSUME Inv, SendersInv, NEW s \in Slots, DeleteToken(s)
  PROVE  SendersInv'
<1>1. SUFFICES ASSUME ~torn, ~removed PROVE SendersMade'
  BY DEF DeleteToken, SendersInv
<1>2. SendersMade
  BY <1>1 DEF DeleteToken, Idle, SendersInv
<1> SUFFICES ASSUME NEW c \in ctxs', c.role # "recipient"
             PROVE  c \in Senders(at')
  BY DEF SendersMade, Recipients
<1>3. c \in ctxs /\ c.slot # s
  BY DEF DeleteToken
<1>4. c \in Senders(at)
  BY <1>2, <1>3 DEF SendersMade, Recipients
<1>5. PICK u \in Slots : Active(at[u]) /\ c = SenderOf(at, u)
  BY <1>4 DEF Senders
<1>6. u # s
  BY <1>3, <1>5 DEF SenderOf
<1>7. at'[u] = at[u]
  BY <1>6 DEF DeleteToken, Inv, TableInv
<1> QED
  BY <1>5, <1>7 DEF Senders, SenderOf

\* The table stays, and no sender context is added.
LEMMA SendersFewer ==
  ASSUME SendersInv, UNCHANGED <<at, post, torn, removed>>,
         ctxs' \ Recipients' \subseteq ctxs \ Recipients
  PROVE  SendersInv'
BY DEF SendersInv, SendersMade

LEMMA NextPreservesSenders ==
  ASSUME Inv, SendersInv, [Next]_vars
  PROVE  SendersInv'
<1>1. CASE \E s \in Slots, t \in Names, o \in Objects : PostObject(s, t, o)
  BY <1>1, PostObjectSenders
<1>2. CASE \/ \E s \in Slots, t \in Names, o \in Objects : PostRefusedMidway(s, t, o)
           \/ PostRefused
  <2>1. torn' = TRUE /\ post' = NoPost
    BY <1>2 DEF PostRefusedMidway, PostRefused
  <2> QED
    BY <2>1 DEF SendersInv, NoPost
<1>3. CASE PostEnd
  BY <1>3, PostEndSenders
<1>4. CASE \E s \in Slots : DeleteToken(s)
  BY <1>4, DeleteTokenSenders
<1>5. CASE DeleteTable
  BY <1>5 DEF DeleteTable, SendersInv, SendersMade
<1>6. CASE \/ ResetTable
           \/ \E s \in Slots, t \in Names, ms \in Secrets : SetAuthShared(s, t, ms)
  <2>1. ctxs' = InitOscore(at') /\ post' = post
    BY <1>6 DEF ResetTable, SetAuthShared
  <2> QED
    BY <2>1, SendersRebuilt DEF SendersInv
<1>7. CASE \E s \in Slots, k \in Names, x \in IdContexts, decrypts \in BOOLEAN :
             ReceiveFirst(s, k, x, decrypts)
  <2>1. PICK s \in Slots, k \in Names, x \in IdContexts, decrypts \in BOOLEAN :
           ReceiveFirst(s, k, x, decrypts)
    BY <1>7
  <2>2. RecipientOf(s, x).role = "recipient"
    BY DEF RecipientOf
  <2>3. ctxs' = ctxs \cup {RecipientOf(s, x)} /\ UNCHANGED <<at, post, torn, removed>>
    BY <2>1 DEF ReceiveFirst
  <2>4. ctxs' \ Recipients' \subseteq ctxs \ Recipients
    BY <2>2, <2>3 DEF Recipients
  <2> QED
    BY <2>3, <2>4, SendersFewer
<1>8. CASE \/ \E c \in ctxs : ReceiveCached(c)
           \/ \E s \in Slots, k \in Names, x \in IdContexts, c \in ctxs :
                ReceiveKeyless(s, k, x, c)
           \/ UNCHANGED vars
  <2>1. ctxs' \subseteq ctxs /\ UNCHANGED <<at, post, torn, removed>>
    BY <1>8 DEF ReceiveCached, ReceiveKeyless, vars
  <2>2. ctxs' \ Recipients' \subseteq ctxs \ Recipients
    BY <2>1 DEF Recipients
  <2> QED
    BY <2>1, <2>2, SendersFewer
<1>9. CASE Reboot
  <2>1. ctxs' = Senders(at') /\ post' = NoPost
    BY <1>9 DEF Reboot
  <2> QED
    BY <2>1 DEF SendersInv, SendersMade, NoPost
<1> QED
  BY <1>1, <1>2, <1>3, <1>4, <1>5, <1>6, <1>7, <1>8, <1>9 DEF Next

-----------------------------------------------------------------------------

\* The table, its files and the contexts always have their types: no context
\* points at a slot outside the table or at a name that is no token's.
THEOREM AccessTypes == Spec => []TypeOK
<1>1. Inv => TypeOK
  BY DEF Inv, TableInv, ContextInv, TypeOK
<1> QED
  BY <1>1, InitEstablishesInv, NextPreservesInv, PTL DEF Spec

\* If no name begins with another one, the ids of the entries are unique after
\* any sequence of posts, refusals, failed writes, resets and power failures:
\* find_index_from_at finds the only entry of a token.
THEOREM TokensAreUnique == ASSUME Begins = {} PROVE Spec => []UniqueTokens
<1>1. Init => Inv /\ IdInv
  <2>1. Init => IdInv
    BY DEF Init, IdInv, StoredIds, UniqueTokens, NoEntry
  <2> QED
    BY <2>1, InitEstablishesInv
<1>2. Inv /\ IdInv /\ [Next]_vars => (Inv /\ IdInv)'
  BY NextPreservesInv, NextPreservesIds
<1>3. IdInv => UniqueTokens
  BY DEF IdInv
<1> QED
  BY <1>1, <1>2, <1>3, PTL DEF Spec

\* Unless a POST was refused half way or a write failed, oc_load_at_table finds
\* the table as it is, the salts apart, also in the middle of a POST.
THEOREM StorageAgreesWithTable == Spec => []StorageAgrees
<1>1. Inv => StorageAgrees
  BY DEF Inv, TableInv
<1> QED
  BY <1>1, InitEstablishesInv, NextPreservesInv, PTL DEF Spec

\* oc_oscore_recv_message never caches a second recipient context for a KID and
\* a KID context: the key a request is verified with is determined.
THEOREM RecipientsAreDistinct == Spec => []RecipientsDistinct
<1>1. Inv => RecipientsDistinct
  BY DEF Inv, ContextInv
<1> QED
  BY <1>1, InitEstablishesInv, NextPreservesInv, PTL DEF Spec

\* The device never sends with the key of a token that was deleted or given
\* another key, unless a POST was refused half way or took a token out of use:
\* oc_core_auth_at_post_handler leaves the contexts alone only when no object had
\* a key or a KID.
THEOREM SendersAreCurrent == Spec => []SendersCurrent
<1>1. Init => Inv /\ SendersInv
  <2>1. Init => SendersInv
    BY DEF Init, SendersInv, SendersMade
  <2> QED
    BY <2>1, InitEstablishesInv
<1>2. Inv /\ SendersInv /\ [Next]_vars => (Inv /\ SendersInv)'
  BY NextPreservesInv, NextPreservesSenders
<1>3. SendersInv => SendersCurrent
  BY DEF SendersInv, SendersMade, SendersCurrent, Idle
<1> QED
  BY <1>1, <1>2, <1>3, PTL DEF Spec
=============================================================================
