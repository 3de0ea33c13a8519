-------------------------- MODULE DeviceStateProofs --------------------------
(***************************************************************************)
(* The configuration of a device, for any number of entries, ids, groups,  *)
(* addresses, commands and power failures: the tables are in their files,  *)
(* an unloaded device is empty, a device in runtime listens, a factory     *)
(* reset is complete and a fingerprint tells one content of the tables.    *)
(***************************************************************************)
EXTENDS DeviceState, TLAPS

-----------------------------------------------------------------------------
(* The inductive invariant.                                                *)

\* the tables and their files, the device and its files, what a tool knows
TablesType ==
  /\ tab \in [Places -> Entry]
  /\ files \in [Places -> Entry]
  /\ post \in Post
  /\ print \in [ram : 0 .. MaxPrint, file : 0 .. MaxPrint]
  /\ unsaved \subseteq Places
DeviceType ==
  /\ dev \in Device
  /\ disk \in Device
  /\ pending \in Seq(EraseCodes \cup {NoCode})
  /\ cached \in EraseCodes \cup {NoCode}
  /\ refused \in BOOLEAN /\ factory \in BOOLEAN
  /\ cut \in BOOLEAN
JoinedType == joined \subseteq Groups \X (Iids \cup {0})
ToolType == tool \in [print : -1 .. MaxPrint, tab : [Places -> Entry]]

\* An entry of the group object table that has an id has what it needs.
GoodEntry(p, e) ==
  p[1] = "g" /\ e.id # NoId => e.ga # {} /\ e.flags # "none" /\ e.href = "own"

\* What is read at the next start is as it should be, even where the memory is
\* not: a power failure makes the files the tables.
FilesSane == \A p \in Places : GoodEntry(p, files[p])

TablesInv == TablesType /\ TablesStored /\ FilesSane

\* The load state is written whenever it changes, and last of all.
StateStored == disk.lsm = dev.lsm

\* What a tool has read is not newer than the fingerprint, and holds unless a
\* POST has changed it that will increase the fingerprint at its end.
ReadingHolds ==
  /\ print.file = print.ram
  /\ tool.print <= print.ram
  /\ Idle /\ tool.print = print.ram => tool.tab = tab

Inv ==
  /\ TablesInv /\ DeviceType /\ JoinedType /\ ToolType
  /\ StateStored /\ UnloadedEmpty /\ RuntimeListens /\ FactoryResetComplete
  /\ ReadingHolds

-----------------------------------------------------------------------------
(* The tables.                                                             *)

LEMMA NoEntryType == NoEntry \in Entry /\ EmptyTables \in [Places -> Entry]
BY DEF NoEntry, Entry, EmptyTables

LEMMA NoEntryGood == \A p \in Places : GoodEntry(p, NoEntry)
BY DEF GoodEntry, NoEntry

\* What an object makes of an entry is an entry.
LEMMA UpdatedType ==
  ASSUME NEW k \in Kinds, NEW e \in Entry, NEW i \in Ids \cup {NoId}, NEW o \in Objects
  PROVE  Updated(k, e, i, o) \in Entry
BY ObjectAssumption DEF Updated, Entry, Has, HasGroups

\* Erasing an entry, or saving one that is sane, leaves memory and file alike.
LEMMA ErasePreserves ==
  ASSUME TablesInv, NEW p \in Places, Erase(p)
  PROVE  /\ tab' \in [Places -> Entry] /\ files' \in [Places -> Entry]
         /\ unsaved' \subseteq Places /\ TablesStored' /\ FilesSane'
<1> USE DEF TablesInv
<1>1. tab' \in [Places -> Entry] /\ files' \in [Places -> Entry]
  BY NoEntryType DEF Erase, TablesType
<1>2. \A q \in Places : \/ q = p /\ tab'[q] = NoEntry /\ files'[q] = NoEntry
                        \/ q # p /\ tab'[q] = tab[q] /\ files'[q] = files[q]
  BY DEF Erase, TablesType
<1>3. unsaved' \subseteq Places /\ \A q \in Places \ unsaved' : q = p \/ q \notin unsaved
  BY DEF Erase, TablesType
<1>4. TablesStored'
  BY <1>2, <1>3 DEF TablesStored
<1>5. FilesSane'
  BY <1>2, NoEntryGood DEF FilesSane
<1> QED
  BY <1>1, <1>3, <1>4, <1>5

LEMMA SavePreserves ==
  ASSUME TablesInv, NEW p \in Places, NEW e \in Entry, GoodEntry(p, e), Save(p, e)
  PROVE  /\ tab' \in [Places -> Entry] /\ files' \in [Places -> Entry]
         /\ unsaved' \subseteq Places /\ TablesStored' /\ FilesSane'
<1> USE DEF TablesInv
<1>1. tab' \in [Places -> Entry] /\ files' \in [Places -> Entry]
  BY DEF Save, TablesType
<1>2. \A q \in Places : \/ q = p /\ tab'[q] = e /\ files'[q] = e
                        \/ q # p /\ tab'[q] = tab[q] /\ files'[q] = files[q]
  BY DEF Save, TablesType
<1>3. unsaved' \subseteq Places /\ \A q \in Places \ unsaved' : q = p \/ q \notin unsaved
  BY DEF Save, TablesType
<1>4. TablesStored'
  BY <1>2, <1>3 DEF TablesStored
<1>5. FilesSane'
  BY <1>2 DEF FilesSane
<1> QED
  BY <1>1, <1>3, <1>4, <1>5

\* One more object of a POST has been handled.
LEMMA CountedType ==
  ASSUME NEW p \in Post, NEW k \in Kinds, p.n < MaxObjects,
         NEW q, \/ q = [p EXCEPT !.n = @ + 1]
                \/ q = [p EXCEPT !.kind = k, !.n = @ + 1]
                \/ q = [kind |-> k, n |-> p.n + 1, bad |-> TRUE]
  PROVE  q \in Post /\ q # NoPost
<1>1. p.n + 1 \in 0 .. MaxObjects
  BY EntryAssumption DEF Post
<1>2. CASE q = [p EXCEPT !.n = @ + 1]
  BY <1>1, <1>2 DEF Post, NoPost
<1>3. CASE q = [p EXCEPT !.kind = k, !.n = @ + 1]
  <2>1. [p EXCEPT !.kind = k] \in Post /\ [p EXCEPT !.kind = k].n = p.n
    BY DEF Post
  <2>2. \A x \in Post : x.n = p.n => /\ [x EXCEPT !.n = x.n + 1] \in Post
                                     /\ [x EXCEPT !.n = x.n + 1].n = p.n + 1
    BY <1>1 DEF Post
  <2>3. q = [[p EXCEPT !.kind = k] EXCEPT !.n = @ + 1]
    BY <1>3
  <2>4. q \in Post /\ q.n = p.n + 1
    BY <2>1, <2>2, <2>3
  <2> QED
    BY <2>4 DEF Post, NoPost
<1>4. CASE q = [kind |-> k, n |-> p.n + 1, bad |-> TRUE]
  BY <1>1, <1>4 DEF Post, NoPost
<1> QED
  BY <1>2, <1>3, <1>4

LEMMA PostObjectKeepsTables ==
  ASSUME TablesInv, NEW k \in Kinds, NEW s \in Slots, NEW i \in Ids \cup {NoId},
         NEW o \in Objects, PostObject(k, s, i, o)
  PROVE  TablesInv'
<1> USE DEF TablesInv
<1> DEFINE p == <<k, s>>
           e == Updated(k, tab[p], i, o)
<1>1. p \in Places
  BY DEF Places
<1>2. e \in Entry
  BY <1>1, UpdatedType DEF TablesType
<1>3. /\ post.n < MaxObjects /\ post.kind \in {"none", k} /\ post \in Post
      /\ print' = print
  BY DEF PostObject, Begins, TablesType
<1>4. post' \in Post
  BY <1>3, CountedType DEF PostObject
<1>5. CASE /\ post.bad
           /\ tab' = [tab EXCEPT ![p] = e]
           /\ unsaved' = unsaved \cup {p}
           /\ files' = files
  <2>1. tab' \in [Places -> Entry] /\ files' \in [Places -> Entry] /\ unsaved' \subseteq Places
    BY <1>1, <1>2, <1>5 DEF TablesType
  <2>2. TablesStored' /\ FilesSane'
    BY <1>5 DEF TablesStored, FilesSane, TablesType
  <2> QED
    BY <1>3, <1>4, <2>1, <2>2 DEF TablesType
<1>6. CASE ~post.bad /\ Sane(k, e) /\ Save(p, e)
  <2>1. GoodEntry(p, e)
    BY <1>6 DEF GoodEntry, Sane
  <2> QED
    BY <1>1, <1>2, <1>3, <1>4, <1>6, <2>1, SavePreserves DEF TablesType
<1>7. CASE ~post.bad /\ ~Sane(k, e) /\ Erase(p)
  BY <1>1, <1>3, <1>4, <1>7, ErasePreserves DEF TablesType
<1> QED
  BY <1>5, <1>6, <1>7 DEF PostObject

LEMMA IncreaseFingerprintType ==
  ASSUME TablesType, IncreaseFingerprint
  PROVE  /\ print' \in [ram : 0 .. MaxPrint, file : 0 .. MaxPrint]
         /\ print'.file = print'.ram /\ print'.ram = print.ram + 1
BY EntryAssumption DEF IncreaseFingerprint, TablesType

LEMMA OtherLoadsKeepTables ==
  ASSUME TablesInv, NEW k \in Kinds, NEW s \in Slots, NEW i \in Ids,
         \/ PostId(k, s, i) \/ DeleteEntry(k, s, i) \/ PostRefused \/ PostEnd
         \/ \E o \in Objects : PostIncomplete(k, s, i, o)
  PROVE  TablesInv'
<1> USE DEF TablesInv
<1>1. <<k, s>> \in Places
  BY DEF Places
<1>2. NoPost \in Post
  BY EntryAssumption DEF NoPost, Post
<1>3. CASE PostId(k, s, i)
  <2>1. post' \in Post
    BY <1>3, CountedType DEF PostId, Begins, TablesType
  <2> QED
    BY <1>1, <1>3, <2>1, ErasePreserves DEF PostId, TablesType
<1>4. CASE \E o \in Objects : PostIncomplete(k, s, i, o)
  BY <1>1, <1>2, <1>4, ErasePreserves DEF PostIncomplete, TablesType
<1>5. CASE PostRefused
  BY <1>2, <1>5 DEF PostRefused, TablesType, TablesStored, FilesSane
<1>6. CASE PostEnd
  <2>1. print' \in [ram : 0 .. MaxPrint, file : 0 .. MaxPrint]
    BY <1>6, IncreaseFingerprintType DEF PostEnd, TablesType
  <2> QED
    BY <1>2, <1>6, <2>1 DEF PostEnd, TablesType, TablesStored, FilesSane
<1>7. CASE DeleteEntry(k, s, i)
  BY <1>1, <1>7, ErasePreserves, IncreaseFingerprintType DEF DeleteEntry, TablesType
<1> QED
  BY <1>3, <1>4, <1>5, <1>6, <1>7

LEMMA DeleteTablesKeepsTables ==
  ASSUME TablesInv, DeleteTables, UNCHANGED <<post, print>>
  PROVE  TablesInv'
<1>1. \A p \in Places : EmptyTables[p] = NoEntry
  BY DEF EmptyTables
<1> QED
  BY <1>1, NoEntryType, NoEntryGood
     DEF DeleteTables, TablesInv, TablesType, TablesStored, FilesSane

LEMMA TablesUnchanged ==
  ASSUME TablesInv, UNCHANGED <<tab, files, post, print, unsaved>>
  PROVE  TablesInv'
BY DEF TablesInv, TablesType, TablesStored, FilesSane

\* At a start the tables are what is left of the files.
LEMMA LoadTablesKeepsTables ==
  ASSUME TablesInv, NEW f \in [Places -> Entry], \A p \in Places : f[p] \in {files[p], NoEntry},
         LoadTables(f)
  PROVE  TablesInv'
<1> USE DEF TablesInv
<1>1. tab' = f /\ files' = f /\ unsaved' = {} /\ post' = NoPost
      /\ print' = [print EXCEPT !.ram = print.file]
  BY DEF LoadTables
<1>2. NoPost \in Post
  BY EntryAssumption DEF NoPost, Post
<1>3. TablesType'
  BY <1>1, <1>2 DEF TablesType
<1>4. TablesStored'
  BY <1>1 DEF TablesStored
<1>5. FilesSane'
  BY <1>1, NoEntryGood DEF FilesSane
<1> QED
  BY <1>3, <1>4, <1>5

-----------------------------------------------------------------------------
(* The multicast groups.                                                   *)

\* A device listens to groups of its tables only.
LEMMA MembershipsType ==
  ASSUME NEW t \in [Places -> Entry], NEW n \in Iids \cup {0}
  PROVE  Memberships(t, n) \subseteq Groups \X (Iids \cup {0})
<1>1. \A s \in Slots : t[<<"g", s>>].ga \subseteq Groups
  <2>1. \A s \in Slots : <<"g", s>> \in Places
    BY KindAssumption DEF Places
  <2> QED
    BY <2>1 DEF Entry
<1> DEFINE ga == UNION {t[<<"g", s>>].ga : s \in {u \in Slots : Receiving(t[<<"g", u>>])}}
<1>2. ga \subseteq Groups
  BY <1>1
<1>3. ASSUME HasGrpid(t), NEW g \in ga PROVE GrpidOf(t, g) \subseteq Groups
  <2>1. \A s \in Slots : <<"p", s>> \in Places
    BY <1>3 DEF HasGrpid, Places
  <2>2. \A s \in Slots : t[<<"p", s>>].grpid \in Groups \cup {0}
    BY <2>1 DEF Entry
  <2> QED
    BY <2>2 DEF GrpidOf
<1>4. Listened(t) = IF HasGrpid(t) THEN UNION {GrpidOf(t, g) : g \in ga} ELSE ga
  BY DEF Listened
<1> HIDE DEF ga
<1>5. Listened(t) \subseteq Groups
  BY <1>2, <1>3, <1>4
<1> QED
  BY <1>5 DEF Memberships

\* oc_register_group_multicasts does for a device in runtime what is asked of it.
LEMMA RegisterPreserves ==
  ASSUME JoinedType, refused \in BOOLEAN, NEW t \in [Places -> Entry], NEW d \in Device, Register(t, d)
  PROVE  /\ JoinedType' /\ refused' \in BOOLEAN
         /\ Runtime(d) => Memberships(t, d.iid) \subseteq joined'
<1>1. Memberships(t, d.iid) \subseteq Groups \X (Iids \cup {0})
  BY MembershipsType DEF Device
<1> QED
  BY <1>1 DEF Register, JoinedType

-----------------------------------------------------------------------------
(* Loading.                                                                *)

\* What happens in the loading state concerns neither an unloaded device nor one
\* in runtime.
LEMMA LoadingKeepsDevice ==
  ASSUME Inv, dev.lsm = "loading", joined' = joined,
         UNCHANGED <<dev, disk, commandVars, refused, factory, cut>>
  PROVE  /\ DeviceType' /\ JoinedType' /\ StateStored'
         /\ UnloadedEmpty' /\ RuntimeListens' /\ FactoryResetComplete'
<1>1. DeviceType' /\ JoinedType' /\ StateStored'
  BY DEF Inv, DeviceType, JoinedType, StateStored, commandVars
<1>2. UnloadedEmpty'
  BY DEF UnloadedEmpty
<1>3. RuntimeListens'
  BY DEF RuntimeListens, Runtime
<1>4. ~factory
  BY DEF Inv, FactoryResetComplete, Factory
<1> QED
  BY <1>1, <1>2, <1>3, <1>4 DEF FactoryResetComplete

\* A tool that has not read yet, or whose reading was made void, is not wrong.
LEMMA NoReadingHolds ==
  ASSUME print \in [ram : 0 .. MaxPrint, file : 0 .. MaxPrint]
  PROVE  NoReading.print < print.ram /\ NoReading \in [print : -1 .. MaxPrint, tab : [Places -> Entry]]
BY NoEntryType, EntryAssumption DEF NoReading

LEMMA LoadPreserves ==
  ASSUME Inv, NEW k \in Kinds, NEW s \in Slots,
         \/ \E i \in Ids \cup {NoId}, o \in Objects : LoadObject(k, s, i, o)
         \/ \E i \in Ids : LoadId(k, s, i)
         \/ \E i \in Ids, o \in Objects : LoadIncomplete(k, s, i, o)
         \/ \E i \in Ids : LoadDelete(k, s, i)
  PROVE  Inv'
<1>1. /\ dev.lsm = "loading" /\ joined' = joined
      /\ UNCHANGED <<dev, disk, commandVars, refused, factory, cut>>
  BY DEF LoadObject, LoadId, LoadIncomplete, LoadDelete, Load, PostObject, PostId,
         PostIncomplete, DeleteEntry
<1>2. /\ DeviceType' /\ JoinedType' /\ StateStored'
      /\ UnloadedEmpty' /\ RuntimeListens' /\ FactoryResetComplete'
  BY <1>1, LoadingKeepsDevice
<1>3. print \in [ram : 0 .. MaxPrint, file : 0 .. MaxPrint]
  BY DEF Inv, TablesInv, TablesType
<1>4. ASSUME NEW i \in Ids \cup {NoId}, NEW o \in Objects, LoadObject(k, s, i, o)
      PROVE  TablesInv' /\ ToolType' /\ ReadingHolds'
  <2>1. PostObject(k, s, i, o) /\ tool' = tool
    BY <1>4 DEF LoadObject, Load
  <2>2. TablesInv' /\ ToolType'
    BY <2>1, PostObjectKeepsTables DEF Inv, ToolType
  <2>3. print' = print /\ post \in Post /\ post.n < MaxObjects
    BY <2>1 DEF PostObject, Begins, Inv, TablesInv, TablesType
  <2>4. ~Idle'
    BY <2>1, <2>3, CountedType DEF PostObject, Idle
  <2> QED
    BY <2>1, <2>2, <2>3, <2>4 DEF Inv, ReadingHolds
<1>5. ASSUME NEW i \in Ids, LoadId(k, s, i)
      PROVE  TablesInv' /\ ToolType' /\ ReadingHolds'
  <2>1. PostId(k, s, i) /\ tool' = tool
    BY <1>5 DEF LoadId, Load
  <2>2. TablesInv' /\ ToolType'
    BY <2>1, OtherLoadsKeepTables DEF Inv, ToolType
  <2>3. print' = print /\ post \in Post /\ post.n < MaxObjects
    BY <2>1 DEF PostId, Begins, Inv, TablesInv, TablesType
  <2>4. ~Idle'
    BY <2>1, <2>3, CountedType DEF PostId, Idle
  <2> QED
    BY <2>1, <2>2, <2>3, <2>4 DEF Inv, ReadingHolds
<1>6. ASSUME NEW i \in Ids, NEW o \in Objects, LoadIncomplete(k, s, i, o)
      PROVE  TablesInv' /\ ToolType' /\ ReadingHolds'
  <2>1. PostIncomplete(k, s, i, o) /\ tool' = NoReading /\ print' = print
    BY <1>6 DEF LoadIncomplete, Load, PostIncomplete
  <2>2. TablesInv' /\ ToolType'
    BY <1>3, <2>1, OtherLoadsKeepTables, NoReadingHolds DEF Inv, ToolType
  <2> QED
    BY <1>3, <2>1, <2>2, NoReadingHolds DEF Inv, ReadingHolds
<1>7. ASSUME NEW i \in Ids, LoadDelete(k, s, i)
      PROVE  TablesInv' /\ ToolType' /\ ReadingHolds'
  <2>1. DeleteEntry(k, s, i) /\ tool' = tool /\ IncreaseFingerprint
    BY <1>7 DEF LoadDelete, Load, DeleteEntry
  <2>2. TablesInv' /\ ToolType'
    BY <2>1, OtherLoadsKeepTables DEF Inv, ToolType
  <2>3. print'.file = print'.ram /\ print'.ram = print.ram + 1
    BY <2>1, IncreaseFingerprintType DEF Inv, TablesInv
  <2>4. tool'.print < print'.ram
    BY <1>3, <2>1, <2>3 DEF Inv, ReadingHolds, ToolType
  <2> QED
    BY <1>3, <2>2, <2>3, <2>4 DEF ReadingHolds, ToolType
<1> QED
  BY <1>2, <1>4, <1>5, <1>6, <1>7 DEF Inv

LEMMA EndOfPostPreserves ==
  ASSUME Inv, LoadRefused \/ LoadEnd
  PROVE  Inv'
<1>1. /\ dev.lsm = "loading" /\ joined' = joined /\ tab' = tab
      /\ UNCHANGED <<dev, disk, commandVars, refused, factory, cut>>
  BY DEF LoadRefused, LoadEnd, Load, PostRefused, PostEnd
<1>2. /\ DeviceType' /\ JoinedType' /\ StateStored'
      /\ UnloadedEmpty' /\ RuntimeListens' /\ FactoryResetComplete'
  BY <1>1, LoadingKeepsDevice
<1>3. print \in [ram : 0 .. MaxPrint, file : 0 .. MaxPrint]
  BY DEF Inv, TablesInv, TablesType
<1>4. TablesInv'
  <2>1. NoPost \in Post
    BY EntryAssumption DEF NoPost, Post
  <2>2. print' \in [ram : 0 .. MaxPrint, file : 0 .. MaxPrint]
    BY <1>3, IncreaseFingerprintType
       DEF LoadRefused, LoadEnd, Load, PostRefused, PostEnd, Inv, TablesInv
  <2>3. post' = NoPost /\ UNCHANGED <<tab, files, unsaved>>
    BY DEF LoadRefused, LoadEnd, Load, PostRefused, PostEnd
  <2> QED
    BY <2>1, <2>2, <2>3 DEF Inv, TablesInv, TablesType, TablesStored, FilesSane
<1>5. CASE tool' = NoReading /\ print' = print
  BY <1>2, <1>3, <1>4, <1>5, NoReadingHolds DEF Inv, ReadingHolds, ToolType
<1>6. CASE tool' = tool /\ IncreaseFingerprint
  <2>1. print'.file = print'.ram /\ print'.ram = print.ram + 1
    BY <1>6, IncreaseFingerprintType DEF Inv, TablesInv
  <2>2. ToolType' /\ tool'.print < print'.ram
    BY <1>3, <1>6, <2>1 DEF Inv, ReadingHolds, ToolType
  <2> QED
    BY <1>2, <1>3, <1>4, <2>1, <2>2 DEF Inv, ReadingHolds, ToolType
<1> QED
  BY <1>5, <1>6 DEF LoadRefused, LoadEnd, Load, PostRefused, PostEnd

-----------------------------------------------------------------------------
(* Actions that leave the tables alone.                                    *)

\* The tables, the fingerprint and what a tool has read stay as they are.
LEMMA TablesStay ==
  ASSUME Inv, UNCHANGED <<tab, files, unsaved, post, print, tool>>
  PROVE  TablesInv' /\ ToolType' /\ ReadingHolds'
BY TablesUnchanged DEF Inv, ToolType, ReadingHolds, Idle

\* What is configured is written, in runtime the groups are joined, and the
\* device is no longer as it left the factory.
LEMMA ConfiguredPreserves ==
  ASSUME Inv, UNCHANGED <<tab, files, unsaved, post, print, commandVars, cut, tool>>,
         dev' \in Device, disk' \in Device, dev'.lsm = dev.lsm, disk'.lsm = disk.lsm,
         factory' = FALSE, JoinedType', refused' \in BOOLEAN,
         Runtime(dev') /\ ~refused' => Memberships(tab, dev'.iid) \subseteq joined'
  PROVE  Inv'
<1>1. DeviceType' /\ StateStored'
  BY DEF Inv, DeviceType, StateStored, commandVars
<1>2. UnloadedEmpty' /\ RuntimeListens' /\ FactoryResetComplete'
  BY DEF Inv, UnloadedEmpty, RuntimeListens, FactoryResetComplete
<1> QED
  BY <1>1, <1>2, TablesStay DEF Inv

LEMMA PostIaPreserves ==
  ASSUME Inv, NEW f \in SUBSET {"ia", "iid", "fid"}, NEW a \in Addresses, NEW n \in Iids,
         NEW x \in Fids, PostIa(f, a, n, x)
  PROVE  Inv'
<1> DEFINE ia == IF "ia" \in f THEN a ELSE dev.ia
           iid == IF "iid" \in f THEN n ELSE dev.iid
           fid == IF "fid" \in f THEN x ELSE dev.fid
<1>1. dev' = [dev EXCEPT !.ia = ia, !.iid = iid, !.fid = fid]
  BY DEF PostIa
<1>2. disk' = [disk EXCEPT !.ia = IF "ia" \in f THEN a ELSE disk.ia,
                           !.iid = IF "iid" \in f THEN n ELSE disk.iid,
                           !.fid = IF "fid" \in f THEN x ELSE disk.fid]
  BY DEF PostIa
<1>3. dev' \in Device /\ dev'.lsm = dev.lsm
  BY <1>1 DEF Inv, DeviceType, Device
<1>4. disk' \in Device /\ disk'.lsm = disk.lsm
  BY <1>2 DEF Inv, DeviceType, Device
<1>5. /\ JoinedType' /\ refused' \in BOOLEAN
      /\ Runtime(dev') /\ ~refused' => Memberships(tab, dev'.iid) \subseteq joined'
  <2>1. CASE Register(tab, dev')
    BY <1>3, <2>1, RegisterPreserves DEF Inv, DeviceType, TablesInv, TablesType
  <2>2. CASE refused' = TRUE /\ joined' = joined
    BY <2>2 DEF Inv, JoinedType
  <2> QED
    BY <2>1, <2>2 DEF PostIa
<1> QED
  BY <1>3, <1>4, <1>5, ConfiguredPreserves DEF PostIa

LEMMA PutPreserves ==
  ASSUME Inv,
         \/ \E n \in Iids : PutIid(n)
         \/ \E x \in Fids : PutFid(x)
         \/ \E b \in Modes : PutPm(b) \/ SetProgrammingMode(b)
  PROVE  Inv'
<1> USE DEF tableVars
<1>1. ASSUME NEW n \in Iids, PutIid(n) PROVE Inv'
  <2>1. dev' \in Device /\ dev'.lsm = dev.lsm /\ disk' \in Device /\ disk'.lsm = disk.lsm
    BY <1>1 DEF PutIid, Inv, DeviceType, Device
  <2>2. /\ JoinedType' /\ refused' \in BOOLEAN
        /\ Runtime(dev') => Memberships(tab, dev'.iid) \subseteq joined'
    BY <1>1, <2>1, RegisterPreserves DEF PutIid, Inv, DeviceType, TablesInv, TablesType
  <2> QED
    BY <1>1, <2>1, <2>2, ConfiguredPreserves DEF PutIid
<1>2. ASSUME NEW x \in Fids, PutFid(x) PROVE Inv'
  <2>1. dev' \in Device /\ dev'.lsm = dev.lsm /\ disk' \in Device /\ disk'.lsm = disk.lsm
    BY <1>2 DEF PutFid, Inv, DeviceType, Device
  <2>2. dev'.iid = dev.iid /\ (Runtime(dev') <=> Runtime(dev))
    BY <1>2 DEF PutFid, Inv, DeviceType, Device, Runtime
  <2>3. JoinedType' /\ refused' \in BOOLEAN
    BY <1>2 DEF PutFid, Inv, DeviceType, JoinedType
  <2>4. Runtime(dev') /\ ~refused' => Memberships(tab, dev'.iid) \subseteq joined'
    BY <1>2, <2>2 DEF PutFid, Inv, RuntimeListens
  <2> QED
    BY <1>2, <2>1, <2>3, <2>4, ConfiguredPreserves DEF PutFid
<1>3. ASSUME NEW b \in Modes, PutPm(b) \/ SetProgrammingMode(b) PROVE Inv'
  <2>1. dev' \in Device /\ dev'.lsm = dev.lsm /\ disk' \in Device /\ disk'.lsm = disk.lsm
    BY <1>3, ModeAssumption DEF PutPm, SetProgrammingMode, Inv, DeviceType, Device
  <2>2. dev'.iid = dev.iid /\ (Runtime(dev') <=> Runtime(dev))
    BY <1>3 DEF PutPm, SetProgrammingMode, Inv, DeviceType, Device, Runtime
  <2>3. JoinedType' /\ refused' \in BOOLEAN
    BY <1>3 DEF PutPm, SetProgrammingMode, Inv, DeviceType, JoinedType
  <2>4. Runtime(dev') /\ ~refused' => Memberships(tab, dev'.iid) \subseteq joined'
    BY <1>3, <2>2 DEF PutPm, SetProgrammingMode, Inv, RuntimeListens
  <2> QED
    BY <1>3, <2>1, <2>3, <2>4, ConfiguredPreserves DEF PutPm, SetProgrammingMode
<1> QED
  BY <1>1, <1>2, <1>3

\* A device as it left the factory stays so when a field is set to what it is.
LEMMA FactoryKept ==
  /\ Factory \in Device /\ Factory.lsm = "unloaded"
  /\ [Factory EXCEPT !.pm = FALSE] = Factory
  /\ [Factory EXCEPT !.lsm = "unloaded"] = Factory
  /\ [Factory EXCEPT !.ia = DefaultIa] = Factory
  /\ [Factory EXCEPT !.ia = DefaultIa, !.pm = FALSE] = Factory
  /\ [Factory EXCEPT !.lsm = "unloaded", !.pm = FALSE] = Factory
<1>1. Factory \in Device
  BY DEF Factory, Device, LoadStates
<1>2. Factory.ia = DefaultIa /\ Factory.pm = FALSE /\ Factory.lsm = "unloaded"
  BY DEF Factory
<1>3. \A d \in Device : d.pm = FALSE => [d EXCEPT !.pm = FALSE] = d
  BY DEF Device
<1>4. \A d \in Device : d.lsm = "unloaded" => [d EXCEPT !.lsm = "unloaded"] = d
  BY DEF Device
<1>5. \A d \in Device : d.ia = DefaultIa => [d EXCEPT !.ia = DefaultIa] = d
  BY DEF Device
<1>6. /\ [Factory EXCEPT !.ia = DefaultIa, !.pm = FALSE]
           = [[Factory EXCEPT !.ia = DefaultIa] EXCEPT !.pm = FALSE]
      /\ [Factory EXCEPT !.lsm = "unloaded", !.pm = FALSE]
           = [[Factory EXCEPT !.lsm = "unloaded"] EXCEPT !.pm = FALSE]
  OBVIOUS
<1> QED
  BY <1>1, <1>2, <1>3, <1>4, <1>5, <1>6

LEMMA ReadFingerprintPreserves ==
  ASSUME Inv, ReadFingerprint
  PROVE  Inv'
<1>1. /\ tool' = [print |-> print.ram, tab |-> tab]
      /\ UNCHANGED <<tab, files, post, print, joined, unsaved, dev, disk, pending, cached,
                     refused, factory, cut>>
  BY DEF ReadFingerprint, commandVars
<1>2. TablesInv'
  BY <1>1, TablesUnchanged DEF Inv
<1>3. ToolType' /\ ReadingHolds'
  <2>1. print.ram \in -1 .. MaxPrint /\ print.ram \in Int /\ tab \in [Places -> Entry]
    BY EntryAssumption DEF Inv, TablesInv, TablesType
  <2> QED
    BY <1>1, <2>1 DEF Inv, ToolType, ReadingHolds
<1>4. DeviceType' /\ JoinedType' /\ StateStored'
  BY <1>1 DEF Inv, DeviceType, JoinedType, StateStored
<1>5. UnloadedEmpty' /\ RuntimeListens' /\ FactoryResetComplete'
  BY <1>1 DEF Inv, UnloadedEmpty, RuntimeListens, FactoryResetComplete
<1> QED
  BY <1>2, <1>3, <1>4, <1>5 DEF Inv

LEMMA CommandPreserves ==
  ASSUME Inv, (\E c \in EraseCodes \cup {NoCode} : PostCommand(c)) \/ DelayedRestart
  PROVE  Inv'
<1>1. TablesInv' /\ ToolType' /\ ReadingHolds'
  BY TablesStay DEF PostCommand, DelayedRestart, tableVars
<1>2. pending' \in Seq(EraseCodes \cup {NoCode}) /\ cached' \in EraseCodes \cup {NoCode}
  <2>1. pending \in Seq(EraseCodes \cup {NoCode}) /\ cached \in EraseCodes \cup {NoCode}
    BY DEF Inv, DeviceType
  <2>2. CASE \E c \in EraseCodes \cup {NoCode} : PostCommand(c)
    BY <2>1, <2>2 DEF PostCommand
  <2>3. CASE DelayedRestart
    BY <2>1, <2>3 DEF DelayedRestart
  <2> QED BY <2>2, <2>3
<1>3. /\ dev' \in Device /\ dev'.lsm = dev.lsm /\ dev'.iid = dev.iid
      /\ Runtime(dev') <=> Runtime(dev)
      /\ dev = Factory => dev' = Factory
  <2>1. dev' \in {dev, [dev EXCEPT !.pm = FALSE]}
    BY DEF PostCommand, DelayedRestart
  <2>2. dev = Factory => [dev EXCEPT !.pm = FALSE] = Factory
    BY FactoryKept
  <2> QED
    BY <2>1, <2>2 DEF Inv, DeviceType, Device, Runtime
<1>4. UNCHANGED <<tab, files, joined, disk, refused, factory, cut>>
  BY DEF PostCommand, DelayedRestart, tableVars
<1>5. DeviceType' /\ JoinedType' /\ StateStored'
  BY <1>2, <1>3, <1>4 DEF Inv, DeviceType, JoinedType, StateStored
<1>6. UnloadedEmpty' /\ RuntimeListens' /\ FactoryResetComplete'
  BY <1>3, <1>4 DEF Inv, UnloadedEmpty, RuntimeListens, FactoryResetComplete
<1> QED
  BY <1>1, <1>5, <1>6 DEF Inv

-----------------------------------------------------------------------------
(* Unloading and reset.                                                    *)

\* Where the tables are deleted the load state becomes unloaded.
LEMMA DeletingPreserves ==
  ASSUME Inv, DeleteTables, UNCHANGED <<post, print>>, cut' = FALSE, tool' = NoReading,
         dev' \in Device, disk' \in Device, dev'.lsm = "unloaded", disk'.lsm = "unloaded",
         pending' \in Seq(EraseCodes \cup {NoCode}), cached' = cached,
         JoinedType', refused' \in BOOLEAN, factory' \in BOOLEAN,
         factory' => dev' = Factory /\ disk' = Factory
  PROVE  Inv'
<1>1. TablesInv'
  BY DeleteTablesKeepsTables DEF Inv
<1>2. DeviceType' /\ StateStored'
  BY DEF Inv, DeviceType, StateStored
<1>3. tab' = EmptyTables /\ files' = EmptyTables
  BY DEF DeleteTables
<1>4. UnloadedEmpty' /\ FactoryResetComplete'
  BY <1>3 DEF UnloadedEmpty, FactoryResetComplete
<1>5. RuntimeListens'
  BY DEF RuntimeListens, Runtime
<1>6. print \in [ram : 0 .. MaxPrint, file : 0 .. MaxPrint]
  BY DEF Inv, TablesInv, TablesType
<1>7. ToolType' /\ ReadingHolds'
  BY <1>6, NoReadingHolds DEF Inv, ToolType, ReadingHolds
<1> QED
  BY <1>1, <1>2, <1>4, <1>5, <1>7 DEF Inv

LEMMA PostLsmPreserves ==
  ASSUME Inv, NEW e \in LoadEvents, PostLsm(e)
  PROVE  Inv'
<1>1. /\ dev' = [dev EXCEPT !.lsm = StateAfter(e)]
      /\ disk' = [disk EXCEPT !.lsm = IF e = "nop" THEN disk.lsm ELSE StateAfter(e)]
      /\ Register(tab', dev')
      /\ factory' = (factory /\ e \in {"nop", "unload"})
      /\ UNCHANGED <<post, print, pending, cached>>
  BY DEF PostLsm, commandVars
<1>2. dev.lsm \in LoadStates /\ disk.lsm = dev.lsm
  BY DEF Inv, DeviceType, Device, StateStored
<1>3. StateAfter(e) \in LoadStates /\ (e = "nop" => StateAfter(e) = dev.lsm)
  BY <1>2 DEF StateAfter, LoadEvents, LoadStates
<1>4. /\ dev' \in Device /\ dev'.lsm = StateAfter(e) /\ dev'.iid = dev.iid
      /\ disk' \in Device /\ disk'.lsm = StateAfter(e)
  BY <1>1, <1>2, <1>3 DEF Inv, DeviceType, Device
<1>5. tab' \in [Places -> Entry]
  BY NoEntryType DEF PostLsm, DeleteTables, Inv, TablesInv, TablesType
<1>6. /\ JoinedType' /\ refused' \in BOOLEAN
      /\ Runtime(dev') => Memberships(tab', dev'.iid) \subseteq joined'
  BY <1>1, <1>4, <1>5, RegisterPreserves DEF Inv, DeviceType
<1>7. dev = Factory /\ e \in {"nop", "unload"} => dev' = Factory
  <2>1. dev = Factory /\ e \in {"nop", "unload"} => StateAfter(e) = "unloaded"
    BY FactoryKept DEF StateAfter
  <2> QED
    BY <1>1, <2>1, FactoryKept
<1>8. dev = Factory /\ disk = Factory /\ e \in {"nop", "unload"} => disk' = Factory
  <2>1. dev = Factory /\ e = "unload" => StateAfter(e) = "unloaded"
    BY DEF StateAfter
  <2>2. disk = Factory => disk.lsm = "unloaded"
    BY FactoryKept
  <2> QED
    BY <1>1, <2>1, <2>2, FactoryKept
<1>9. CASE e = "unload"
  <2>1. DeleteTables /\ cut' = FALSE /\ tool' = NoReading
    BY <1>9 DEF PostLsm
  <2>2. StateAfter(e) = "unloaded"
    BY <1>9 DEF StateAfter
  <2>3. factory' => dev' = Factory /\ disk' = Factory
    BY <1>1, <1>7, <1>8 DEF Inv, FactoryResetComplete
  <2>4. pending' \in Seq(EraseCodes \cup {NoCode}) /\ factory' \in BOOLEAN
    BY <1>1 DEF Inv, DeviceType
  <2> QED
    BY <1>1, <1>4, <1>6, <2>1, <2>2, <2>3, <2>4, DeletingPreserves
<1>10. CASE e # "unload"
  <2>1. UNCHANGED <<tab, files, unsaved, cut, tool>>
    BY <1>10 DEF PostLsm
  <2>2. TablesInv' /\ ToolType' /\ ReadingHolds'
    BY <1>1, <2>1, TablesStay
  <2>3. DeviceType' /\ StateStored'
    BY <1>1, <1>4, <1>6, <2>1 DEF Inv, DeviceType, StateStored
  <2>4. dev'.lsm = "unloaded" => dev.lsm = "unloaded"
    BY <1>4, <1>10 DEF StateAfter, LoadEvents
  <2>5. UnloadedEmpty' /\ RuntimeListens'
    BY <1>6, <2>1, <2>4 DEF Inv, UnloadedEmpty, RuntimeListens
  <2>6. FactoryResetComplete'
    BY <1>1, <1>7, <1>8, <2>1 DEF Inv, FactoryResetComplete
  <2> QED
    BY <1>6, <2>2, <2>3, <2>5, <2>6 DEF Inv
<1> QED
  BY <1>9, <1>10

LEMMA DelayedResetPreserves ==
  ASSUME Inv, DelayedReset
  PROVE  Inv'
<1>1. /\ dev' = ResetDev(cached) /\ disk' = ResetDisk(cached)
      /\ factory' = (factory \/ cached = 2)
      /\ pending # <<>> /\ pending' = Tail(pending)
      /\ UNCHANGED <<post, print, joined, cached, refused>>
  BY DEF DelayedReset
<1>2. /\ pending' \in Seq(EraseCodes \cup {NoCode}) /\ factory' \in BOOLEAN
      /\ JoinedType' /\ refused' \in BOOLEAN
  BY <1>1 DEF Inv, DeviceType, JoinedType
<1>3. Factory \in Device /\ Factory.lsm = "unloaded"
  BY FactoryKept
<1>4. dev' \in Device /\ disk' \in Device
  BY <1>1, <1>3 DEF ResetDev, ResetDisk, Inv, DeviceType, Device, LoadStates
<1>5. cached = 2 => dev' = Factory /\ disk' = Factory
  BY <1>1 DEF ResetDev, ResetDisk
<1>6. dev = Factory /\ disk = Factory => dev' = Factory /\ disk' = Factory
  <2>1. cached \in {2, 3, 7, 0}
    BY DEF Inv, DeviceType, EraseCodes, NoCode
  <2> QED
    BY <1>1, <2>1, FactoryKept DEF ResetDev, ResetDisk
<1>7. factory' => dev' = Factory /\ disk' = Factory
  BY <1>1, <1>5, <1>6 DEF Inv, FactoryResetComplete
<1>8. CASE cached \in {2, 7}
  <2>1. DeleteTables /\ cut' = FALSE /\ tool' = NoReading
    BY <1>8 DEF DelayedReset
  <2>2. dev'.lsm = "unloaded" /\ disk'.lsm = "unloaded"
    BY <1>1, <1>3, <1>8 DEF ResetDev, ResetDisk, Inv, DeviceType, Device
  <2> QED
    BY <1>1, <1>2, <1>4, <1>7, <2>1, <2>2, DeletingPreserves
<1>9. CASE cached \notin {2, 7}
  <2>1. UNCHANGED <<tab, files, unsaved, cut, tool>>
    BY <1>9 DEF DelayedReset
  <2>2. TablesInv' /\ ToolType' /\ ReadingHolds'
    BY <1>1, <2>1, TablesStay
  <2>3. dev'.lsm = dev.lsm /\ disk'.lsm = disk.lsm /\ dev'.iid = dev.iid
    BY <1>1, <1>9 DEF ResetDev, ResetDisk, Inv, DeviceType, Device
  <2>4. DeviceType' /\ StateStored' /\ UnloadedEmpty'
    BY <1>1, <1>2, <1>4, <2>1, <2>3 DEF Inv, DeviceType, StateStored, UnloadedEmpty
  <2>5. Runtime(dev') => Runtime(dev)
    <3>1. dev.ia > 0
      <4>1. dev.ia \in Addresses \cup {65535}
        BY DEF Inv, DeviceType, Device, DefaultIa
      <4>2. \A a \in Addresses \cup {65535} : a > 0
        BY AddressAssumption
      <4> QED
        BY <4>1, <4>2
    <3> QED
      BY <2>3, <3>1 DEF Runtime
  <2>6. RuntimeListens'
    BY <1>1, <2>1, <2>3, <2>5 DEF Inv, RuntimeListens
  <2>7. FactoryResetComplete'
    BY <1>1, <1>7, <1>9, <2>1 DEF Inv, FactoryResetComplete
  <2> QED
    BY <1>2, <2>2, <2>4, <2>6, <2>7 DEF Inv
<1> QED
  BY <1>8, <1>9

-----------------------------------------------------------------------------
(* Power failures.                                                         *)

\* The files that a power failure leaves are those there were, or erased.
LEMMA WithoutType ==
  ASSUME TablesInv, NEW E \in SUBSET Places
  PROVE  /\ Without(E) \in [Places -> Entry]
         /\ \A p \in Places : Without(E)[p] \in {files[p], NoEntry}
         /\ files = EmptyTables => Without(E) = EmptyTables
<1>1. Without(E) = [p \in Places |-> IF p \in E THEN NoEntry ELSE files[p]]
  BY DEF Without
<1>2. \A p \in Places : files[p] \in Entry
  BY DEF TablesInv, TablesType
<1>3. Without(E) \in [Places -> Entry] /\ \A p \in Places : Without(E)[p] \in {files[p], NoEntry}
  BY <1>1, <1>2, NoEntryType
<1>4. ASSUME files = EmptyTables PROVE Without(E) = EmptyTables
  <2>1. \A p \in Places : files[p] = NoEntry
    BY <1>4 DEF EmptyTables
  <2> QED
    BY <1>1, <2>1 DEF EmptyTables
<1> QED
  BY <1>3, <1>4

\* After a start the tables are those of the files, the groups in them are joined,
\* and a tool knows them if nothing was lost.
LEMMA BootPreserves ==
  ASSUME Inv, NEW f \in [Places -> Entry], \A p \in Places : f[p] \in {files[p], NoEntry},
         files = EmptyTables => f = EmptyTables,
         NEW d \in Device, Boot(f, d), factory' = factory, cut' \in BOOLEAN,
         factory => d = Factory,
         d.lsm = "unloaded" /\ ~cut' => dev.lsm = "unloaded" /\ ~cut
  PROVE  Inv'
<1>1. /\ tab' = f /\ files' = f /\ unsaved' = {} /\ post' = NoPost
      /\ print' = [print EXCEPT !.ram = print.file]
      /\ disk' = d /\ dev' = Restored(d) /\ joined' = Memberships(f, d.iid)
      /\ pending' = <<>> /\ cached' = NoCode /\ refused' = FALSE
      /\ tool' = IF Idle /\ unsaved = {} /\ f = files THEN tool ELSE NoReading
  BY DEF Boot, LoadTables
<1>2. TablesInv'
  BY LoadTablesKeepsTables DEF Inv, Boot
<1>3. dev' \in Device /\ dev'.lsm = d.lsm /\ dev'.iid = d.iid
  BY <1>1 DEF Restored, Device
<1>4. DeviceType' /\ StateStored'
  <2>1. pending' \in Seq(EraseCodes \cup {NoCode}) /\ cached' \in EraseCodes \cup {NoCode}
    BY <1>1
  <2>2. factory' \in BOOLEAN /\ refused' \in BOOLEAN
    BY <1>1 DEF Inv, DeviceType
  <2> QED
    BY <1>1, <1>3, <2>1, <2>2 DEF DeviceType, StateStored
<1>5. JoinedType' /\ RuntimeListens'
  <2>1. d.iid \in Iids \cup {0}
    BY DEF Device
  <2> QED
    BY <1>1, <1>3, <2>1, MembershipsType DEF JoinedType, RuntimeListens
<1>6. UnloadedEmpty'
  BY <1>1, <1>3 DEF Inv, UnloadedEmpty
<1>7. FactoryResetComplete'
  <2>1. d = Factory => dev' = Factory
    <3>1. \A x \in Device : x.fid = 0 => [x EXCEPT !.fid = 0] = x
      BY DEF Device
    <3>2. Factory.fid = 0
      BY DEF Factory
    <3> QED
      BY <1>1, <3>1, <3>2 DEF Restored
  <2> QED
    BY <1>1, <2>1 DEF Inv, FactoryResetComplete
<1>8. ToolType' /\ ReadingHolds'
  <2>1. /\ print \in [ram : 0 .. MaxPrint, file : 0 .. MaxPrint]
        /\ print.file = print.ram /\ tool.print <= print.ram
    BY DEF Inv, TablesInv, TablesType, ReadingHolds
  <2>2. print'.ram = print.ram /\ print'.file = print.file /\ print' \in [ram : 0 .. MaxPrint, file : 0 .. MaxPrint]
    BY <1>1, <2>1
  <2>3. CASE Idle /\ unsaved = {} /\ f = files
    <3>1. tool' = tool /\ \A p \in Places : tab[p] = files[p]
      BY <1>1, <2>3 DEF Inv, TablesInv, TablesStored
    <3>2. tab = files
      BY <3>1 DEF Inv, TablesInv, TablesType
    <3> QED
      BY <1>1, <2>1, <2>2, <2>3, <3>1, <3>2 DEF Inv, ToolType, ReadingHolds
  <2>4. CASE ~(Idle /\ unsaved = {} /\ f = files)
    <3>1. tool' = NoReading
      BY <1>1, <2>4
    <3> QED
      BY <2>1, <2>2, <3>1, NoReadingHolds DEF ToolType, ReadingHolds
  <2> QED
    BY <2>3, <2>4
<1> QED
  BY <1>2, <1>4, <1>5, <1>6, <1>7, <1>8 DEF Inv

LEMMA PowerFailurePreserves ==
  ASSUME Inv,
         \/ PowerFailure
         \/ \E n \in 0 .. 3 * NumEntries : CutUnload(n) \/ CutReset(n)
  PROVE  Inv'
<1>1. disk \in Device /\ (factory => disk = Factory) /\ disk.lsm = dev.lsm
  BY DEF Inv, DeviceType, FactoryResetComplete, StateStored
<1>2. cut \in BOOLEAN /\ TablesInv
  BY DEF Inv, DeviceType
<1>3. CASE PowerFailure
  <2>1. files \in [Places -> Entry]
    BY <1>2 DEF TablesInv, TablesType
  <2> QED
    BY <1>1, <1>2, <1>3, <2>1, BootPreserves DEF PowerFailure
<1>4. ASSUME NEW n \in 0 .. 3 * NumEntries, CutUnload(n) \/ CutReset(n) PROVE Inv'
  <2>1. \A order : Before(order, n) \subseteq Places
    BY DEF Before
  <2>2. PICK E \in SUBSET Places : Boot(Without(E), disk) /\ UNCHANGED <<factory, cut>>
    BY <1>4, <2>1 DEF CutUnload, CutReset
  <2> QED
    BY <1>1, <1>2, <2>2, WithoutType, BootPreserves
<1> QED
  BY <1>3, <1>4

LEMMA CutFactoryResetPreserves ==
  ASSUME Inv, NEW m \in 0 .. 5, NEW n \in 0 .. 3 * NumEntries, CutFactoryReset(m, n)
  PROVE  Inv'
<1>1. disk \in Device /\ (factory => disk = Factory) /\ disk.lsm = dev.lsm
  BY DEF Inv, DeviceType, FactoryResetComplete, StateStored
<1>2. cut \in BOOLEAN /\ TablesInv /\ files \in [Places -> Entry]
  BY DEF Inv, DeviceType, TablesInv, TablesType
<1>3. CASE m < 5
  <2> DEFINE d == [disk EXCEPT !.ia = IF m > 0 THEN DefaultIa ELSE disk.ia,
                               !.iid = IF m > 1 THEN 0 ELSE disk.iid,
                               !.fid = IF m > 2 THEN 0 ELSE disk.fid,
                               !.pm = IF m > 3 THEN FALSE ELSE disk.pm]
  <2>1. Boot(files, d) /\ UNCHANGED <<factory, cut>>
    BY <1>3 DEF CutFactoryReset
  <2>2. d \in Device /\ d.lsm = disk.lsm
    BY <1>1 DEF Device
  <2>3. ASSUME factory PROVE d = Factory
    <3>1. disk = Factory /\ Factory \in Device
      BY <1>1, <2>3, FactoryKept
    <3>2. /\ d.ia = Factory.ia /\ d.iid = Factory.iid /\ d.fid = Factory.fid
          /\ d.pm = Factory.pm /\ d.lsm = Factory.lsm
      BY <3>1 DEF Factory
    <3>3. \A x, y \in Device : x.ia = y.ia /\ x.iid = y.iid /\ x.fid = y.fid
                                 /\ x.pm = y.pm /\ x.lsm = y.lsm => x = y
      BY DEF Device
    <3> QED
      BY <2>2, <3>1, <3>2, <3>3
  <2> HIDE DEF d
  <2> QED
    BY <1>1, <1>2, <2>1, <2>2, <2>3, BootPreserves
<1>4. CASE ~(m < 5)
  <2>1. Before(<<"g", "r", "p">>, n) \subseteq Places
    BY DEF Before
  <2>2. /\ Boot(Without(Before(<<"g", "r", "p">>, n)), Factory)
        /\ cut' = TRUE /\ factory' = factory
    BY <1>4 DEF CutFactoryReset
  <2> QED
    BY <1>2, <2>1, <2>2, WithoutType, FactoryKept, BootPreserves
<1> QED
  BY <1>3, <1>4

-----------------------------------------------------------------------------

LEMMA InitEstablishesInv == Init => Inv
<1> SUFFICES ASSUME Init PROVE Inv
  OBVIOUS
<1> USE DEF Init, TablesInit
<1>1. NoPost \in Post /\ print \in [ram : 0 .. MaxPrint, file : 0 .. MaxPrint]
  BY EntryAssumption DEF NoPost, Post
<1>2. TablesType
  BY <1>1, NoEntryType DEF TablesType
<1>3. TablesInv
  <2>1. \A p \in Places : files[p] = NoEntry
    BY DEF EmptyTables
  <2> QED
    BY <1>2, <2>1, NoEntryGood DEF TablesInv, TablesStored, FilesSane
<1>4. DeviceType
  <2>1. pending \in Seq(EraseCodes \cup {NoCode}) /\ cached \in EraseCodes \cup {NoCode}
    OBVIOUS
  <2>2. refused \in BOOLEAN /\ factory \in BOOLEAN /\ cut \in BOOLEAN
    OBVIOUS
  <2> QED
    BY <2>1, <2>2, FactoryKept DEF DeviceType
<1>5. JoinedType /\ StateStored /\ UnloadedEmpty /\ FactoryResetComplete
  BY DEF JoinedType, StateStored, UnloadedEmpty, FactoryResetComplete
<1>6. RuntimeListens
  BY DEF RuntimeListens, Runtime, Factory
<1>7. ToolType /\ ReadingHolds
  BY <1>1, NoReadingHolds DEF ToolType, ReadingHolds
<1> QED
  BY <1>3, <1>4, <1>5, <1>6, <1>7 DEF Inv

LEMMA NextPreservesInv == Inv /\ [Next]_vars => Inv'
<1> SUFFICES ASSUME Inv, [Next]_vars PROVE Inv'
  OBVIOUS
<1>1. CASE Next
  BY <1>1, LoadPreserves, EndOfPostPreserves, PostIaPreserves, PutPreserves,
     ReadFingerprintPreserves, CommandPreserves, PostLsmPreserves, DelayedResetPreserves,
     PowerFailurePreserves, CutFactoryResetPreserves
  DEF Next
<1>2. CASE UNCHANGED vars
  <2>1. TablesInv' /\ ToolType' /\ ReadingHolds'
    BY <1>2, TablesStay DEF vars
  <2>2. DeviceType' /\ JoinedType' /\ StateStored'
    BY <1>2 DEF Inv, DeviceType, JoinedType, StateStored, vars
  <2>3. UnloadedEmpty' /\ RuntimeListens' /\ FactoryResetComplete'
    BY <1>2 DEF Inv, UnloadedEmpty, RuntimeListens, FactoryResetComplete, vars
  <2> QED
    BY <2>1, <2>2, <2>3 DEF Inv
<1> QED
  BY <1>1, <1>2

-----------------------------------------------------------------------------

\* Whatever is posted, rejected, cut short and reloaded, the tables in memory are
\* those in the files, and an entry of the group object table has groups, flags
\* and a resource of the device, but for what came after a rejected object.
THEOREM TablesAreSound == Spec => []TablesSound
<1>1. Inv => TablesSound
  <2> SUFFICES ASSUME Inv PROVE TablesSound
    OBVIOUS
  <2>1. TypeOK
    BY DEF Inv, TablesInv, TablesType, DeviceType, JoinedType, ToolType, TypeOK
  <2>2. EntriesSane
    BY DEF Inv, TablesInv, TablesStored, FilesSane, GoodEntry, EntriesSane
  <2> QED
    BY <2>1, <2>2 DEF Inv, TablesInv, TablesSound
<1> QED
  BY <1>1, InitEstablishesInv, NextPreservesInv, PTL DEF Spec

\* An unloaded device has no entry in memory or in a file, wherever the power
\* fails, but for a factory reset that was cut after its load state.
THEOREM UnloadedIsEmpty == Spec => []UnloadedEmpty
<1>1. Inv => UnloadedEmpty
  BY DEF Inv
<1> QED
  BY <1>1, InitEstablishesInv, NextPreservesInv, PTL DEF Spec

\* The call sites of oc_register_group_multicasts are enough: a device in runtime
\* has joined every group of its tables in its present installation, unless its
\* last addresses came in a POST that was refused.
THEOREM ListensInRuntime == Spec => []RuntimeListens
<1>1. Inv => RuntimeListens
  BY DEF Inv
<1> QED
  BY <1>1, InitEstablishesInv, NextPreservesInv, PTL DEF Spec

\* A device that was reset to factory settings stays so over power failures,
\* restarts and further resets, until something is configured.
THEOREM FactoryResetIsComplete == Spec => []FactoryResetComplete
<1>1. Inv => FactoryResetComplete
  BY DEF Inv
<1> QED
  BY <1>1, InitEstablishesInv, NextPreservesInv, PTL DEF Spec

\* One fingerprint stands for one content of the tables between two unloadings.
THEOREM FingerprintIsTrue == Spec => []FingerprintTells
<1>1. Inv => FingerprintTells
  BY DEF Inv, ReadingHolds, FingerprintTells
<1> QED
  BY <1>1, InitEstablishesInv, NextPreservesInv, PTL DEF Spec
=============================================================================
