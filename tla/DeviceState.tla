---------------------------- MODULE DeviceState ----------------------------
(***************************************************************************)
(* The configuration of a device over its life: addresses, programming     *)
(* mode and load state (api/oc_knx.c, api/oc_knx_dev.c), the reset and     *)
(* restart commands, power failures, and the group tables that are loaded  *)
(* in between.                                                             *)
(*                                                                         *)
(* Host name, ports and the version of the application are stored like the *)
(* addresses and add nothing.  The access tokens that reset codes 2 and 7  *)
(* delete are those of module AccessTokens.  The read requests sent at     *)
(* start (oc_init_datapoints_at_initialization) and the DNS-SD             *)
(* announcements change no state of the device.  A file that does not      *)
(* exist is the default value it is read as.                               *)
(***************************************************************************)
EXTENDS GroupTables, Sequences

CONSTANTS
  Addresses,   \* individual addresses a tool assigns
  Iids,        \* installation ids a tool assigns
  Fids,        \* fabric ids a tool assigns
  Modes,       \* programming modes that are set, of TRUE and FALSE
  Reading,     \* whether a tool reads the fingerprint
  MaxPending   \* bound on the commands waiting for their 100 ms

\* 0xffff, the individual address of a device that has none
DefaultIa == 65535

ASSUME AddressAssumption == Addresses \subseteq Nat \ {0, DefaultIa}
ASSUME IidAssumption == Iids \subseteq Nat \ {0}
ASSUME FidAssumption == Fids \subseteq Nat \ {0}
ASSUME ModeAssumption == Modes \subseteq BOOLEAN /\ Reading \in BOOLEAN
ASSUME PendingAssumption == MaxPending \in Nat

EraseCodes == {2, 3, 7}
NoCode == 0          \* of a restart
LoadStates == {"unloaded", "loading", "loaded"}
LoadEvents == {"nop", "startLoading", "loadComplete", "unload"}

VARIABLES
  dev,      \* oc_device_info[0]
  disk,     \* dev_knx_ia, dev_knx_iid, dev_knx_fid, dev_knx_pm, LSM_STORE
  pending,  \* the delayed callbacks, by the erase code they were asked for
  cached,   \* cached_value
  refused,  \* ghost: addresses of a refused POST wait for a registration
  factory,  \* ghost: nothing was configured since a factory reset
  cut,      \* ghost: a power failure cut a factory reset before the tables
  tool      \* ghost: fingerprint and tables as a tool last saw them

vars == <<tab, files, post, print, joined, unsaved, dev, disk, pending, cached,
          refused, factory, cut, tool>>

commandVars == <<pending, cached>>

Device == [ia : Addresses \cup {DefaultIa}, iid : Iids \cup {0}, fid : Fids \cup {0},
           pm : BOOLEAN, lsm : LoadStates]

\* oc_core_add_device, before storage is read
Factory == [ia |-> DefaultIa, iid |-> 0, fid |-> 0, pm |-> FALSE, lsm |-> "unloaded"]

NoReading == [print |-> -1, tab |-> EmptyTables]

\* oc_is_device_in_runtime
Runtime(d) == d.ia > 0 /\ d.iid > 0 /\ d.lsm = "loaded"

Init ==
  /\ TablesInit
  /\ dev = Factory
  /\ disk = Factory
  /\ pending = <<>>
  /\ cached = NoCode
  /\ refused = FALSE
  /\ factory = TRUE
  /\ cut = FALSE
  /\ tool = NoReading

-----------------------------------------------------------------------------
(* Loading.                                                                *)

\* mutant: a device that was in runtime before is taken to listen already
RegisterOnEntry(t, d) ==
  IF Runtime(d) /\ ~Runtime(dev)
    THEN joined' = joined \cup Memberships(t, d.iid) /\ refused' = FALSE
    ELSE UNCHANGED <<joined, refused>>

\* the run time installation, when the device is in runtime
Register(t, d) ==
  IF Runtime(d)
    THEN joined' = joined \cup Memberships(t, d.iid) /\ refused' = FALSE
    ELSE UNCHANGED <<joined, refused>>

\* oc_lsm_event_to_state
StateAfter(e) ==
  CASE e = "startLoading" -> "loading"
    [] e = "loadComplete" -> "loaded"
    [] e = "unload"       -> "unloaded"
    [] e = "nop"          -> dev.lsm

\* mutant: unloading changes the state and leaves the tables
PostLsmKeeping(e) ==
  /\ Idle
  /\ dev' = [dev EXCEPT !.lsm = StateAfter(e)]
  /\ disk' = [disk EXCEPT !.lsm = IF e = "nop" THEN @ ELSE StateAfter(e)]
  /\ Register(tab, dev')
  /\ factory' = (factory /\ e \in {"nop", "unload"})
  /\ UNCHANGED <<tab, files, unsaved, cut, tool, post, print, commandVars>>

\* oc_core_a_lsm_post_handler
PostLsm(e) ==
  /\ Idle
  /\ dev' = [dev EXCEPT !.lsm = StateAfter(e)]
  /\ disk' = [disk EXCEPT !.lsm = IF e = "nop" THEN @ ELSE StateAfter(e)]
  /\ IF e = "unload"
       THEN DeleteTables /\ cut' = FALSE /\ tool' = NoReading
       ELSE UNCHANGED <<tab, files, unsaved, cut, tool>>
  /\ Register(tab', dev')
  /\ factory' = (factory /\ e \in {"nop", "unload"})
  /\ UNCHANGED <<post, print, commandVars>>

\* the handlers of /fp/g, /fp/r and /fp/p, in the loading state only; what a
\* tool knows is void once a POST is refused
Load(Step) ==
  /\ dev.lsm = "loading"
  /\ Step
  /\ UNCHANGED <<dev, disk, commandVars, refused, factory, cut>>

LoadObject(k, s, i, o) == Load(PostObject(k, s, i, o)) /\ UNCHANGED tool
LoadId(k, s, i) == Load(PostId(k, s, i)) /\ UNCHANGED tool
LoadIncomplete(k, s, i, o) == Load(PostIncomplete(k, s, i, o)) /\ tool' = NoReading
LoadRefused == Load(PostRefused) /\ tool' = NoReading
LoadEnd == Load(PostEnd) /\ tool' = IF post.bad THEN NoReading ELSE tool
LoadDelete(k, s, i) == Load(DeleteEntry(k, s, i)) /\ UNCHANGED tool

\* oc_core_knx_fingerprint_get_handler, and the tables read with it
ReadFingerprint ==
  /\ Reading /\ Idle /\ dev.lsm = "loaded"
  /\ tool' = [print |-> print.ram, tab |-> tab]
  /\ UNCHANGED <<tab, files, post, print, joined, unsaved, dev, disk, commandVars,
                 refused, factory, cut>>

-----------------------------------------------------------------------------
(* Addresses and programming mode.                                         *)

\* oc_core_knx_ia_post_handler: every field is set and stored when it is met;
\* without an individual address and an installation id the answer is 4.00
PostIa(f, a, n, x) ==
  LET d == [ia |-> IF "ia" \in f THEN a ELSE dev.ia,
            iid |-> IF "iid" \in f THEN n ELSE dev.iid,
            fid |-> IF "fid" \in f THEN x ELSE dev.fid] IN
  /\ Idle /\ f # {}
  /\ dev' = [dev EXCEPT !.ia = d.ia, !.iid = d.iid, !.fid = d.fid]
  /\ disk' = [disk EXCEPT !.ia = IF "ia" \in f THEN a ELSE @,
                          !.iid = IF "iid" \in f THEN n ELSE @,
                          !.fid = IF "fid" \in f THEN x ELSE @]
  /\ IF {"ia", "iid"} \subseteq f THEN Register(tab, dev')
                                 ELSE refused' = TRUE /\ UNCHANGED joined
  /\ factory' = FALSE
  /\ UNCHANGED <<tab, files, unsaved, post, print, commandVars, cut, tool>>

\* oc_core_dev_iid_put_handler
PutIid(n) ==
  /\ Idle
  /\ dev' = [dev EXCEPT !.iid = n]
  /\ disk' = [disk EXCEPT !.iid = n]
  /\ Register(tab, dev')
  /\ factory' = FALSE
  /\ UNCHANGED <<tab, files, unsaved, post, print, commandVars, cut, tool>>

\* oc_core_dev_fid_put_handler
PutFid(x) ==
  /\ Idle
  /\ dev' = [dev EXCEPT !.fid = x]
  /\ disk' = [disk EXCEPT !.fid = x]
  /\ factory' = FALSE
  /\ UNCHANGED <<tableVars, commandVars, refused, cut, tool>>

\* oc_core_dev_pm_put_handler
PutPm(b) ==
  /\ Idle
  /\ dev' = [dev EXCEPT !.pm = b]
  /\ disk' = [disk EXCEPT !.pm = b]
  /\ factory' = FALSE
  /\ UNCHANGED <<tableVars, commandVars, refused, cut, tool>>

\* oc_knx_device_set_programming_mode, by the application (a button)
SetProgrammingMode(b) ==
  /\ Idle
  /\ dev' = [dev EXCEPT !.pm = b]
  /\ factory' = FALSE
  /\ UNCHANGED <<tableVars, disk, commandVars, refused, cut, tool>>

-----------------------------------------------------------------------------
(* Reset and restart.                                                      *)

\* oc_core_knx_post_handler: the code is kept in a variable all commands share
PostCommand(c) ==
  /\ Idle /\ Len(pending) < MaxPending
  /\ pending' = Append(pending, c)
  /\ cached' = c
  /\ UNCHANGED <<tableVars, dev, disk, refused, factory, cut, tool>>

\* delayed_restart
DelayedRestart ==
  /\ Idle /\ pending # <<>> /\ Head(pending) = NoCode
  /\ pending' = Tail(pending)
  /\ dev' = [dev EXCEPT !.pm = FALSE]
  /\ UNCHANGED <<tableVars, disk, cached, refused, factory, cut, tool>>

\* mutant: the factory reset forgets the file of the programming mode
ResetDiskKeepingPm(c) ==
  CASE c = 2 -> [Factory EXCEPT !.pm = disk.pm]
    [] c = 3 -> [disk EXCEPT !.ia = DefaultIa]
    [] c = 7 -> [disk EXCEPT !.lsm = "unloaded"]
    [] OTHER -> disk

\* oc_knx_device_storage_reset: what code c leaves on the disk
ResetDisk(c) ==
  CASE c = 2 -> Factory
    [] c = 3 -> [disk EXCEPT !.ia = DefaultIa]
    [] c = 7 -> [disk EXCEPT !.lsm = "unloaded"]
    [] OTHER -> disk

\* and in memory
ResetDev(c) ==
  CASE c = 2 -> Factory
    [] c = 3 -> [dev EXCEPT !.ia = DefaultIa, !.pm = FALSE]
    [] c = 7 -> [dev EXCEPT !.lsm = "unloaded", !.pm = FALSE]
    [] OTHER -> dev

\* delayed_reset: with the code of the command that came last
DelayedReset ==
  /\ Idle /\ pending # <<>> /\ Head(pending) # NoCode
  /\ pending' = Tail(pending)
  /\ dev' = ResetDev(cached)
  /\ disk' = ResetDisk(cached)
  /\ IF cached \in {2, 7}
       THEN DeleteTables /\ cut' = FALSE /\ tool' = NoReading
       ELSE UNCHANGED <<tab, files, unsaved, cut, tool>>
  /\ factory' = (factory \/ cached = 2)
  /\ UNCHANGED <<post, print, joined, cached, refused>>

-----------------------------------------------------------------------------
(* Power failures.                                                         *)

\* oc_knx_device_storage_read: the file of the fabric id is not read
Restored(d) == [d EXCEPT !.fid = 0]

\* oc_main_init, with the files f and the disk d
Boot(f, d) ==
  /\ LoadTables(f)
  /\ disk' = d
  /\ dev' = Restored(d)
  /\ joined' = Memberships(f, d.iid)
  /\ pending' = <<>>
  /\ cached' = NoCode
  /\ refused' = FALSE
  /\ tool' = IF Idle /\ unsaved = {} /\ f = files THEN tool ELSE NoReading

PowerFailure == Boot(files, disk) /\ UNCHANGED <<factory, cut>>

\* the files in the order in which they are erased, up to the n-th
Before(order, n) ==
  {p \in Places : \E i \in 1 .. 3 : order[i] = p[1] /\ (i - 1) * NumEntries + p[2] <= n}

Without(E) == [p \in Places |-> IF p \in E THEN NoEntry ELSE files[p]]

\* unloading and reset code 7 write the load state last
CutUnload(n) ==
  /\ Idle
  /\ Boot(Without(Before(<<"r", "p", "g">>, n)), disk)
  /\ UNCHANGED <<factory, cut>>

CutReset(n) ==
  /\ Idle /\ pending # <<>> /\ Head(pending) # NoCode /\ cached = 7
  /\ Boot(Without(Before(<<"g", "r", "p">>, n)), disk)
  /\ UNCHANGED <<factory, cut>>

\* reset code 2 erases the first m files of the addresses and the programming
\* mode; or all of them, writes the load state and erases n entries
CutFactoryReset(m, n) ==
  /\ Idle /\ pending # <<>> /\ Head(pending) # NoCode /\ cached = 2
  /\ IF m < 5
       THEN /\ Boot(files, [disk EXCEPT !.ia = IF m > 0 THEN DefaultIa ELSE @,
                                        !.iid = IF m > 1 THEN 0 ELSE @,
                                        !.fid = IF m > 2 THEN 0 ELSE @,
                                        !.pm = IF m > 3 THEN FALSE ELSE @])
            /\ UNCHANGED cut
       ELSE /\ Boot(Without(Before(<<"g", "r", "p">>, n)), Factory)
            /\ cut' = TRUE
  /\ UNCHANGED factory

Next ==
  \/ \E e \in LoadEvents : PostLsm(e)
  \/ \E k \in Kinds, s \in Slots, i \in Ids \cup {NoId}, o \in Objects :
       (i = NoId => k = "p") /\ LoadObject(k, s, i, o)
  \/ \E k \in Kinds, s \in Slots, i \in Ids : LoadId(k, s, i)
  \/ \E k \in Kinds, s \in Slots, i \in Ids, o \in Objects : LoadIncomplete(k, s, i, o)
  \/ LoadRefused
  \/ LoadEnd
  \/ \E k \in Kinds, s \in Slots, i \in Ids : LoadDelete(k, s, i)
  \/ ReadFingerprint
  \/ \E f \in SUBSET {"ia", "iid", "fid"}, a \in Addresses, n \in Iids, x \in Fids :
       PostIa(f, a, n, x)
  \/ \E n \in Iids : PutIid(n)
  \/ \E x \in Fids : PutFid(x)
  \/ \E b \in Modes : PutPm(b)
  \/ \E b \in Modes : SetProgrammingMode(b)
  \/ \E c \in EraseCodes \cup {NoCode} : PostCommand(c)
  \/ DelayedRestart
  \/ DelayedReset
  \/ PowerFailure
  \/ \E n \in 0 .. 3 * NumEntries : CutUnload(n)
  \/ \E n \in 0 .. 3 * NumEntries : CutReset(n)
  \/ \E m \in 0 .. 5, n \in 0 .. 3 * NumEntries : CutFactoryReset(m, n)

Spec == Init /\ [][Next]_vars

-----------------------------------------------------------------------------
(* Properties.                                                             *)

\* The types of the tables, the device, its files and the ghosts.
TypeOK ==
  /\ tab \in [Places -> Entry]
  /\ files \in [Places -> Entry]
  /\ post \in Post
  /\ print \in [ram : 0 .. MaxPrint, file : 0 .. MaxPrint]
  /\ joined \subseteq Groups \X (Iids \cup {0})
  /\ unsaved \subseteq Places
  /\ dev \in Device
  /\ disk \in Device
  /\ pending \in Seq(EraseCodes \cup {NoCode})
  /\ cached \in EraseCodes \cup {NoCode}
  /\ refused \in BOOLEAN /\ factory \in BOOLEAN
  /\ cut \in BOOLEAN
  /\ tool \in [print : -1 .. MaxPrint, tab : [Places -> Entry]]

\* A restart at any point, in the middle of a POST too, finds the tables as they
\* are, except for entries that came after a rejected one in the same POST.
TablesStored == \A p \in Places \ unsaved : tab[p] = files[p]

\* Whatever is posted, rejected, cut short and reloaded, an entry of the group
\* object table has groups, flags and a resource of the device, except for those
\* same entries.
EntriesSane ==
  \A p \in Places \ unsaved :
    p[1] = "g" /\ tab[p].id # NoId =>
      tab[p].ga # {} /\ tab[p].flags # "none" /\ tab[p].href = "own"

\* The tables are in their files, and hold what a table may hold.
TablesSound == TypeOK /\ TablesStored /\ EntriesSane

\* "state is unloaded, e.g. ready for loading" (oc_knx.h): an unloaded device
\* has no entry in memory or on disk, even if the power failed while it was
\* unloading or was reset without its addresses; a factory reset that was cut
\* between the load state and the tables is the exception.
UnloadedEmpty ==
  dev.lsm = "unloaded" /\ ~cut => tab = EmptyTables /\ files = EmptyTables

\* A device in runtime listens to every group its tables name, in its present
\* installation, unless its last addresses came in a POST that was refused.
RuntimeListens ==
  Runtime(dev) /\ ~refused => Memberships(tab, dev.iid) \subseteq joined

\* After a factory reset that was executed, and as long as nothing is
\* configured, the device is as it left the factory, and is so again after any
\* number of power failures, restarts and further resets, cut or not.
FactoryResetComplete ==
  factory => dev = Factory /\ disk = Factory /\ tab = EmptyTables /\ files = EmptyTables

\* Between two unloadings, a fingerprint read from a loaded device stands for
\* one content of the tables: when a tool that saw no POST refused reads it
\* again, after reloads and power failures, the tables are those it knows.
FingerprintTells ==
  Idle /\ dev.lsm = "loaded" /\ tool.print = print.ram => tool.tab = tab

\* "function is called when the device is (re)started in run-time mode"
\* (oc_knx_fp.h): a device in runtime listens to every group its tables name.
RuntimeAlwaysListens == Runtime(dev) => Memberships(tab, dev.iid) \subseteq joined
=============================================================================
