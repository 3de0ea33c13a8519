---------------------------- MODULE GroupTables ----------------------------
(***************************************************************************)
(* The group tables of a device (api/oc_knx_fp.c) and their files: the     *)
(* group object table /fp/g, the recipient table /fp/r and the publisher   *)
(* table /fp/p, the fingerprint of what is loaded, and the multicast       *)
(* groups the device listens to because of them.                           *)
(*                                                                         *)
(* The three tables are one function of the kind of the table and the      *)
(* slot.  Of an entry the model keeps what registration and the checks     *)
(* look at; "href" is the path of an own resource in the group object      *)
(* table, and whatever else names a peer (ia, url) in the two others.      *)
(* A POST carries a list of objects; every object is a step, and so is the *)
(* end of the list.  Storage operations succeed.                           *)
(***************************************************************************)
EXTENDS Integers

CONSTANTS
  Kinds,       \* the tables of the model, of "g", "r" and "p"
  NumEntries,  \* GOT_MAX_ENTRIES, GRT_MAX_ENTRIES, GPT_MAX_ENTRIES
  Ids,         \* ids of entries
  Groups,      \* group addresses and group ids; 0 is none
  Objects,     \* what an object of a POST may carry besides the id
  MaxObjects,  \* bound on the objects of one POST
  MaxPrint     \* bound on the fingerprint

NoId == "none"

ASSUME KindAssumption == "g" \in Kinds /\ Kinds \subseteq {"g", "r", "p"}
ASSUME EntryAssumption ==
  NumEntries \in Nat /\ MaxObjects \in Nat /\ MaxPrint \in Nat
ASSUME IdAssumption == NoId \notin Ids
ASSUME GroupAssumption == Groups \subseteq Nat \ {0}

Slots == 1 .. NumEntries
Places == Kinds \X Slots

\* flags: no communication flag, only flags that send, one of read, write, update
Entry == [id : Ids \cup {NoId}, ga : SUBSET Groups,
          flags : {"none", "send", "receive"}, href : {"own", "other"},
          grpid : Groups \cup {0}]

Fields == {"ga", "flags", "href", "grpid"}

\* an object has some of the fields; an empty list of groups is read as nil,
\* and does not make an object more than an id
ASSUME ObjectAssumption ==
  \A o \in Objects :
    /\ DOMAIN o \subseteq Fields
    /\ \E f \in DOMAIN o : f = "ga" => o.ga # {}
    /\ "ga" \in DOMAIN o => o.ga \in SUBSET Groups
    /\ "flags" \in DOMAIN o => o.flags \in {"none", "send", "receive"}
    /\ "href" \in DOMAIN o => o.href \in {"own", "other"}
    /\ "grpid" \in DOMAIN o => o.grpid \in Groups

VARIABLES
  tab,     \* g_got[], g_grt[], g_gpt[]
  files,   \* GOT_STORE_<i>, GRT_STORE_<i>, GPT_STORE_<i>
  post,    \* the POST being handled
  print,   \* g_fingerprint and its file
  joined,  \* IPv6 multicast memberships: <<group, installation id>>
  unsaved  \* ghost: the places changed in memory only

tableVars == <<tab, files, post, print, joined, unsaved>>

\* kind "none" when no POST is handled; bad is ~status_ok
Post == [kind : Kinds \cup {"none"}, n : 0 .. MaxObjects, bad : BOOLEAN]
NoPost == [kind |-> "none", n |-> 0, bad |-> FALSE]
Idle == post = NoPost

\* oc_free_group_object_table_entry, oc_free_group_rp_table_entry
NoEntry == [id |-> NoId, ga |-> {}, flags |-> "none", href |-> "other", grpid |-> 0]

EmptyTables == [p \in Places |-> NoEntry]

TablesInit ==
  /\ tab = EmptyTables
  /\ files = EmptyTables
  /\ post = NoPost
  /\ print = [ram |-> 0, file |-> 0]
  /\ joined = {}
  /\ unsaved = {}

-----------------------------------------------------------------------------
(* Registration: oc_register_group_multicasts.                             *)

Receiving(e) == e.flags = "receive"

\* an entry of the publisher table has a group id
HasGrpid(t) == \E s \in Slots : <<"p", s>> \in Places /\ t[<<"p", s>>].grpid # 0

\* oc_find_grpid_in_table: that of the first entry with the group address
GrpidOf(t, g) ==
  {t[<<"p", s>>].grpid : s \in {u \in Slots :
     /\ g \in t[<<"p", u>>].ga
     /\ \A v \in Slots : v < u => g \notin t[<<"p", v>>].ga}} \ {0}

\* the groups the tables t make the device listen to
Listened(t) ==
  LET ga == UNION {t[<<"g", s>>].ga : s \in {u \in Slots : Receiving(t[<<"g", u>>])}}
  IN IF HasGrpid(t) THEN UNION {GrpidOf(t, g) : g \in ga} ELSE ga

Memberships(t, iid) == Listened(t) \X {iid}

-----------------------------------------------------------------------------
(* POST to a table.                                                        *)

\* the slot of an id, else the first free one.  /fp/p does not refuse an object
\* without an id, whose id is that of a free entry
SlotFor(k, s, i) ==
  IF \E u \in Slots : tab[<<k, u>>].id = i
    THEN tab[<<k, s>>].id = i /\ \A u \in Slots : u < s => tab[<<k, u>>].id # i
    ELSE tab[<<k, s>>].id = NoId /\ \A u \in Slots : u < s => tab[<<k, u>>].id # NoId

Exists(k, i) == \E s \in Slots : tab[<<k, s>>].id = i

Has(o, f) == f \in DOMAIN o

HasGroups(o) == Has(o, "ga") /\ o.ga # {}

\* the mandatory items of a new entry: nil counts as groups in /fp/r and /fp/p
Complete(k, o) ==
  IF k = "g" THEN HasGroups(o) /\ Has(o, "flags") /\ Has(o, "href")
             ELSE Has(o, "ga") /\ (Has(o, "grpid") \/ Has(o, "href"))

\* the fields of the object that table k has overwrite those of the entry
Updated(k, e, i, o) ==
  [id    |-> i,
   ga    |-> IF HasGroups(o) THEN o.ga ELSE e.ga,
   flags |-> IF Has(o, "flags") /\ k = "g" THEN o.flags ELSE e.flags,
   href  |-> IF Has(o, "href") THEN o.href ELSE e.href,
   grpid |-> IF Has(o, "grpid") /\ k # "g" THEN o.grpid ELSE e.grpid]

\* oc_fp_g_check_and_save: the sanity checks, of the group object table only
Sane(k, e) == k = "g" => e.ga # {} /\ e.flags # "none" /\ e.href = "own"

Begins(k) == post.kind \in {"none", k} /\ post.n < MaxObjects

\* the entry is freed in memory and its file erased
Erase(p) ==
  /\ tab' = [tab EXCEPT ![p] = NoEntry]
  /\ files' = [files EXCEPT ![p] = NoEntry]
  /\ unsaved' = unsaved \ {p}

\* mutant: the entry stays in memory
SaveUnchecked(p, e) ==
  /\ tab' = [tab EXCEPT ![p] = e]
  /\ files' = files
  /\ unsaved' = unsaved \ {p}

\* oc_dump_group_object_table_entry, oc_dump_group_rp_table_entry
Save(p, e) ==
  /\ tab' = [tab EXCEPT ![p] = e]
  /\ files' = [files EXCEPT ![p] = e]
  /\ unsaved' = unsaved \ {p}

\* an object that changes an entry or makes a complete one.  Once an object of
\* the POST was not sane, the later ones are neither checked nor saved
PostObject(k, s, i, o) ==
  LET e == Updated(k, tab[<<k, s>>], i, o) IN
  /\ Begins(k) /\ SlotFor(k, s, i)
  /\ Exists(k, i) \/ Complete(k, o)
  /\ \/ /\ post.bad
        /\ tab' = [tab EXCEPT ![<<k, s>>] = e]
        /\ unsaved' = unsaved \cup {<<k, s>>}
        /\ files' = files
        /\ post' = [post EXCEPT !.n = @ + 1]
     \/ /\ ~post.bad /\ Sane(k, e)
        /\ Save(<<k, s>>, e)
        /\ post' = [post EXCEPT !.kind = k, !.n = @ + 1]
     \/ /\ ~post.bad /\ ~Sane(k, e)
        /\ Erase(<<k, s>>)
        /\ post' = [kind |-> k, n |-> post.n + 1, bad |-> TRUE]
  /\ UNCHANGED <<print, joined>>

\* an object with an id alone deletes
PostId(k, s, i) ==
  /\ Begins(k) /\ SlotFor(k, s, i)
  /\ Erase(<<k, s>>)
  /\ post' = [post EXCEPT !.kind = k, !.n = @ + 1]
  /\ UNCHANGED <<print, joined>>

\* a new entry that lacks a mandatory item: 4.00, whatever came before stays
PostIncomplete(k, s, i, o) ==
  /\ Begins(k) /\ SlotFor(k, s, i)
  /\ ~Exists(k, i) /\ ~Complete(k, o)
  /\ Erase(<<k, s>>)
  /\ post' = NoPost
  /\ UNCHANGED <<print, joined>>

\* an object without an id, or with one and no free slot: 4.00
PostRefused ==
  /\ post.n > 0
  /\ post' = NoPost
  /\ UNCHANGED <<tab, files, print, joined, unsaved>>

\* mutant: the fingerprint is written and not increased
DumpFingerprint == print' = [print EXCEPT !.file = print.ram]

\* oc_knx_increase_fingerprint
IncreaseFingerprint ==
  /\ print.ram < MaxPrint
  /\ print' = [ram |-> print.ram + 1, file |-> print.ram + 1]

\* the end of the list, which may be empty
PostEnd ==
  /\ IF post.bad THEN UNCHANGED print ELSE IncreaseFingerprint
  /\ post' = NoPost
  /\ UNCHANGED <<tab, files, joined, unsaved>>

\* DELETE of /fp/g/<id>, /fp/r/<id>, /fp/p/<id>
DeleteEntry(k, s, i) ==
  /\ Idle /\ Exists(k, i) /\ SlotFor(k, s, i)
  /\ Erase(<<k, s>>)
  /\ IncreaseFingerprint
  /\ UNCHANGED <<post, joined>>

\* oc_delete_group_object_table, oc_delete_group_rp_table
DeleteTables ==
  /\ tab' = EmptyTables
  /\ files' = EmptyTables
  /\ unsaved' = {}

\* oc_create_knx_fp_resources, oc_knx_load_fingerprint, after a power failure
\* that left the files f
LoadTables(f) ==
  /\ files' = f
  /\ tab' = f
  /\ unsaved' = {}
  /\ post' = NoPost
  /\ print' = [print EXCEPT !.ram = print.file]
=============================================================================
