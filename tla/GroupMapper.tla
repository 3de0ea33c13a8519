----------------------------- MODULE GroupMapper -----------------------------
(***************************************************************************)
(* The group mapping table /fp/gm and the parameters /p/netip of an IoT    *)
(* router (api/oc_knx_gm.c, built with OC_IOT_ROUTER), and their files.    *)
(* A handler changes the memory at once; what it writes and erases is done *)
(* file by file, and the power can fail before, between and while writing: *)
(* a file that is cut is read as an empty one.                             *)
(***************************************************************************)
EXTENDS Integers, Sequences, SequencesExt, FiniteSetsExt

CONSTANTS
  Size,        \* G_GM_MAX_ENTRIES
  Word,        \* 2^32: what an address and a parameter are reduced to
  Requests,    \* the bodies of a POST: sequences of objects
  Values,      \* what is put to a parameter that is a number
  Keys,        \* what is put to the key: its bytes
  MaxRequests  \* bound on the requests

Slots == 1 .. Size

\* Each parameter: its initial value, what can be put, and what is kept of it.
\* A number is kept in 32 bits, the key as it is.
fra == [unset |-> <<0>>, puts |-> {<<v % Word>> : v \in Values}, least |-> 1, most |-> 1]
tol == [unset |-> <<0>>, puts |-> {<<v % Word>> : v \in Values}, least |-> 1, most |-> 1]
ttl == [unset |-> <<0>>, puts |-> {<<v % Word>> : v \in Values}, least |-> 1, most |-> 1]
mcast == [unset |-> <<0>>, puts |-> {<<v % Word>> : v \in Values}, least |-> 1, most |-> 1]
key == [unset |-> <<>>, puts |-> Keys, least |-> 2, most |-> 99]

netip == [fra |-> fra, tol |-> tol, ttl |-> ttl, mcast |-> mcast, key |-> key]
Params == DOMAIN netip

\* A file of the store: one of an entry, or one of a parameter.
Files == ({"gm"} \X Slots) \cup (Params \X {0})

VARIABLES
  table,     \* g_gm_entries
  param,     \* g_fra, g_tol, g_ttl, g_mcast, g_key
  store,     \* file -> what it holds: <<>> is no file or an empty one
  todo,      \* what is still to be written (erased: <<>>), in order
  loading,   \* the load state is LOADING
  requests,  \* how many requests were handled
  unsaved,   \* the files whose entry or parameter was last changed by a
             \* request that was refused midway or deletes, or by a reset
  reset      \* nothing was put or posted since a reset that was not cut

vars == <<table, param, store, todo, loading, requests, unsaved, reset>>

Blank == [id |-> 0, dt |-> 0, ga |-> <<>>, key |-> <<>>, a |-> FALSE, c |-> FALSE]

Init ==
  /\ table = [i \in Slots |-> Blank]
  /\ param = [p \in Params |-> netip[p].unset]
  /\ store = [f \in Files |-> <<>>]
  /\ todo = <<>>
  /\ loading = FALSE
  /\ requests = 0
  /\ unsaved = {}
  /\ reset = FALSE

Used(t) == {i \in Slots : t[i].ga # <<>>}

\* mutant: the first slot is not looked at
FoundLater(t, id) == {i \in Slots \ {1} : t[i].id = id}

\* find_group_mapping_index: any slot with the id, in use or not
Found(t, id) == {i \in Slots : t[i].id = id}

\* The slot of an id: its own, or the first one that is not in use (0: none).
Slot(t, id) ==
  CASE Found(t, id) # {} -> Min(Found(t, id))
    [] Found(t, id) = {} /\ Slots # Used(t) -> Min(Slots \ Used(t))
    [] OTHER -> 0

\* oc_free_group_mapping_table_entry: the data type and the flags stay
Freed(entry) == [entry EXCEPT !.id = -1, !.ga = <<>>, !.key = <<>>]

\* What an object sets of an entry; a field it does not have is <<>>. The flags
\* are read from the wrong member of a union: they can be anything.
Set(entry, o, flags) ==
  [id |-> o.id,
   dt |-> IF o.dt = <<>> THEN entry.dt ELSE o.dt[1],
   ga |-> IF o.ga = <<>> THEN entry.ga ELSE o.ga,
   key |-> IF o.key = <<>> THEN entry.key ELSE o.key[1],
   a |-> IF o.flags THEN flags[1] ELSE entry.a,
   c |-> IF o.flags THEN flags[2] ELSE entry.c]

OnlyId(o) == o.dt = <<>> /\ o.ga = <<>> /\ o.key = <<>> /\ ~o.flags

\* One object of a POST, on what those before made: nothing after a refusal.
Object(done, o, flags) ==
  LET i == Slot(done.table, o.id)
  IN  IF done.refused \/ o.id = -1 \/ i = 0 THEN [done EXCEPT !.refused = TRUE]
      ELSE IF OnlyId(o)
      THEN [done EXCEPT !.table[i] = Freed(@), !.save = FALSE,
                        !.erased = Append(@, <<"gm", i>>)]
      ELSE [done EXCEPT !.table[i] = Set(@, o, flags)]

Posted(t, body, flags) ==
  FoldLeft(LAMBDA done, o : Object(done, o, flags),
           [table |-> t, erased |-> <<>>, save |-> TRUE, refused |-> FALSE], body)

\* mutant: an entry is written without its key
WrittenBare(f, t) == [file |-> f, holds |-> <<[t[f[2]] EXCEPT !.key = <<>>]>>]

\* oc_dump_group_mapping_table_entry
Written(f, t) == [file |-> f, holds |-> <<t[f[2]]>>]

\* a file is erased
Erased(f) == [file |-> f, holds |-> <<>>]

Handled ==
  /\ todo = <<>>
  /\ requests < MaxRequests
  /\ requests' = requests + 1

\* oc_core_fp_gm_post_handler: every entry in use is written, unless an object
\* deleted one or was refused
Post(body, flags) ==
  /\ Handled /\ loading
  /\ LET done == Posted(table, body, flags)
         saved == done.save /\ ~done.refused
         inUse == {<<"gm", i>> : i \in Used(done.table)}
         changed == {<<"gm", i>> : i \in {j \in Slots : done.table[j] # table[j]}}
     IN  /\ table' = done.table
         /\ todo' = [k \in DOMAIN done.erased |-> Erased(done.erased[k])]
                    \o (IF saved
                        THEN [k \in 1 .. Cardinality(inUse) |->
                                Written(SetToSortSeq(inUse, LAMBDA f, g : f[2] < g[2])[k],
                                        done.table)]
                        ELSE <<>>)
         /\ unsaved' = IF saved THEN unsaved \ inUse ELSE unsaved \cup changed
  /\ reset' = FALSE
  /\ UNCHANGED <<param, store, loading>>

\* oc_core_fp_gm_x_del_handler: in memory, in any load state; not the last slot
Delete(value) ==
  /\ Handled
  /\ value < Size
  /\ table' = [table EXCEPT ![value].ga = <<>>, ![value].key = <<>>]
  /\ UNCHANGED <<param, store, todo, loading, unsaved, reset>>

\* the PUT handlers of /p/netip/*
Put(p, value) ==
  /\ Handled
  /\ param' = [param EXCEPT ![p] = value]
  /\ todo' = <<[file |-> <<p, 0>>, holds |-> value]>>
  /\ unsaved' = unsaved \ {<<p, 0>>}
  /\ reset' = FALSE
  /\ UNCHANGED <<table, store, loading>>

\* mutant: what is not in use is taken for erased
ErasedUsed ==
  SelectSeq([i \in Slots |-> Erased(<<"gm", i>>)], LAMBDA e : e.file[2] \in Used(table))
    \o SetToSeq({Erased(<<p, 0>>) : p \in Params})

ErasedAll ==
  [i \in Slots |-> Erased(<<"gm", i>>)] \o SetToSeq({Erased(<<p, 0>>) : p \in Params})

\* oc_delete_group_mapping_table, of a reset of mode 2 or 7: the parameters
\* keep their values until the next start
Reset ==
  /\ Handled
  /\ table' = [i \in Slots |-> Freed(table[i])]
  /\ todo' = ErasedAll
  /\ unsaved' = Params \X {0}
  /\ reset' = TRUE
  /\ loading' = FALSE
  /\ UNCHANGED <<param, store>>

\* The client begins or ends a download.
ChangeState ==
  /\ todo = <<>>
  /\ loading' = ~loading
  /\ UNCHANGED <<table, param, store, todo, requests, unsaved, reset>>

\* The next file is written or erased.
Store ==
  /\ todo # <<>>
  /\ store' = [store EXCEPT ![Head(todo).file] = Head(todo).holds]
  /\ todo' = Tail(todo)
  /\ UNCHANGED <<table, param, loading, requests, unsaved, reset>>

\* oc_load_group_mapping_table_entry: an address is read in 32 bits
Loaded(file) ==
  IF file = <<>> THEN Blank
  ELSE [file[1] EXCEPT !.ga = [k \in DOMAIN @ |-> @[k] % Word]]

\* load_fra, load_tol, load_ttl, load_mcast, load_key
LoadedParam(p, file) ==
  IF Len(file) < netip[p].least THEN netip[p].unset
  ELSE SubSeq(file, 1, Min({Len(file), netip[p].most}))

\* oc_create_knx_iot_router_resources: what was not stored is forgotten, and a
\* file that was being written may be empty
PowerFailure(torn) ==
  /\ torn => todo # <<>>
  /\ LET left == IF torn THEN [store EXCEPT ![Head(todo).file] = <<>>] ELSE store
     IN  /\ store' = left
         /\ table' = [i \in Slots |-> Loaded(left[<<"gm", i>>])]
         /\ param' = [p \in Params |-> LoadedParam(p, left[<<p, 0>>])]
  /\ todo' = <<>>
  /\ unsaved' = {}
  /\ reset' = (reset /\ todo = <<>>)
  /\ UNCHANGED <<loading, requests>>

Next ==
  \/ \E body \in Requests :
       \E flags \in BOOLEAN \X BOOLEAN : Post(body, flags)
  \/ \E value \in Slots : Delete(value)
  \/ \E p \in Params : \E value \in netip[p].puts : Put(p, value)
  \/ Reset
  \/ ChangeState
  \/ Store
  \/ \E torn \in BOOLEAN : PowerFailure(torn)

Spec == Init /\ [][Next]_vars

-----------------------------------------------------------------------------
\* oc_core_fp_gm_get_handler: up to the first slot that is not in use
Listed(t) == {i \in Slots : 1 .. i \subseteq Used(t)}

\* oc_core_fp_gm_x_get_handler: not the last slot
Readable(t) == {value \in 1 .. Size - 1 : t[value].ga # <<>>}

(* Properties. *)

\* The values the variables take.
TypeOK ==
  /\ \A i \in Slots : table[i].id \in Int /\ table[i].ga \in Seq(Nat) /\ table[i].a \in BOOLEAN
  /\ DOMAIN store = Files /\ unsaved \subseteq Files
  /\ \A k \in DOMAIN todo : todo[k].file \in Files
  /\ requests \in 0 .. MaxRequests /\ loading \in BOOLEAN /\ reset \in BOOLEAN

\* What was answered as stored is what the next start reads: every entry in
\* use (its addresses in 32 bits) and every parameter, but for a key of one
\* byte, which is never read, unless the last change of it came with a
\* deletion, was refused midway or was a reset.  A client then finds at least
\* the entries it found before.
AnsweredIsStored ==
  LET start == [i \in Slots |-> Loaded(store[<<"gm", i>>])]
  IN todo = <<>> =>
    /\ \A i \in Used(table) : <<"gm", i>> \notin unsaved =>
         start[i] = [table[i] EXCEPT !.ga = [k \in DOMAIN @ |-> @[k] % Word]]
    /\ unsaved = {} =>
         Listed(table) \subseteq Listed(start) /\ Readable(table) \subseteq Readable(start)
    /\ \A p \in Params : <<p, 0>> \notin unsaved =>
         \/ LoadedParam(p, store[<<p, 0>>]) = param[p]
         \/ Len(param[p]) < netip[p].least

\* After a reset that was not cut nothing comes back at a start, whatever was
\* deleted in memory only before it.
ResetForgets == reset /\ todo = <<>> => \A f \in Files : store[f] = <<>>

\* A request never gives an id to a second slot: two slots with one id come
\* from the files, where a deleted entry is kept, or have an id the memory
\* begins with or a deletion leaves.
IdsStayApart ==
  [][todo = <<>> /\ requests' # requests =>
       \A i, j \in Slots :
         i # j /\ table'[i].id = table'[j].id /\ table'[i].id > 0
           => table[i].id = table[j].id]_vars
=============================================================================
