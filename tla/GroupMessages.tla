--------------------------- MODULE GroupMessages ---------------------------
(***************************************************************************)
(* Group communication in s-mode: the messages to /k and what the flags of *)
(* the group object table make of them (api/oc_knx.c), the sending of a    *)
(* value or of a read (api/oc_knx_client.c), and the reads a device sends  *)
(* for its objects with the flag I (api/oc_knx_fp.c).                      *)
(*                                                                         *)
(* The group object tables are constants here: GroupTables models how they *)
(* change.  The recipient and publisher tables are empty, so a group is    *)
(* reached at its own address, and a device listens to the groups of its   *)
(* objects with W, U or R.  All devices hold the token of every group.  A  *)
(* value fits in the 50 bytes that carry it.                               *)
(*                                                                         *)
(* A datagram may be lost or overtaken; replay protection drops copies.    *)
(* A device does not hear its own messages.                                *)
(***************************************************************************)
EXTENDS Integers, Sequences, FiniteSets, SequencesExt, Graphs

CONSTANTS
  Devices,
  Got,          \* g_got[] of a device: sequence of [url, ga, flags]
  Scopes,       \* the multicast scopes, in the order of sending
  Writers,      \* the objects <<device, url>> the applications set
  MaxWrites,    \* bound on the values set
  MaxRestarts,  \* bound on the restarts
  MaxReloads    \* bound on the times a device is loaded again

Flags == {"r", "w", "t", "u", "i"}

\* an entry has an id, a path of an own resource and at least one group
ASSUME GotAssumption ==
  \A d \in Devices : \A i \in DOMAIN Got[d] :
    Got[d][i].flags \subseteq Flags /\ Got[d][i].ga # <<>>

Urls(d) == {Got[d][i].url : i \in DOMAIN Got[d]}
Objects == UNION {{d} \X Urls(d) : d \in Devices}
Channels == {p \in Devices \X Devices : p[1] # p[2]}

ASSUME WriterAssumption == Writers \subseteq Objects
ASSUME BoundAssumption == MaxWrites \in Nat /\ MaxRestarts \in Nat /\ MaxReloads \in Nat

VARIABLES
  value,      \* the values of a device's objects, by url; 0 at power-up
  running,    \* the devices that are loaded
  channel,    \* the messages on their way from one device to another
  writes,     \* ghost: the object each value was first set at
  restarts,   \* restarts so far
  reloads,    \* devices loaded again so far
  disturbed   \* ghost: a message or a value was lost, or a message overtaken

vars == <<value, running, channel, writes, restarts, reloads, disturbed>>

-----------------------------------------------------------------------------
(* The group object table.                                                 *)

Has(d, i, f) == f \in Got[d][i].flags
Groups(d) == UNION {ToSet(Got[d][i].ga) : i \in DOMAIN Got[d]}

\* oc_core_find_group_object_table_index and _next_..: the entries with a group
WithGroup ==
  [d \in Devices |-> [g \in Groups(d) |->
    SelectSeq([i \in DOMAIN Got[d] |-> i], LAMBDA i : g \in ToSet(Got[d][i].ga))]]

\* oc_core_find_group_object_table_url and _next_..: the entries of an object
WithUrl ==
  [d \in Devices |-> [u \in Urls(d) |->
    SelectSeq([i \in DOMAIN Got[d] |-> i], LAMBDA i : Got[d][i].url = u)]]

\* oc_register_group_multicasts, in a device whose tables do not change
Listens(d, g) ==
  \E i \in DOMAIN Got[d] : g \in ToSet(Got[d][i].ga) /\ Got[d][i].flags \cap {"w", "u", "r"} # {}

Share(d, i, o) == o # i /\ ToSet(Got[d][i].ga) \cap ToSet(Got[d][o].ga) # {}

-----------------------------------------------------------------------------
(* Sending.  The state of a device in a handler: its values and the        *)
(* messages it has sent.                                                   *)

Handling(d) == [val |-> value[d], out |-> <<>>]
Put(h, u, v) == [h EXCEPT !.val[u] = v]

NoValue == -1
Message(st, g, v) == [st |-> st, ga |-> g, val |-> v]

\* an answer also updates the device's other objects with W in its groups
UpdateOthers(d, val, sent, v) ==
  [x \in Urls(d) |->
    IF \E o \in ToSet(WithUrl[d][x]), i \in sent : Has(d, o, "w") /\ Share(d, i, o)
    THEN v ELSE val[x]]

\* mutant: the message carries the value the object had before the handler
StaleSend(d, h, u, st, entries) ==
  LET once == [k \in DOMAIN entries |-> Message(st, Got[d][entries[k]].ga[1], value[d][u])]
  IN [val |-> IF st = "a" THEN UpdateOthers(d, h.val, ToSet(entries), h.val[u]) ELSE h.val,
      out |-> h.out \o FlattenSeq([s \in DOMAIN Scopes |-> once])]

\* oc_do_s_mode_with_scope_and_check, called for every scope: the value of the
\* object goes to the first group of each of the given entries
SendEntries(d, h, u, st, entries) ==
  LET once == [k \in DOMAIN entries |-> Message(st, Got[d][entries[k]].ga[1], h.val[u])]
  IN [val |-> IF st = "a" THEN UpdateOthers(d, h.val, ToSet(entries), h.val[u]) ELSE h.val,
      out |-> h.out \o FlattenSeq([s \in DOMAIN Scopes |-> once])]

\* a write needs the flag T, an answer does not; only in a loaded device
Send(d, h, u, st) ==
  IF d \notin running THEN h
  ELSE SendEntries(d, h, u, st,
         SelectSeq(WithUrl[d][u], LAMBDA i : st = "a" \/ Has(d, i, "t")))

\* oc_init_datapoints_at_initialization, oc_do_s_mode_read: not only when loaded
InitialReads(d) ==
  FlattenSeq([i \in DOMAIN Got[d] |->
    IF Has(d, i, "i") THEN [s \in DOMAIN Scopes |-> Message("r", Got[d][i].ga[1], NoValue)]
    ELSE <<>>])

\* channel after device d has sent the messages out
Multicast(ch, d, out) ==
  [c \in Channels |->
    IF c[1] = d THEN ch[c] \o SelectSeq(out, LAMBDA m : Listens(c[2], m.ga)) ELSE ch[c]]

Finish(ch, d, h) ==
  /\ value' = [value EXCEPT ![d] = h.val]
  /\ channel' = Multicast(ch, d, h.out)

-----------------------------------------------------------------------------
(* oc_core_knx_k_post_handler.                                             *)

\* mutant: a received value is sent on whatever the flags
OverwriteAndSend(d, h, i, v) ==
  LET u == Got[d][i].url IN SendEntries(d, Put(h, u, v), u, "w", WithUrl[d][u])

\* the put handler, and a write of its own when the object transmits
Overwrite(d, h, i, v) ==
  LET u == Got[d][i].url IN
  IF Has(d, i, "t") THEN Send(d, Put(h, u, v), u, "w") ELSE Put(h, u, v)

\* one entry of the table that has the group of message m
ForEntry(d, h, i, m) ==
  IF (m.st = "w" /\ Has(d, i, "w")) \/ (m.st = "a" /\ Has(d, i, "u"))
    THEN Overwrite(d, h, i, m.val)
  ELSE IF m.st = "r" /\ Has(d, i, "r")
    THEN Send(d, h, Got[d][i].url, "a")
  ELSE h

Handled(d, m) ==
  IF d \notin running THEN Handling(d)
  ELSE FoldLeft(LAMBDA h, i : ForEntry(d, h, i, m), Handling(d), IF m.ga \in Groups(d) THEN WithGroup[d][m.ga] ELSE <<>>)

-----------------------------------------------------------------------------
(* The steps.                                                              *)

\* the first message of a channel arrives; a device that is not loaded ignores it
Deliver(c) ==
  /\ channel[c] # <<>>
  /\ Finish([channel EXCEPT ![c] = Tail(@)], c[2], Handled(c[2], Head(channel[c])))
  /\ disturbed' = (disturbed \/ c[2] \notin running)
  /\ UNCHANGED <<running, writes, restarts, reloads>>

Lose(c) ==
  /\ channel[c] # <<>>
  /\ channel' = [channel EXCEPT ![c] = Tail(@)]
  /\ disturbed' = TRUE
  /\ UNCHANGED <<value, running, writes, restarts, reloads>>

Overtake(c) ==
  /\ Len(channel[c]) > 1 /\ channel[c][1] # channel[c][2]
  /\ channel' = [channel EXCEPT ![c] = <<@[2], @[1]>> \o SubSeq(@, 3, Len(@))]
  /\ disturbed' = TRUE
  /\ UNCHANGED <<value, running, writes, restarts, reloads>>

\* the application sets a new value and calls oc_do_s_mode_with_scope
AppSet(o) ==
  LET h == Put(Handling(o[1]), o[2], Len(writes) + 1) IN
  /\ Len(writes) < MaxWrites
  /\ writes' = Append(writes, o)
  /\ Finish(channel, o[1], Send(o[1], h, o[2], "w"))
  /\ disturbed' = (disturbed \/ o[1] \notin running)
  /\ UNCHANGED <<running, restarts, reloads>>

\* power cycle: the values are those of the application's start, what was on the
\* way to the device is lost, the tables and the load state are read back
Restart(d) ==
  /\ restarts < MaxRestarts
  /\ restarts' = restarts + 1
  /\ Finish([c \in Channels |-> IF c[2] = d THEN <<>> ELSE channel[c]], d,
            [val |-> [u \in Urls(d) |-> 0], out |-> InitialReads(d)])
  /\ disturbed' = \/ disturbed
                  \/ \E c \in Channels : c[2] = d /\ channel[c] # <<>>
                  \/ \E i \in DOMAIN Got[d] : ~Has(d, i, "i") /\ value[d][Got[d][i].url] # 0
  /\ UNCHANGED <<running, writes, reloads>>

\* a management client starts loading: the device leaves the run time
StartLoading(d) ==
  /\ d \in running /\ reloads < MaxReloads
  /\ running' = running \ {d}
  /\ reloads' = reloads + 1
  /\ UNCHANGED <<value, channel, writes, restarts, disturbed>>

\* load complete: oc_core_a_lsm_post_handler sends the initial reads
CompleteLoading(d) ==
  /\ d \notin running
  /\ running' = running \cup {d}
  /\ channel' = Multicast(channel, d, InitialReads(d))
  /\ UNCHANGED <<value, writes, restarts, reloads, disturbed>>

Init ==
  /\ value = [d \in Devices |-> [u \in Urls(d) |-> 0]]
  /\ running = Devices
  /\ channel = [c \in Channels |-> <<>>]
  /\ writes = <<>>
  /\ restarts = 0
  /\ reloads = 0
  /\ disturbed = FALSE

Next ==
  \/ \E c \in Channels : Deliver(c) \/ Lose(c) \/ Overtake(c)
  \/ \E o \in Writers : AppSet(o)
  \/ \E d \in Devices : Restart(d) \/ StartLoading(d) \/ CompleteLoading(d)

Spec == Init /\ [][Next]_vars

\* the network does not stop: some datagram is delivered or lost, some day
FairSpec == Spec /\ WF_vars(\E c \in Channels : Deliver(c) \/ Lose(c))

-----------------------------------------------------------------------------
(* Properties.                                                             *)

Messages == [st : {"w", "a"}, ga : Int, val : 0 .. MaxWrites] \cup
            [st : {"r"}, ga : Int, val : {NoValue}]

\* The values the variables take.
TypeOK ==
  /\ \A d \in Devices : value[d] \in [Urls(d) -> 0 .. MaxWrites]
  /\ running \subseteq Devices
  /\ \A c \in Channels : \A k \in DOMAIN channel[c] : channel[c][k] \in Messages
  /\ Len(writes) <= MaxWrites

Quiet == \A c \in Channels : channel[c] = <<>>

\* the ways a value may take in one message, as the flags are meant
Flows ==
  {e \in Objects \X Objects :
    \E i \in DOMAIN Got[e[1][1]], j \in DOMAIN Got[e[2][1]] :
      LET d == e[1][1]  f == e[2][1] IN
      /\ Got[d][i].url = e[1][2] /\ Got[f][j].url = e[2][2]
      /\ \/ /\ d # f /\ Got[d][i].ga[1] \in ToSet(Got[f][j].ga)
            /\ \/ Has(d, i, "t") /\ Has(f, j, "w")
               \/ (\E k \in ToSet(WithUrl[d][e[1][2]]) : Has(d, k, "r")) /\ Has(f, j, "u")
         \/ /\ d = f /\ i # j /\ Has(f, j, "w")
            /\ \E k \in ToSet(WithUrl[d][e[1][2]]) : Has(d, k, "r")
            /\ ToSet(Got[d][i].ga) \cap ToSet(Got[f][j].ga) # {}}

Leads ==
  LET reach == ConnectionsIn([node |-> Objects, edge |-> Flows])
  IN {e \in Objects \X Objects : reach[e[1], e[2]]}

\* A value only gets where the flags and the sending groups of the tables lead
\* from the object it was set at, over any number of devices.
FlagsObeyed ==
  \A o \in Objects :
    LET v == value[o[1]][o[2]] IN v > 0 => <<writes[v], o>> \in Leads

\* the pairs of objects of which the first sends its writes to the second
Feeds ==
  {e \in Objects \X Objects :
    /\ e[1][1] # e[2][1]
    /\ \E i \in ToSet(WithUrl[e[1][1]][e[1][2]]), j \in ToSet(WithUrl[e[2][1]][e[2][2]]) :
         /\ Has(e[1][1], i, "t") /\ Has(e[2][1], j, "w")
         /\ Got[e[1][1]][i].ga[1] \in ToSet(Got[e[2][1]][j].ga)}

Following ==
  {e \in Feeds : e[2] \notin Writers /\ \A f \in Feeds : f[2] = e[2] => f = e}

\* When nothing was lost or overtaken and nothing is on its way, an object that
\* one other object feeds has the value of that object, also after a restart.
FollowersCurrent ==
  Quiet /\ ~disturbed =>
    \A e \in Following : value[e[1][1]][e[1][2]] = value[e[2][1]][e[2][2]]

\* Values get where they are meant to get, and nowhere else.
ValuesArrive == TypeOK /\ FlagsObeyed /\ FollowersCurrent

\* In an installation whose tables lead no value back, one write, read or
\* answer causes a finite number of messages.
MessagesEnd == <>[]Quiet
=============================================================================
