------------------------------ MODULE IpAdapter ------------------------------
(***************************************************************************)
(* The adapter of the Linux port (port/linux/ipadapter.c) for IPv6 and one *)
(* device: the sockets, their multicast memberships, the list of the       *)
(* device's endpoints, and two threads that work on them while interfaces  *)
(* come and go.  The thread of the network waits for packets and for the   *)
(* notes of the kernel; the main thread starts and stops it, registers the *)
(* groups again when it hears of an interface, and sends.                  *)
(*                                                                         *)
(* A step ends where a thread takes or leaves the mutex, or calls the      *)
(* kernel about something that may have changed.  MessageFlow has the way  *)
(* of a message from the thread to its handler, GroupMessages and          *)
(* DeviceState what groups are registered.                                 *)
(***************************************************************************)
EXTENDS Integers, Sequences, FiniteSets

CONSTANTS
  Addresses,     \* those interfaces may have: [if, family, scope, temp, mesh]
  Interfaces,    \* the interfaces, but for the loopback interface
  Groups,        \* the group addresses of the tables
  Packets,       \* what the network sends: [sock, from, if, dest, long]
  Scopes,        \* the scopes of the multicast messages that are sent
  MaxChanges,    \* bound: the changes of interfaces in a behaviour
  MaxPackets     \* bound: the packets and messages that wait

VARIABLES
  addrs,         \* the kernel: the addresses there are,
  up,            \* the interfaces that are up,
  netlink,       \* the notes that wait at ifchange_sock,
  member,        \* the memberships of mcast_sock,
  waiting,       \* the packets that wait at the other sockets
  th, main,      \* where the two threads are
  ready, n,      \* setfds, and how many of it are still to be looked at
  note,          \* the note the thread works on
  iflist,        \* ip_interface_list
  ifup, ifdown,  \* interface_up, interface_down
  due,           \* the events of interfaces that are posted
  left, snap,    \* the groups still to be joined, and on which interfaces
  lock,          \* who has the mutex
  eps,           \* dev->eps
  got, out,      \* the messages that are received, and what is sent
  hops,          \* the hop limit that server_sock has for multicast
  changes,       \* bound
  unseen, mute, torn, erred    \* ghosts, see below

kernelVars == <<addrs, up, netlink, waiting, changes>>
threadVars == <<th, ready, n, note, iflist>>
mainVars == <<main, due, left, snap>>
flagVars == <<ifup, ifdown>>
dataVars == <<got, out, hops>>
ghosts == <<unseen, mute, torn, erred>>
vars == <<kernelVars, member, threadVars, mainVars, flagVars, lock, eps, dataVars, ghosts>>

Socks == {"server", "mcast", "secure"}
AllNodes == "ALL_COAP_NODES"
NoNote == [new |-> FALSE, a |-> [if |-> 0]]
Bound == main \notin {"off", "configured"}

Usable(a) == a.family = "v6" /\ a.scope # "host"
Has6(i) == \E a \in addrs : a.if = i /\ Usable(a)
HasLink(i) == \E a \in addrs : a.if = i /\ Usable(a) /\ a.scope = "link"

-----------------------------------------------------------------------------
(* The kernel and the network.  An interface that loses its last IPv6      *)
(* address is one that was taken away: its memberships are gone, and       *)
(* joining a group on it fails.                                            *)

Tell(new, a) ==
  netlink' = IF Bound THEN Append(netlink, [new |-> new, a |-> a]) ELSE netlink

\* unseen: interfaces that get a link-local address after the groups of all
\* nodes have been joined and before the notes are listened to
AddAddress(a) ==
  /\ changes < MaxChanges /\ a \notin addrs /\ a.if \in up
  /\ changes' = changes + 1
  /\ addrs' = addrs \cup {a}
  /\ Tell(TRUE, a)
  /\ unseen' = IF main = "configured" THEN unseen \cup {a.if} ELSE unseen
  /\ UNCHANGED <<up, waiting, member, threadVars, mainVars, flagVars, lock, eps, dataVars,
                 mute, torn, erred>>

RemoveAddress(a) ==
  /\ changes < MaxChanges /\ a \in addrs
  /\ changes' = changes + 1
  /\ addrs' = addrs \ {a}
  /\ Tell(FALSE, a)
  /\ member' = IF Has6(a.if)' THEN member ELSE {x \in member : x[2] # a.if}
  /\ UNCHANGED <<up, waiting, threadVars, mainVars, flagVars, lock, eps, dataVars, ghosts>>

SetUp(i) ==
  /\ changes < MaxChanges /\ i \notin up
  /\ changes' = changes + 1
  /\ up' = up \cup {i}
  /\ UNCHANGED <<addrs, netlink, waiting, member, threadVars, mainVars, flagVars, lock, eps,
                 dataVars, ghosts>>

Arrive(p) ==
  /\ Bound
  /\ Len(got) + Len(waiting["server"]) + Len(waiting["mcast"]) + Len(waiting["secure"]) < MaxPackets
  /\ waiting' = [waiting EXCEPT ![p.sock] = Append(@, p)]
  /\ UNCHANGED <<addrs, up, netlink, changes, member, threadVars, mainVars, flagVars, lock,
                 eps, dataVars, ghosts>>

-----------------------------------------------------------------------------
(* Memberships.                                                            *)

\* add_mcast_sock_to_ipv6_mcast_group: the groups of all nodes, on one interface
JoinAllNodes(is) == member \cup {<<AllNodes, i>> : i \in {x \in is : Has6(x)}}

\* configure_mcast_socket, for the interfaces with a link-local address
ConfigureMcastSocket == JoinAllNodes({i \in up : HasLink(i)})

-----------------------------------------------------------------------------
(* The list of interfaces that are known, and the list of endpoints.       *)

AddIpInterface(i) == iflist' = iflist \cup {i}

\* an interface is known for ever
KeepIpInterface(i) == UNCHANGED iflist

RemoveIpInterface(i) == iflist' = iflist \ {i}

\* check_new_ip_interfaces: getifaddrs has an entry for an interface that has
\* no address, too
CheckNewIpInterfaces == iflist' = iflist \cup up

\* get_interface_addresses: of each interface the first address that is not
\* temporary, or none at all if the kernel cannot be asked
InterfaceAddresses ==
  LET Listed == {a \in addrs : Usable(a) /\ ~a.temp}
  IN {{}} \cup {E \in SUBSET Listed :
                  \A i \in Interfaces : Cardinality({a \in E : a.if = i})
                                          = IF \E a \in Listed : a.if = i THEN 1 ELSE 0}

\* refresh_endpoints_list, under the mutex: the list is freed and read again
FreeEndpoints(who) == lock = "none" /\ lock' = who /\ eps' = {}
ReadEndpoints == lock' = "none" /\ eps' \in InterfaceAddresses

-----------------------------------------------------------------------------
(* Start and stop.                                                         *)

\* oc_connectivity_init creates the sockets, joins the groups of all nodes, ...
Configure ==
  /\ main = "off"
  /\ main' = "configured"
  /\ member' = ConfigureMcastSocket
  /\ UNCHANGED <<kernelVars, threadVars, due, left, snap, flagVars, lock, eps, dataVars, ghosts>>

\* ... listens to changes of interfaces, ...
BindNetlink ==
  /\ main = "configured"
  /\ main' = "bound"
  /\ UNCHANGED <<kernelVars, member, threadVars, due, left, snap, flagVars, lock, eps,
                 dataVars, ghosts>>

\* ... reads which there are and starts the thread.  The caller registers the
\* groups when it has loaded the tables.
StartThread ==
  /\ main = "bound"
  /\ main' = "idle"
  /\ CheckNewIpInterfaces
  /\ mute' = {i \in up : ~Has6(i)}
  /\ th' = "select"
  /\ due' = 1
  /\ UNCHANGED <<kernelVars, member, ready, n, note, left, snap, flagVars, lock, eps,
                 dataVars, unseen, torn, erred>>

\* oc_connectivity_shutdown: the thread is told to end, ...
Terminate ==
  /\ main = "idle"
  /\ main' = "stopping"
  /\ UNCHANGED <<kernelVars, member, threadVars, due, left, snap, flagVars, lock, eps,
                 dataVars, ghosts>>

\* ... and when it has ended its sockets are closed
Close ==
  /\ main = "stopping" /\ th = "ended"
  /\ main' = "off" /\ th' = "off"
  /\ member' = {} /\ netlink' = << >> /\ waiting' = [s \in Socks |-> << >>]
  /\ iflist' = {} /\ eps' = {} /\ got' = << >>
  /\ unseen' = {} /\ mute' = {} /\ torn' = FALSE
  /\ UNCHANGED <<addrs, up, changes, ready, n, note, due, left, snap, flagVars, lock, out,
                 hops, erred>>

-----------------------------------------------------------------------------
(* The thread.                                                             *)

Readable == {s \in Socks : waiting[s] # << >>} \cup (IF netlink # << >> THEN {"netlink"} ELSE {})

\* network_event_thread: it waits for what can be read
Select ==
  /\ th = "select" /\ main # "stopping" /\ Readable # {}
  /\ th' = "round"
  /\ ready' = Readable /\ n' = Cardinality(Readable)
  /\ erred' = FALSE
  /\ UNCHANGED <<kernelVars, member, note, iflist, mainVars, flagVars, lock, eps, dataVars,
                 unseen, mute, torn>>

RoundDone ==
  /\ th = "round" /\ n = 0
  /\ th' = "select"
  /\ UNCHANGED <<kernelVars, member, ready, n, note, iflist, mainVars, flagVars, lock, eps,
                 dataVars, ghosts>>

EndThread ==
  /\ th = "select" /\ main = "stopping"
  /\ th' = "ended"
  /\ UNCHANGED <<kernelVars, member, ready, n, note, iflist, mainVars, flagVars, lock, eps,
                 dataVars, ghosts>>

\* process_interface_change_event: an interface that was not known is one that
\* is up, and one that is known is down with the first address it loses.
\* mute: interfaces that are known since a time they had no IPv6 address
TakeNote ==
  /\ th = "round" /\ n > 0 /\ "netlink" \in ready
  /\ n' = n - 1 /\ ready' = ready \ {"netlink"}
  /\ note' = Head(netlink) /\ netlink' = Tail(netlink)
  /\ LET i == note'.a.if
         changed == note'.new # (i \in iflist)
     IN /\ IF note'.new THEN AddIpInterface(i) ELSE RemoveIpInterface(i)
        /\ th' = IF changed THEN "flag" ELSE "join"
        /\ mute' = IF note'.new /\ changed /\ ~Has6(i) THEN mute \cup {i}
                   ELSE IF changed THEN mute \ {i} ELSE mute
  /\ UNCHANGED <<addrs, up, waiting, changes, member, mainVars, flagVars, lock, eps, dataVars,
                 unseen, torn, erred>>

\* oc_network_interface_event
Flag ==
  /\ th = "flag" /\ lock = "none"
  /\ th' = "join"
  /\ ifup' = (ifup \/ note.new) /\ ifdown' = (ifdown \/ ~note.new)
  /\ UNCHANGED <<kernelVars, member, ready, n, note, iflist, mainVars, lock, eps, dataVars,
                 ghosts>>

\* A link-local address is new: the groups of all nodes are joined on its
\* interface
Join ==
  /\ th = "join"
  /\ th' = "refresh"
  /\ IF note.new /\ note.a.family = "v6" /\ note.a.scope = "link"
     THEN member' = JoinAllNodes({note.a.if}) /\ unseen' = unseen \ {note.a.if}
     ELSE UNCHANGED <<member, unseen>>
  /\ UNCHANGED <<kernelVars, ready, n, note, iflist, mainVars, flagVars, lock, eps, dataVars,
                 mute, torn, erred>>

NetRefresh ==
  /\ th = "refresh" /\ FreeEndpoints("net")
  /\ th' = "read"
  /\ UNCHANGED <<kernelVars, member, ready, n, note, iflist, mainVars, flagVars, dataVars, ghosts>>

NetRead ==
  /\ th = "read" /\ ReadEndpoints
  /\ th' = "round"
  /\ UNCHANGED <<kernelVars, member, ready, n, note, iflist, mainVars, flagVars, dataVars, ghosts>>

-----------------------------------------------------------------------------
(* Packets.                                                                *)

\* recv_msg and oc_udp_receive_message: where a packet came from, and for an
\* answer from which address
RecvMsg(p) ==
  [device |-> 0, addr |-> p.from, if |-> p.if,
   local |-> IF p.sock = "mcast" THEN "any" ELSE p.dest,
   flags |-> CASE p.sock = "server" -> {"IPV6"} [] p.sock = "mcast" -> {"IPV6", "MULTICAST"}
               [] OTHER -> {"IPV6", "SECURED"}]

\* The socket that is looked at: the first that was ready
ReadySocket ==
  CHOOSE s \in Socks \cap ready :
    \/ s = "server"
    \/ s = "mcast" /\ "server" \notin ready
    \/ s = "secure" /\ ready \cap {"server", "mcast"} = {}

\* A packet becomes a message; one that is too long is an error, after which
\* the socket counts as ready still
Receive ==
  /\ th = "round" /\ n > 0 /\ "netlink" \notin ready
  /\ n' = n - 1
  /\ IF ready \cap Socks = {} THEN UNCHANGED <<ready, waiting, got, erred>>
     ELSE LET s == ReadySocket
              p == Head(waiting[s])
          IN /\ waiting[s] # << >>
             /\ waiting' = [waiting EXCEPT ![s] = Tail(@)]
             /\ IF p.long THEN erred' = TRUE /\ UNCHANGED <<ready, got>>
                ELSE /\ ready' = ready \ {s}
                     /\ got' = Append(got, [p |-> p, endpoint |-> RecvMsg(p)])
                     /\ UNCHANGED erred
  /\ UNCHANGED <<addrs, up, netlink, changes, member, th, note, iflist, mainVars, flagVars,
                 lock, eps, out, hops, unseen, mute, torn>>

\* oc_send_buffer and send_msg
SendBuffer(e) ==
  [sock |-> IF "SECURED" \in e.flags THEN "secure" ELSE "server",
   to |-> e.addr, if |-> e.if, src |-> e.local]

\* The main thread answers a message
Answer ==
  /\ main = "idle" /\ got # << >>
  /\ got' = Tail(got)
  /\ out' = {[p |-> Head(got).p, sent |-> SendBuffer(Head(got).endpoint)]}
  /\ UNCHANGED <<kernelVars, member, threadVars, mainVars, flagVars, lock, eps, hops, ghosts>>

\* oc_send_discovery_request: a multicast message leaves from every address of
\* interfaces that are up but those of a Thread mesh.  The hop limit of the socket
\* is set for the scopes it knows.
SendDiscovery(scope) ==
  /\ main = "idle"
  /\ hops' = CASE scope = 2 -> 1 [] scope \in {3, 5} -> 255 [] OTHER -> hops
  /\ out' = {[scope |-> scope, hops |-> hops', if |-> a.if, src |-> a,
              zone |-> IF scope = 2 THEN a.if ELSE 0] :
               a \in {x \in addrs : Usable(x) /\ ~x.mesh /\ x.if \in up}}
  /\ UNCHANGED <<kernelVars, member, threadVars, mainVars, flagVars, lock, eps, got, ghosts>>

-----------------------------------------------------------------------------
(* The main thread.                                                        *)

\* oc_process_network_event: the events of interfaces are posted
PostInterfaceEvents ==
  /\ main = "idle" /\ lock = "none" /\ (ifup \/ ifdown)
  /\ due' = due + (IF ifup THEN 1 ELSE 0) + (IF ifdown THEN 1 ELSE 0)
  /\ ifup' = FALSE /\ ifdown' = FALSE
  /\ UNCHANGED <<kernelVars, member, threadVars, main, left, snap, lock, eps, dataVars, ghosts>>

\* register_multicasts: each event registers the groups (oc_register_group_multicasts)
RegisterMulticasts ==
  /\ main = "idle" /\ due > 0
  /\ due' = due - 1
  /\ main' = "register" /\ left' = Groups /\ snap' = {}
  /\ torn' = FALSE
  /\ UNCHANGED <<kernelVars, member, threadVars, flagVars, lock, eps, dataVars, unseen, mute,
                 erred>>

\* oc_connectivity_subscribe_mcast_ipv6 asks which interfaces there are ...
SubscribeMcast ==
  /\ main = "register" /\ left # {}
  /\ main' = "subscribe"
  /\ snap' = {i \in up : Has6(i)}
  /\ UNCHANGED <<kernelVars, member, threadVars, due, left, flagVars, lock, eps, dataVars, ghosts>>

\* ... and joins the group on each; it gives up the others with the first that
\* fails.  torn: that has happened
SubscribeOn(g) ==
  /\ main = "subscribe" /\ snap # {} /\ g \in left
  /\ \E i \in snap :
       IF Has6(i) THEN member' = member \cup {<<g, i>>} /\ snap' = snap \ {i} /\ UNCHANGED torn
       ELSE snap' = {} /\ torn' = TRUE /\ UNCHANGED member
  /\ UNCHANGED <<kernelVars, threadVars, main, due, left, flagVars, lock, eps, dataVars,
                 unseen, mute, erred>>

Subscribed(g) ==
  /\ main = "subscribe" /\ snap = {} /\ g \in left
  /\ main' = "register" /\ left' = left \ {g}
  /\ UNCHANGED <<kernelVars, member, threadVars, due, snap, flagVars, lock, eps, dataVars, ghosts>>

Registered ==
  /\ main = "register" /\ left = {}
  /\ main' = "idle"
  /\ UNCHANGED <<kernelVars, member, threadVars, due, left, snap, flagVars, lock, eps, dataVars,
                 ghosts>>

\* oc_connectivity_get_endpoints reads the list again if it is empty, which it
\* looks at without the mutex
GetEndpoints ==
  /\ main = "idle" /\ eps = {}
  /\ main' = "endpoints"
  /\ UNCHANGED <<kernelVars, member, threadVars, due, left, snap, flagVars, lock, eps, dataVars,
                 ghosts>>

MainRefresh ==
  /\ main = "endpoints" /\ FreeEndpoints("main")
  /\ main' = "read"
  /\ UNCHANGED <<kernelVars, member, threadVars, due, left, snap, flagVars, dataVars, ghosts>>

MainRead ==
  /\ main = "read" /\ ReadEndpoints
  /\ main' = "idle"
  /\ UNCHANGED <<kernelVars, member, threadVars, due, left, snap, flagVars, dataVars, ghosts>>

-----------------------------------------------------------------------------
Init ==
  /\ up \in SUBSET Interfaces /\ addrs \in SUBSET {a \in Addresses : a.if \in up}
  /\ netlink = << >> /\ waiting = [s \in Socks |-> << >>] /\ changes = 0
  /\ member = {}
  /\ th = "off" /\ ready = {} /\ n = 0 /\ note = NoNote /\ iflist = {}
  /\ main = "off" /\ due = 0 /\ left = {} /\ snap = {}
  /\ ifup = FALSE /\ ifdown = FALSE /\ lock = "none" /\ eps = {}
  /\ got = << >> /\ out = {} /\ hops = 1
  /\ unseen = {} /\ mute = {} /\ torn = FALSE /\ erred = FALSE

Kernel ==
  \/ \E a \in Addresses : AddAddress(a) \/ RemoveAddress(a)
  \/ \E i \in Interfaces : SetUp(i)
  \/ \E p \in Packets : Arrive(p)

NetworkThread ==
  \/ Select \/ RoundDone \/ EndThread
  \/ TakeNote \/ Flag \/ Join \/ NetRefresh \/ NetRead
  \/ Receive

MainThread ==
  \/ Configure \/ BindNetlink \/ StartThread \/ Terminate \/ Close
  \/ Answer \/ \E scope \in Scopes : SendDiscovery(scope)
  \/ PostInterfaceEvents \/ RegisterMulticasts
  \/ SubscribeMcast \/ Registered
  \/ \E g \in Groups : SubscribeOn(g) \/ Subscribed(g)
  \/ GetEndpoints \/ MainRefresh \/ MainRead

Next == Kernel \/ NetworkThread \/ MainThread
Spec == Init /\ [][Next]_vars

-----------------------------------------------------------------------------
(* Properties.                                                             *)

\* All variables have their types.
TypeOK ==
  /\ addrs \subseteq Addresses /\ up \subseteq Interfaces /\ changes \in 0 .. MaxChanges
  /\ \A k \in 1 .. Len(netlink) : netlink[k] \in [new : BOOLEAN, a : Addresses]
  /\ \A s \in Socks : Len(waiting[s]) + Len(got) <= MaxPackets
  /\ member \subseteq (Groups \cup {AllNodes}) \X Interfaces
  /\ th \in {"off", "select", "round", "flag", "join", "refresh", "read", "ended"}
  /\ main \in {"off", "configured", "bound", "idle", "stopping", "register", "subscribe",
               "endpoints", "read"}
  /\ ready \subseteq Socks \cup {"netlink"} /\ n \in 0 .. Cardinality(Socks) + 1
  /\ iflist \subseteq Interfaces /\ eps \subseteq Addresses
  /\ due \in Nat /\ left \subseteq Groups /\ snap \subseteq Interfaces
  /\ lock \in {"none", "net", "main"} /\ hops \in {1, 255}
  /\ {ifup, ifdown, torn, erred} \subseteq BOOLEAN

\* Both threads have done what is to be done
Quiet ==
  /\ main = "idle" /\ due = 0 /\ ~ifup /\ ~ifdown
  /\ th = "select" /\ netlink = << >>

\* When the changes of interfaces have been seen to, the device listens to the
\* groups of all nodes on every interface with a link-local address, and to its
\* own groups on every interface with an IPv6 address, whatever came and went
\* while the threads were at it; excepted are the interfaces the code misses
\* (unseen, mute) and a registration that was given up (torn).
ListensWhenQuiet ==
  Quiet => \A i \in Interfaces :
             /\ HasLink(i) /\ i \notin unseen => <<AllNodes, i>> \in member
             /\ Has6(i) /\ i \notin mute /\ ~torn => \A g \in Groups : <<g, i>> \in member

\* The endpoints the device tells of are then those it has: one address of each
\* interface, or none before somebody asks.
EndpointsCurrent == Quiet => eps = {} \/ eps \in InterfaceAddresses

\* The answer to a message goes to where it came from, over the interface and
\* from the address it came to, on a secure socket if it came on one; an answer to
\* a multicast message leaves from no group's address.  A multicast message of
\* link-local scope is bound to its interface and leaves no further.
AnswersReturn ==
  \A r \in out :
    IF "scope" \in DOMAIN r
    THEN r.scope = 2 => r.hops = 1 /\ r.zone = r.if
    ELSE /\ r.sent.to = r.p.from /\ r.sent.if = r.p.if
         /\ r.sent.src = IF r.p.sock = "mcast" THEN "any" ELSE r.p.dest
         /\ (r.sent.sock = "secure") = (r.p.sock = "secure")

\* The thread reads only from a socket that has a packet, unless one of the round
\* was too long.
ReadsDoNotBlock ==
  th = "round" /\ n > 0 /\ "netlink" \notin ready /\ ready # {} /\ ~erred
    => waiting[ReadySocket] # << >>

\* The adapter keeps the promises above.
AdapterSound ==
  TypeOK /\ ListensWhenQuiet /\ EndpointsCurrent /\ AnswersReturn /\ ReadsDoNotBlock
=============================================================================
