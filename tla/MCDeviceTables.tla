---------------------------- MODULE MCDeviceTables ----------------------------
(* The tables of a device, and the adapter it listens with: one of three  *)
(* parts for good. In one a tool loads tables and power fails; it is about *)
(* DeviceState. In one interfaces come and go under the adapter, and in    *)
(* one packets come to it and multicast messages leave; they are about     *)
(* IpAdapter. The variables of the one are left alone by the others.       *)
EXTENDS MCDeviceState

VARIABLES part,
          addrs, up, netlink, member, waiting, th, main, ready, n, note, iflist, ifup, ifdown,
          due, left, snap, lock, eps, got, out, hops, changes, unseen, mute, torn, erred

adapterVars ==
  <<addrs, up, netlink, member, waiting, th, main, ready, n, note, iflist, ifup, ifdown,
    due, left, snap, lock, eps, got, out, hops, changes, unseen, mute, torn, erred>>

Address(i, family, scope, temp, mesh) ==
  [if |-> i, family |-> family, scope |-> scope, temp |-> temp, mesh |-> mesh]
Packet(sock, dest, long) ==
  [sock |-> sock, from |-> "client", if |-> 1, dest |-> dest, long |-> long]

\* Interface 2 has an IPv4 address, too
Changing ==
  INSTANCE IpAdapter WITH
    Interfaces <- {1, 2},
    Addresses <- {Address(1, "v6", "link", FALSE, FALSE),
                  Address(2, "v6", "link", FALSE, FALSE),
                  Address(2, "v4", "global", FALSE, FALSE)},
    Groups <- {"group"}, Packets <- {}, Scopes <- {},
    MaxChanges <- 3, MaxPackets <- 0

\* One interface with any of a link-local address, a temporary one and one of a
\* Thread mesh
Carrying ==
  INSTANCE IpAdapter WITH
    Interfaces <- {1},
    Addresses <- {Address(1, "v6", "link", FALSE, FALSE),
                  Address(1, "v6", "global", TRUE, FALSE),
                  Address(1, "v6", "global", FALSE, TRUE)},
    Groups <- {}, Scopes <- {2, 4, 5},
    Packets <- {Packet("server", "a1", FALSE), Packet("mcast", "group", FALSE),
                Packet("secure", "a1", FALSE), Packet("secure", "a1", TRUE)},
    MaxChanges <- 0, MaxPackets <- 2

MCInit ==
  /\ Init
  /\ \/ part = "device" /\ Changing!Init /\ up = {}
     \/ part = "changing" /\ Changing!Init
     \/ part = "carrying" /\ Carrying!Init

MCNext ==
  /\ \/ part = "device" /\ Next /\ UNCHANGED adapterVars
     \/ part = "changing" /\ Changing!Next /\ UNCHANGED vars
     \/ part = "carrying" /\ Carrying!Next /\ UNCHANGED vars
  /\ UNCHANGED part

MCSpec == MCInit /\ [][MCNext]_<<vars, adapterVars, part>>

\* However interfaces come and go while the threads of the adapter work, the
\* device ends up listening where it is to, with the endpoints it has; answers
\* return the way their requests came, and no read blocks (IpAdapter).
AdapterSound ==
  /\ part = "changing" => Changing!AdapterSound
  /\ part = "carrying" => Carrying!AdapterSound
=============================================================================
