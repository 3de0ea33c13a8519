------------------------------ MODULE MCDevice ------------------------------
(* What the clients of DeviceProperties send: for every resource bodies     *)
(* that are empty, that have the entry the handler looks for, first or      *)
(* after another, with a wrong type, with a wrong key; and payloads that    *)
(* are cut, that cannot be read, and that ask for another format.           *)
EXTENDS Integers, Sequences, TLC

Pair(key, data) == [key |-> key, data |-> data]
Entry(key, type, value) == [key |-> key, type |-> type, value |-> value]

Asks(body) == [method |-> "PUT", parsed |-> "ok", accepted |-> TRUE, body |-> body,
               pn |-> 0]
Gets(pn) == [Asks(<<>>) EXCEPT !.method = "GET", !.pn = pn]

\* what is asked of every resource, and of those that cannot be written
Common == {Gets(0), Asks(<<>>), [Asks(<<>>) EXCEPT !.parsed = "cut"]}
Rare == Common \cup
  {[Gets(0) EXCEPT !.accepted = FALSE], [Asks(<<>>) EXCEPT !.parsed = "bad"],
   [Asks(<<>>) EXCEPT !.method = "POST"]}

Writes(type, v, w, other) ==
  Common \cup
  {Asks(<<Entry(1, type, v)>>), Asks(<<Entry(1, other, v)>>),
   Asks(<<Entry(2, type, w), Entry(1, type, v)>>),
   Asks(<<Entry(2, other, v), Entry(1, type, w)>>),
   [Asks(<<Entry(1, type, v)>>) EXCEPT !.accepted = FALSE]}

DevicePaths ==
  {"/dev/sn", "/dev/hwv", "/dev/fwv", "/dev/hwt", "/dev/model", "/dev/hname",
   "/dev/iid", "/dev/pm", "/dev/ipv6", "/dev/sna", "/dev/da", "/dev/fid",
   "/dev/port", "/dev/mport", "/dev/mid", "/ap/pv", "/auth/o/osndelay",
   "/auth/o/replwdo", "/swu/protocol", "/swu/maxdefer", "/swu/method",
   "/swu/lastupdate", "/swu/result", "/swu/state", "/swu/update", "/swu/pkgv",
   "/swu/pkgbytes", "/swu/pkgqurl", "/swu/pkgname", "/unknown"}

DeviceRequests ==
  [p \in DevicePaths |->
    CASE p = "/dev/hname" -> Writes("string", <<"h">>, <<"h", "n">>, "int")
      [] p \in {"/dev/iid", "/dev/fid", "/auth/o/osndelay", "/auth/o/replwdo",
                "/swu/protocol", "/swu/maxdefer", "/swu/method", "/swu/update"} ->
           Writes("int", 5, 6, "string")
      [] p = "/dev/pm" -> Writes("bool", TRUE, FALSE, "int")
      [] p = "/ap/pv" -> Writes("ints", <<2, 3, 4>>, <<9, 9>>, "int")
      [] p = "/swu/pkgqurl" -> Writes("string", "u", "v", "int")
      [] p = "/dev/ipv6" -> Rare \cup {Gets(1), Gets(2)}
      [] OTHER -> Rare]

DeviceSettings ==
  [sn |-> "s1", hwv |-> <<1, 0, 0>>, fwv |-> <<1, 1, 0>>, hwt |-> "t1",
   model |-> "m1", mid |-> 12, ap |-> <<1, 0, 0>>]

DeviceScopes ==
  {<<"p">>, <<"d">>, <<"s", "pm", "i">>, <<"i", "i">>,
   <<"g", "c", "a", "b", "o">>, <<"sec", "m">>}
DeviceSetups ==
  {<<p, <<"p", "swu", "d">>>> : p \in DevicePaths}
    \cup {<<p, t>> : p \in {"/dev/fid", "/dev/sn", "/swu/method"}, t \in DeviceScopes}
=============================================================================
