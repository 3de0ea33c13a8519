------------------------------ MODULE MCReaders ------------------------------
(* What the reader and the finder of MCAccessTokens meet.  Pages of two,    *)
(* tables of four entries, and application resources that share blocks,     *)
(* that hold two data points of one block, that are hidden, and one that is *)
(* a router's.  Two devices, one with an installation id that has fewer     *)
(* digits than are compared, and addresses with one digit and with two.     *)
EXTENDS Integers, Sequences, TLC

Point(rt, block) == [rt |-> rt, block |-> block]
Resource(disc, types, iface) ==
  [disc |-> disc, types |-> types, iface |-> iface, inst |-> 0]

ListedApps == {"a", "b", "c", "e"}
ListedRes ==
  [r \in ListedApps \cup {"sn", "hwv", "fwv", "dev", "sub", "k", "swu"} |->
    CASE r = "a" -> Resource(TRUE, <<Point("dpa.7.51", 7), Point("dpa.7.52", 7)>>, "a")
      [] r = "b" -> Resource(TRUE, <<Point("dpa.7.51", 7), Point("dpa.8.1", 8)>>, "sec")
      [] r = "c" -> Resource(FALSE, <<Point("dpa.8.1", 8)>>, "s")
      [] r = "e" -> Resource(TRUE, <<Point("dpa.11.1", 11)>>, "s")
      [] r = "sub" -> Resource(TRUE, <<>>, "p")
      [] OTHER -> Resource(TRUE, <<Point("fb", 0)>>, "d")]
ListedCore ==
  [t \in {"/dev", "/ap", "/swu", "/auth", "/auth/o"} |->
    IF t = "/dev" THEN <<"sn", "hwv", "sub", "fwv", "k">> ELSE <<"hwv", "sub">>]
ListedBasic == <<"dev", "k", "swu", "sub">>
ListedLinks ==
  [n \in {"/f/7", "/f/8", "/f/netip"} |->
    CASE n = "/f/7" -> <<7, 0>> [] n = "/f/8" -> <<8, 0>> [] OTHER -> <<11, 0>>]
ListedFilters ==
  {[rt |-> "none", if |-> "none"], [rt |-> "*", if |-> "none"],
   [rt |-> "dpa.7.51", if |-> "none"], [rt |-> "none", if |-> "s"]}
ListedTopics ==
  DOMAIN ListedCore \cup DOMAIN ListedLinks
    \cup {"/fp/g", "/fp/p", "/fp/r", "/auth/at", "/p", "/f", "/.well-known/core"}

FoundDevices ==
  ("d1" :> [sn |-> "s1", ia |-> 17, iid |-> 165, pm |-> FALSE, loaded |-> TRUE,
            groups |-> {1}])
  @@ ("d2" :> [sn |-> "s2", ia |-> 1, iid |-> 10, pm |-> TRUE, loaded |-> FALSE,
               groups |-> {1, 2}])
FoundRecipients ==
  <<[ia |-> 17, path |-> "p1", groups |-> {1, 2}],
    [ia |-> 1, path |-> "p2", groups |-> {2}]>>
FoundQuestions ==
  {[kind |-> "any"], [kind |-> "filter"], [kind |-> "address 1.0", ia |-> 17]}
    \cup {[kind |-> "group", group |-> ga] : ga \in {-1, 1}}
    \cup {[kind |-> "programming", sn |-> sn] : sn \in {"none", "s1"}}
    \cup {[kind |-> "serial", sn |-> sn] : sn \in {"*", "s2"}}
    \cup {[kind |-> "address", text |-> t] :
            t \in {<<10, 5, 16, 1, 1>>, <<10, 5, 16, 1>>, <<10, 16, 1>>}}
=============================================================================
