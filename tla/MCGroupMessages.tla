-------------------------- MODULE MCGroupMessages --------------------------
(* Instances of GroupMessages: the group object tables of an installation. *)
EXTENDS GroupMessages

CONSTANTS a, b, c

Entry(u, g, f) == [url |-> u, ga |-> g, flags |-> f]

\* a switch with a status object; a lamp that listens to group 1 and reports to
\* group 2, and two more objects of group 2 in its device; a display
MCGot ==
  (a :> <<Entry("switch", <<1>>, {"t"}), Entry("status", <<2>>, {"u"})>>) @@
  (b :> <<Entry("lamp", <<2, 1>>, {"w", "t", "r"}), Entry("mirror", <<2>>, {"w"}),
          Entry("spare", <<2>>, {"u"})>>) @@
  (c :> <<Entry("display", <<2>>, {"w", "u", "i"})>>)

MCWriters == {<<a, "switch">>}
MCScopes == <<5>>
=============================================================================
