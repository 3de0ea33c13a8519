--------------------------- MODULE MCDeviceState ---------------------------
(* Instances of DeviceState: what the objects of a POST may carry.         *)
EXTENDS DeviceState

\* an object every table takes, one without flags (in /fp/p: without a group
\* id), and a change that takes the resource of an entry away
MCObjects ==
  {[ga |-> {1}, flags |-> "receive", href |-> "own", grpid |-> 1],
   [ga |-> {1}, flags |-> "none", href |-> "own"],
   [href |-> "other"]}

\* a good object and the change
MCFewObjects ==
  {[ga |-> {1}, flags |-> "receive", href |-> "own"], [href |-> "other"]}
=============================================================================
