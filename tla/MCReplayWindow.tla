---------------------------- MODULE MCReplayWindow ---------------------------
(* More clients than records, and SSNs beyond the window: the windows move *)
(* and are resynchronised, the table fills, evicts and takes clients back. *)
(* The other tools are those of MCData, which no client can see.           *)
EXTENDS ReplayWindow, MCData, TLC

VARIABLE tool

MCSSNs == 0 .. W + 1
MCRplwdoValues == {1, W + 1}
ClientSymmetry == Permutations(Clients)

MCInit ==
  /\ tool \in {"windows"} \cup DataTools
  /\ Init /\ DataInit(tool)

MCNext ==
  /\ \/ tool = "windows" /\ Next /\ UNCHANGED dataVars
     \/ DataNext(tool) /\ UNCHANGED vars
  /\ UNCHANGED tool

MCSpec == MCInit /\ [][MCNext]_<<vars, dataVars, tool>>
=============================================================================
