----------------------------- MODULE MCHandlers -----------------------------
(* Handlers of a device, each part on its own: DeviceProperties with what    *)
(* MCDevice has, SoftwareUpdate with two clients and one repeated request,  *)
(* Parameters with two parameters and objects whose entries come in any     *)
(* order.  A run that extends this module takes one of them as its tool.    *)
EXTENDS Sequences, MCDevice

VARIABLES path, granted, info, files, todo, due, told, answer,
          next, net, copies, list, active, callbacks, image, answered,
          values, calls, posted, posts

deviceVars == <<path, granted, info, files, todo, due, told, answer>>
updateVars == <<next, net, copies, list, active, callbacks, image, answered>>
paramVars == <<values, calls, posted, posts>>
handlerVars == <<deviceVars, updateVars, paramVars>>

Device ==
  INSTANCE DeviceProperties WITH
    AppSettings <- DeviceSettings, Setups <- DeviceSetups,
    Requests <- DeviceRequests, Addresses <- {4609}, InstallationIds <- {5},
    Endpoints <- <<"e1", "e2">>

Update ==
  INSTANCE SoftwareUpdate WITH Clients <- {"c1", "c2"}, MaxBlocks <- 2, MaxCopies <- 1

HandedObjects ==
  {<<Pair(11, p), Pair(1, v)>> : p \in {"pa", "pb"}, v \in {"v", "w", "x"}}
    \cup {<<Pair(1, "v"), Pair(11, p)>> : p \in {"pa", "pb"}}
    \cup {<<Pair(11, "pa"), Pair(5, "w"), Pair(1, "v"), Pair(6, "x")>>,
          <<Pair(11, "pz"), Pair(1, "v")>>, <<Pair(11, "pa")>>, <<Pair(1, "w")>>}

Params ==
  INSTANCE Parameters WITH
    Params <- {"pa", "pb"}, NewValues <- {"v", "w", "x"}, Refused <- {"x"},
    Objects <- HandedObjects, MaxPosts <- 2

HandlerTools == {"device", "update", "parameters"}

HandlersInit(tool) ==
  /\ Device!Init /\ Update!Init /\ Params!Init
  /\ tool # "device" => path = "/dev/sn" /\ granted = <<"p">>

HandlersNext(tool) ==
  \/ tool = "device" /\ Device!Next /\ UNCHANGED <<updateVars, paramVars>>
  \/ tool = "update" /\ Update!Next /\ UNCHANGED <<deviceVars, paramVars>>
  \/ tool = "parameters" /\ Params!Next /\ UNCHANGED <<deviceVars, updateVars>>

\* What was written to a property of the device is read, over power failures and
\* restarts, and a scope is told as it was posted (DeviceProperties); a block that
\* was written is answered (SoftwareUpdate); parameters have the values that were
\* posted (Parameters).
HandlersSound ==
  /\ Device!TypeOK /\ Update!TypeOK /\ Params!TypeOK
  /\ Device!WrittenIsRead /\ Device!ScopeTold
  /\ Update!BlocksAnswered
  /\ Params!ParametersAsPosted

\* Nobody changes a property without a token for it, and a refused request has
\* changed nothing (DeviceProperties).
ChangesAllowed ==
  [][/\ answer'.method = "PUT" /\ (info' # info \/ Len(todo') > Len(todo)) =>
          /\ answer'.trusted
          /\ {granted[k] : k \in DOMAIN granted} \cap Device!Resource(<<>>, 0).ifs # {}
     /\ answer'.code \in Device!Errors => UNCHANGED <<info, todo>>]_deviceVars
=============================================================================
