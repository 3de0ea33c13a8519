--------------------------------- MODULE Rep ---------------------------------
(***************************************************************************)
(* Bodies on their way (api/oc_server_api.c, api/oc_rep.c): a handler      *)
(* writes one, the receiver makes a list of nodes of it, looks entries up, *)
(* prints the list and frees it; other implementations send other bodies.  *)
(***************************************************************************)
EXTENDS Cbor

CONSTANTS
  Bodies,      \* what handlers write
  Foreign,     \* what else comes: of other implementations, or cut
  MaxMessages  \* bound on the messages

VARIABLES
  stage,   \* what is done with the message
  meant,   \* the body that was written, <<>> for a foreign message
  wire,    \* the message, <<>> if there is no payload
  list,    \* the nodes the receiver has
  failed,  \* whether oc_parse_rep told an error
  held,    \* nodes and blocks of memory that are allocated
  lost,    \* how many float arrays came: each has a block nothing points to
  clean,   \* whether every message so far could be read to its end
  messages

vars == <<stage, meant, wire, list, failed, held, lost, clean, messages>>

-----------------------------------------------------------------------------
(* Steps *)

Nothing == [nodes |-> 0, blocks |-> 0]

Init ==
  /\ stage = "idle" /\ meant = <<>> /\ wire = <<>> /\ list = <<>> /\ failed = FALSE
  /\ held = Nothing /\ lost = 0 /\ clean = TRUE /\ messages = 0

Send(body) ==
  /\ stage = "idle" /\ messages < MaxMessages
  /\ meant' = <<body>>
  /\ wire' = IF Sendable(body) THEN <<body>> ELSE <<>>
  /\ stage' = "sent"
  /\ messages' = messages + 1
  /\ UNCHANGED <<list, failed, held, lost, clean>>

SendForeign(message) ==
  /\ stage = "idle" /\ messages < MaxMessages
  /\ meant' = <<>>
  /\ wire' = <<message>>
  /\ stage' = "sent"
  /\ messages' = messages + 1
  /\ UNCHANGED <<list, failed, held, lost, clean>>

Receive ==
  /\ stage = "sent"
  /\ stage' = "parsed"
  /\ IF wire = <<>> THEN UNCHANGED <<list, failed, held, lost, clean>>
     ELSE \E p \in {Parse(wire[1])} :
            /\ list' = p.node
            /\ failed' = p.err
            /\ held' = [nodes |-> held.nodes + p.nodes, blocks |-> held.blocks + p.blocks]
            /\ lost' = lost + FloatArrays(wire[1])
            /\ clean' = (clean /\ Readable(wire[1]))
  /\ UNCHANGED <<meant, wire, messages>>

\* the handler is done, or the message was refused
Release ==
  /\ stage = "parsed"
  /\ \E f \in {Freed(list)} :
       held' = [nodes |-> held.nodes - f.nodes, blocks |-> held.blocks - f.blocks]
  /\ stage' = "idle"
  /\ list' = <<>> /\ failed' = FALSE
  /\ UNCHANGED <<meant, wire, lost, clean, messages>>

Done == stage = "idle" /\ messages = MaxMessages /\ UNCHANGED vars

Next == \/ \E b \in Bodies : Send(b)
        \/ \E f \in Foreign : SendForeign(f)
        \/ Receive \/ Release \/ Done

Spec == Init /\ [][Next]_vars

-----------------------------------------------------------------------------
(* Properties *)

\* The values the variables take.
TypeOK ==
  /\ stage \in {"idle", "sent", "parsed"}
  /\ meant = <<>> \/ meant[1] \in Bodies
  /\ wire = <<>> \/ wire[1] \in Bodies \cup Foreign
  /\ failed \in BOOLEAN /\ clean \in BOOLEAN
  /\ held.nodes \in Nat /\ held.blocks \in Nat /\ lost \in Nat
  /\ messages \in 0 .. MaxMessages

\* the type a node has for an item that was written
NodeType(x) ==
  CASE x.type = "map" -> "object"
    [] x.type = "array" ->
         IF x.kids = <<>> THEN "nil"
         ELSE IF x.kids[1].type = "map" THEN "objects" ELSE ArrayOf[x.kids[1].type]
    [] OTHER -> x.type

RECURSIVE Told(_, _)
Told(nodes, kids) ==
  \A k \in DOMAIN kids :
    LET found == Get(nodes, kids[k], NodeType(kids[k]))
    IN  /\ found # <<>>
        /\ found[1].n = kids[k].n
        /\ kids[k].type = "map" => Told(found[1].kids, kids[k].kids)
        /\ kids[k].type = "array" =>
             /\ Len(found[1].kids) = Len(kids[k].kids)
             /\ \A j \in DOMAIN kids[k].kids :
                  IF kids[k].kids[j].type = "map"
                  THEN Told(found[1].kids[j].kids, kids[k].kids[j].kids)
                  ELSE \/ found[1].kids[j].n = kids[k].kids[j].n
                       \/ kids[k].kids[j].n > MaxItem

\* What a handler wrote is read from the message by key and type, or the message
\* has no payload because the body was too long; items of arrays of strings that
\* are too long are lost (the oc_rep_ macros, oc_parse_rep, oc_rep_get_value).
WrittenIsFound ==
  stage = "parsed" /\ meant # <<>> =>
    IF wire = <<>> THEN ~Sendable(meant[1])
    ELSE ~failed /\ Told(list, meant[1].kids)

\* Between two messages nothing is allocated but one block for every float array
\* there was, as long as every message could be read: an object that could not
\* keeps what was read of it (oc_parse_rep, oc_free_rep, _oc_mmem_alloc).
AllFreed ==
  stage = "idle" /\ clean => held = [nodes |-> 0, blocks |-> lost]

\* The length that is measured without a buffer is enough for the text
\* (oc_print_rep_as_json).
JsonFits ==
  stage = "parsed" =>
    \A pretty \in BOOLEAN :
      \E pieces \in {Whole(list, pretty)} :
        \E size \in {Printed(pieces, 0).total} :
          Printed(pieces, size + 1).out = size

\* What is not so: whatever comes, everything is freed.
NothingHeld == stage = "idle" => held = Nothing
==============================================================================
