--------------------------- MODULE SoftwareUpdate ---------------------------
(***************************************************************************)
(* A package that clients put block by block at /a/swu: every request is   *)
(* answered later (api/oc_knx_swu.c), by one list of requests shared by    *)
(* all (messaging/coap/separate.c), when the callback of the application   *)
(* has the block (apps/lssb_minimal_all.c).  A client sends its next block *)
(* when the one before was answered; the network may repeat a request, and *)
(* a confirmable one that is repeated is handled again.                    *)
(***************************************************************************)
EXTENDS Integers, Sequences, SequencesExt

CONSTANTS
  Clients,    \* the clients that put blocks
  MaxBlocks,  \* the blocks of a client
  MaxCopies   \* bound on what the network repeats, in all

\* A token is the request of one block: the client and the number of the block.
Tokens == Clients \X (1 .. MaxBlocks)

VARIABLES
  next,       \* client -> the number of its next block
  net,        \* the requests under way: token, and whether it can be accepted
  copies,     \* how many requests the network has repeated
  list,       \* s_delayed_response_swu.requests
  active,     \* s_delayed_response_swu.active
  callbacks,  \* delayed callbacks of the application that are due
  image,      \* what the application has written
  answered    \* the tokens of the answers

vars == <<next, net, copies, list, active, callbacks, image, answered>>

Init ==
  /\ next = [c \in Clients |-> 1]
  /\ net = {}
  /\ copies = 0
  /\ list = <<>>
  /\ active = FALSE
  /\ callbacks = 0
  /\ image = <<>>
  /\ answered = {}

\* A client asks for another format with its first block, by mistake, or not.
Put(c, acceptable) ==
  /\ next[c] <= MaxBlocks
  /\ next[c] = 1 \/ <<c, next[c] - 1>> \in answered
  /\ acceptable \/ next[c] = 1
  /\ net' = net \cup {[token |-> <<c, next[c]>>, ok |-> acceptable]}
  /\ next' = [next EXCEPT ![c] = @ + 1]
  /\ UNCHANGED <<copies, list, active, callbacks, image, answered>>

\* coap_separate_accept: the list is begun anew unless it is active
Accepted(token) ==
  IF ~active THEN <<token>>
  ELSE IF token \in Range(list) THEN list ELSE Append(list, token)

\* swu_cb: the block is written, and the answer is due
App(r) ==
  /\ image' = IF r.ok THEN Append(image, r.token) ELSE image
  /\ callbacks' = IF r.ok THEN callbacks + 1 ELSE callbacks

\* oc_knx_swu_a_put_handler: the answer is announced before the format is
\* looked at, so a refused request is in the list too
Handle(r) ==
  /\ r \in net
  /\ App(r)
  /\ list' = Accepted(r.token)
  /\ active' = TRUE
  /\ \/ net' = net \ {r} /\ UNCHANGED copies
     \/ copies < MaxCopies /\ copies' = copies + 1 /\ UNCHANGED net
  /\ UNCHANGED <<next, answered>>

\* send_delayed_response: everything in the list is answered CHANGED; a callback
\* that finds it inactive does nothing
Respond ==
  /\ callbacks > 0
  /\ callbacks' = callbacks - 1
  /\ IF active
     THEN answered' = answered \cup Range(list) /\ list' = <<>> /\ active' = FALSE
     ELSE UNCHANGED <<answered, list, active>>
  /\ UNCHANGED <<next, net, copies, image>>

Done == net = {} /\ callbacks = 0 /\ UNCHANGED vars

Next == \/ \E c \in Clients, a \in BOOLEAN : Put(c, a)
        \/ \E r \in net : Handle(r)
        \/ Respond \/ Done

Spec == Init /\ [][Next]_vars

-----------------------------------------------------------------------------
(* Properties *)

\* The values the variables take.
TypeOK ==
  /\ next \in [Clients -> 1 .. MaxBlocks + 1]
  /\ net \subseteq [token : Tokens, ok : BOOLEAN]
  /\ copies \in 0 .. MaxCopies
  /\ list \in Seq(Tokens) /\ image \in Seq(Tokens)
  /\ active \in BOOLEAN
  /\ callbacks \in Nat
  /\ answered \subseteq Tokens

\* A request whose block was written and that has no answer yet is in the list,
\* and a callback that will answer it is due: one list serves requests of
\* several clients, repeated ones and refused ones
\* (oc_knx_swu_a_put_handler, send_delayed_response).
BlocksAnswered ==
  \A k \in DOMAIN image :
    image[k] \notin answered => image[k] \in Range(list) /\ callbacks > 0

\* An active list is not empty when it is answered: oc_set_separate_response_buffer
\* takes its head without a check.
ActiveHasHead == active <=> list # <<>>

\* What is not so: a request that was refused for its format waits for the answer
\* to another block, and is told CHANGED.
RefusedIsTold ==
  \A t \in answered : t \in Range(image)
=============================================================================
