--------------------------- MODULE MessageService ---------------------------
(***************************************************************************)
(* What the path from the socket to the CoAP engine promises: the messages *)
(* of each kind are handed to the engine one by one in the order in which  *)
(* they came from the network, none is lost, repeated or forgotten, except *)
(* that a protected message that does not decrypt is dropped.              *)
(***************************************************************************)
EXTENDS Naturals, Sequences

CONSTANTS Messages,     \* the messages
          Kinds,        \* the kinds of messages: each is a channel
          Protected     \* the kinds that may be dropped

VARIABLE pending        \* pending[k]: received and not handled yet

\* The network delivers message m of kind k
Receive(k, m) == pending' = [pending EXCEPT ![k] = Append(@, m)]

\* The engine handles the oldest message of kind k
Handle(k) ==
  /\ pending[k] # << >>
  /\ pending' = [pending EXCEPT ![k] = Tail(@)]

\* The i-th message of kind k does not decrypt
Drop(k) ==
  /\ k \in Protected
  /\ \E i \in DOMAIN pending[k] :
       pending' = [pending EXCEPT
                     ![k] = SubSeq(@, 1, i - 1) \o SubSeq(@, i + 1, Len(@))]

Init == pending = [k \in Kinds |-> << >>]

Next == \E k \in Kinds : \/ \E m \in Messages : Receive(k, m)
                         \/ Handle(k)
                         \/ Drop(k)

Spec == Init /\ [][Next]_pending
=============================================================================
