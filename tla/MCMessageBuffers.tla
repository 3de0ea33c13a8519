-------------------------- MODULE MCMessageBuffers --------------------------
(* Instances of MessageBuffers: what the engine sends.                     *)
EXTENDS MessageBuffers, TLC

Sent(k, c, s) == [kind |-> k, con |-> c, secured |-> s]

SendKinds == {Sent("group", FALSE, FALSE), Sent("oscore", TRUE, FALSE),
              Sent("unicast", FALSE, TRUE)}
Buffers == Permutations(Msgs)
=============================================================================
