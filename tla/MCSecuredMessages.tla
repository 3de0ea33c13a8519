------------------------- MODULE MCSecuredMessages -------------------------
(* Requests and answers that use every option, and strays of a third device. *)
(* The other tools are the handlers of MCHandlers, which leave the messages   *)
(* alone, as the messages leave them alone.                                   *)
EXTENDS SecuredMessages, MCHandlers

VARIABLE tool

Of(type, code, opts, payload) ==
  [Packet(type, code, 0) EXCEPT !.opts = opts, !.payload = payload]
Empty == Packet("NON", 0, 0)

Data == <<[data |-> 1]>>

\* a path of two segments, the second with 20 bytes, and a query; a block of an
\* upload; a path whose separators follow each other, observed; one too long
MCRequests ==
  LET uri == <<47, 1, 47>> \o [i \in 1 .. 20 |-> 2]
      long == [i \in 1 .. 60 |-> 3]
  IN {Of("CON", 1, WithQuery(WithPath(With(Empty, 17, 60), uri), <<63, 4, 38, 5>>).opts, NoPayload),
      Of("NON", 2, WithBlock(WithPath(With(With(Empty, 12, 60), 60, 300), <<1>>),
                      27, 5, TRUE, 64).opts, Data),
      Of("CON", 1, WithPath(With(Empty, 6, 0), <<1, 47, 47, 2>>).opts, NoPayload),
      Of("CON", 1, WithPath(Empty, long).opts, NoPayload)}

\* the upload, to a group
MCMulticasts == {r \in MCRequests : r.code = 2}

\* a block with its ETag; an Echo challenge
MCAnswers(code) ==
  IF code = 1 THEN
  {Of("NON", 69, WithBlock(WithETag(With(With(Empty, 12, 60), 28, 70000), <<1, 2, 3>>),
                    23, 0, TRUE, 1024).opts, Data)}
  ELSE {
   Of("NON", 129, With(Empty, 252, <<1, 2, 3, 4, 5, 6, 7, 8>>).opts, NoPayload)}

\* of another context; without a kid; with another key; with an inner option
\* outside
Stray(x, kid, key, opts) ==
  LET code == 2
      p == WithToken(Packet(IF x = 1 THEN "NON" ELSE "CON", 1, 290 + x), <<9, x>>)
      c == Cipher(key, Nonce(kid, <<1>>), Aad(kid, <<1>>), Plaintext(p))
      q == [With(p, 9, OscoreOption(code, <<1>>, kid, IdCtx)) EXCEPT
              !.code = code, !.payload = <<c>>]
      m == Serialized(q, FALSE, TRUE, TRUE)
  IN Sent("stray", [m EXCEPT !.fields = @ \o opts], FALSE, NoPacket, 0, FALSE)

MCStrays ==
  {Stray(1, <<3>>, <<3>>, <<>>), Stray(2, <<>>, <<3>>, <<>>),
   Stray(3, ClientId, <<3>>, <<>>), Stray(4, ClientId, ClientId, <<Field(3, <<60>>)>>)}

MCMaxMid == [client |-> 201, server |-> 102]
MCClientId == <<7, 8>>
MCServerId == <<>>
MCIdCtx == <<5>>

MCInit ==
  /\ tool \in {"messages"} \cup HandlerTools
  /\ Init /\ HandlersInit(tool)
  /\ tool # "messages" => wire = {}

MCNext ==
  /\ \/ tool = "messages" /\ Next /\ UNCHANGED handlerVars
     \/ HandlersNext(tool) /\ UNCHANGED vars
  /\ UNCHANGED tool

MCSpec == MCInit /\ [][MCNext]_<<vars, handlerVars, tool>>
=============================================================================
