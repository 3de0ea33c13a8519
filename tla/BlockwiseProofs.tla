-------------------------- MODULE BlockwiseProofs --------------------------
(***************************************************************************)
(* What a block-wise transfer hands over is whole, for every number of     *)
(* blocks, downloads, requests and uploads.                                *)
(*                                                                         *)
(* A buffer always holds a beginning of a payload.  That no block arrives  *)
(* at the client that does not fit rests on what is on the wire: a block   *)
(* is asked for only when all before it have been put into the buffer, a   *)
(* buffer does not shrink while its callback is there, and a download has  *)
(* only one callback ever.                                                 *)
(***************************************************************************)
EXTENDS Blockwise, TLAPS

Served == 1 .. MaxServed
Uploads == 1 .. MaxUpload
\* What the handler of a download has been told
Ways == {"idle", "open", "answered", "failed", "reset", "expired"}
Block(Of) == [of : Of, num : Nums]

\* The first blocks of a payload, one at least is missing.
Part(Of, body) ==
  /\ body \in Seq(Block(Of)) /\ Len(body) < Blocks
  /\ \A i \in 1 .. Len(body) : body[i].num = i - 1

\* A body that ends with the last block of upload u was handed over.
Done(u) == \E body \in applied : body[Blocks] = [of |-> u, num |-> Blocks - 1]

ServerInv ==
  /\ served \in 0 .. MaxServed
  /\ source \in [of : 0 .. MaxServed, next : Nums, ref : {0, 1}]
  /\ source.ref = 1 => source.of \in Served
  /\ sink.ref \in {0, 1} /\ Part(Uploads, sink.body)
  /\ applied \subseteq Bodies(Uploads) /\ UploadWhole

ClientTypes ==
  /\ requested \in 0 .. MaxMid
  /\ mid \in [Gets -> 0 .. MaxMid] /\ \A g \in Gets : mid[g] <= requested
  /\ cb \in [Gets -> BOOLEAN]
  /\ buffer \in [Gets -> [open : BOOLEAN, mid : 0 .. MaxMid, body : Seq(Block(Served))]]
  /\ result \in [Gets -> [how : Ways, body : Bodies(Served)]]

ClientInv ==
  /\ ClientTypes
  /\ \A g \in Gets : /\ Part(Served, buffer[g].body)
                     /\ result[g].how = "idle" => ~cb[g]
  /\ DownloadWhole /\ BuffersOwned

UploadInv ==
  /\ upload \in [of : 0 .. MaxUpload, num : Nums, done : BOOLEAN]
  /\ upload.done => Done(upload.of)

\* A download that has begun, whose callback has had every block before n.
Asked(g, n) ==
  /\ g \in Gets /\ result[g].how # "idle"
  /\ cb[g] => n <= Len(buffer[g].body)

MessageInv(m) ==
  /\ m.kind = "get" => Asked(m.get, 0)
  /\ m.kind = "block2" => m.num \in Nums /\ Asked(m.get, m.num)
  /\ m.kind = "content" => /\ m.num \in Nums /\ m.of \in Served
                           /\ m.more = (m.num + 1 < Blocks)
                           /\ Asked(m.get, m.num)
  /\ m.kind \in {"error", "reset"} => m.get \in Gets
  /\ m.kind = "block1" => m.of \in Uploads /\ m.num \in Nums
  /\ m.kind = "continue" => m.of \in Uploads /\ m.num \in Nums /\ m.num + 1 < Blocks
  /\ m.kind = "changed" => Done(m.of)

WireInv == \A m \in wire : MessageInv(m)

Inv == ServerInv /\ ClientInv /\ UploadInv /\ WireInv

-----------------------------------------------------------------------------
(* Bodies.                                                                 *)

LEMMA PartType ==
  ASSUME NEW Of, NEW body, Part(Of, body)
  PROVE  body \in Bodies(Of) /\ Len(body) \in Nat
<1>1. Len(body) \in 0 .. Blocks /\ body \in [1 .. Len(body) -> Block(Of)]
  BY BlocksAssumption DEF Part
<1> QED BY <1>1 DEF Bodies, Block

LEMMA EmptyPart == \A Of : Part(Of, <<>>)
BY BlocksAssumption DEF Part

\* A block that fits and is not the last leaves a beginning of the payload that
\* has this block, whether or not it was there already.
LEMMA HandledPart ==
  ASSUME NEW Of, NEW body, NEW b \in Block(Of), Part(Of, body), Accepts(body, b),
         b.num + 1 < Blocks
  PROVE  /\ Part(Of, Handled(body, b))
         /\ b.num + 1 <= Len(Handled(body, b)) /\ Len(body) <= Len(Handled(body, b))
<1>1. /\ b.num \in Nat /\ body \in Seq(Block(Of)) /\ Len(body) \in Nat /\ b.num <= Len(body)
      /\ \A i \in 1 .. Len(body) : body[i].num = i - 1
  BY BlocksAssumption DEF Block, Part, Accepts, Nums
<1>2. CASE b.num = Len(body)
  <2>1. Handled(body, b) = Append(body, b)
    BY <1>2 DEF Handled
  <2>2. /\ Append(body, b) \in Seq(Block(Of)) /\ Len(Append(body, b)) = Len(body) + 1
        /\ \A i \in 1 .. Len(body) : Append(body, b)[i] = body[i]
        /\ Append(body, b)[Len(body) + 1] = b
    BY <1>1
  <2>3. \A i \in 1 .. Len(body) + 1 : Append(body, b)[i].num = i - 1
    BY <1>1, <1>2, <2>2
  <2> QED BY <1>1, <1>2, <2>1, <2>2, <2>3 DEF Part
<1>3. CASE b.num # Len(body)
  BY <1>1, <1>3 DEF Handled, Part
<1> QED BY <1>2, <1>3

\* The last block makes a beginning that it fits a whole body, and ends it.
LEMMA HandledWhole ==
  ASSUME NEW Of, NEW body, NEW b \in Block(Of), Part(Of, body), Accepts(body, b),
         ~(b.num + 1 < Blocks)
  PROVE  /\ Handled(body, b) \in Bodies(Of) /\ Whole(Handled(body, b))
         /\ Handled(body, b)[Blocks] = b
<1>1. /\ b.num \in Nums /\ body \in Seq(Block(Of)) /\ Len(body) \in Nat /\ b.num <= Len(body)
      /\ Len(body) < Blocks /\ \A i \in 1 .. Len(body) : body[i].num = i - 1
  BY BlocksAssumption DEF Block, Part, Accepts
<1>2. b.num = Len(body) /\ Blocks = Len(body) + 1
  BY <1>1, BlocksAssumption DEF Nums
<1>3. Handled(body, b) = Append(body, b)
  BY <1>2 DEF Handled
<1>4. /\ Append(body, b) \in [1 .. Blocks -> Block(Of)] /\ Len(Append(body, b)) = Blocks
      /\ \A i \in 1 .. Len(body) : Append(body, b)[i] = body[i]
      /\ Append(body, b)[Blocks] = b
  <2>1. /\ Append(body, b) \in Seq(Block(Of)) /\ Len(Append(body, b)) = Len(body) + 1
        /\ \A i \in 1 .. Len(body) : Append(body, b)[i] = body[i]
        /\ Append(body, b)[Len(body) + 1] = b
    BY <1>1
  <2> DEFINE a == Append(body, b)
  <2> HIDE DEF a
  <2>2. a \in Seq(Block(Of)) => a \in [1 .. Len(a) -> Block(Of)]
    OBVIOUS
  <2> QED BY <1>2, <2>1, <2>2 DEF a
<1>5. Append(body, b) \in Bodies(Of)
  <2>1. Blocks \in 0 .. Blocks
    BY BlocksAssumption
  <2> QED BY <1>4, <2>1 DEF Bodies, Block
<1>6. \A i \in 1 .. Blocks : Append(body, b)[i].num = i - 1
  BY <1>1, <1>2, <1>4
<1> QED BY <1>3, <1>4, <1>5, <1>6 DEF Whole

-----------------------------------------------------------------------------
(* The wire.                                                               *)

\* No download starts again, no callback comes back, no buffer of one shrinks.
ClientsKept ==
  \A g \in Gets : result[g].how # "idle" =>
    /\ result'[g].how # "idle"
    /\ cb'[g] => cb[g] /\ Len(buffer[g].body) <= Len(buffer'[g].body)

Lengths == \A g \in Gets : Len(buffer[g].body) \in Nat

LEMMA ClientLengths == ClientTypes => Lengths
BY DEF ClientTypes, Lengths

LEMMA AskedStays ==
  ASSUME Lengths, Lengths', ClientsKept, NEW g, NEW n \in Nat, Asked(g, n)
  PROVE  Asked(g, n)'
BY DEF Lengths, ClientsKept, Asked

\* What was true of a message stays true of it.
LEMMA MessageStays ==
  ASSUME Lengths, Lengths', ClientsKept, applied \subseteq applied', NEW m, MessageInv(m)
  PROVE  MessageInv(m)'
<1>1. \A n \in Nums : n \in Nat
  BY BlocksAssumption DEF Nums
<1>2. \A g, n : n \in Nat /\ Asked(g, n) => Asked(g, n)'
  BY AskedStays
<1>3. \A u : Done(u) => Done(u)'
  BY DEF Done
<1>4. m.kind = "get" => Asked(m.get, 0)'
  BY <1>2 DEF MessageInv
<1>5. m.kind \in {"block2", "content"} => Asked(m.get, m.num)'
  BY <1>1, <1>2 DEF MessageInv
<1>6. m.kind = "changed" => Done(m.of)'
  BY <1>3 DEF MessageInv
<1> QED BY <1>4, <1>5, <1>6 DEF MessageInv

\* A step keeps the wire in order if what it sends is.
LEMMA WireGrows ==
  ASSUME Inv, ClientTypes', ClientsKept, applied \subseteq applied',
         NEW new, wire' = wire \cup new, \A m \in new : MessageInv(m)'
  PROVE  WireInv'
<1>1. Lengths /\ Lengths'
  BY ClientLengths DEF Inv, ClientInv, Lengths, ClientTypes
<1>2. \A m \in wire : MessageInv(m)'
  BY <1>1, MessageStays DEF Inv, WireInv
<1> QED BY <1>2 DEF WireInv

\* The client does nothing: its part of the invariant stays.
LEMMA ClientIdle ==
  ASSUME ClientInv, UNCHANGED client
  PROVE  ClientInv' /\ ClientsKept
<1>1. UNCHANGED <<requested, mid, cb, buffer, result>>
  BY DEF client
<1>2. ClientTypes'
  BY <1>1 DEF ClientInv, ClientTypes
<1>3. \A g \in Gets : Len(buffer[g].body) \in Nat
  BY DEF ClientInv, ClientTypes
<1> QED BY <1>1, <1>2, <1>3 DEF ClientInv, DownloadWhole, BuffersOwned, ClientsKept

LEMMA UploadIdle ==
  ASSUME UploadInv, UNCHANGED upload, applied \subseteq applied'
  PROVE  UploadInv'
BY DEF UploadInv, Done

LEMMA ServerIdle ==
  ASSUME ServerInv, UNCHANGED server
  PROVE  ServerInv' /\ applied' = applied
BY DEF ServerInv, server, UploadWhole

-----------------------------------------------------------------------------
(* The server: downloads.                                                  *)

\* What the server steps of a download have in common.
LEMMA ServesDownload ==
  ASSUME Inv, UNCHANGED <<sink, applied, client, other>>,
         served' \in 0 .. MaxServed,
         source' \in [of : 0 .. MaxServed, next : Nums, ref : {0, 1}],
         source'.ref = 1 => source'.of \in Served,
         NEW new, wire' = wire \cup new, \A m \in new : MessageInv(m)'
  PROVE  Inv'
<1>1. ServerInv'
  BY DEF Inv, ServerInv, UploadWhole
<1>2. ClientInv' /\ ClientsKept
  BY ClientIdle DEF Inv
<1>3. UploadInv'
  BY UploadIdle DEF Inv, other
<1>4. WireInv'
  BY <1>2, WireGrows DEF ClientInv
<1> QED BY <1>1, <1>2, <1>3, <1>4 DEF Inv

LEMMA NoSourceType ==
  NoSource \in [of : 0 .. MaxServed, next : Nums, ref : {0, 1}] /\ NoSource.ref = 0
BY BlocksAssumption, BoundAssumption DEF NoSource, Nums

LEMMA ServeGetPreserves ==
  ASSUME Inv, NEW r \in Sent("get"), ServeGet(r)
  PROVE  Inv'
<1> DEFINE new == {Block2(r, 0, served + 1)}
<1>1. served \in Nat /\ served + 1 \in Served /\ MaxServed \in Nat /\ Blocks \in Nat /\ Blocks > 1
  BY BlocksAssumption, BoundAssumption DEF Inv, ServerInv, ServeGet, Served
<1>2. /\ source' \in [of : 0 .. MaxServed, next : Nums, ref : {0, 1}]
      /\ source'.of \in Served /\ served' \in 0 .. MaxServed
  BY <1>1 DEF ServeGet, Served, Nums
<1>3. \A m \in new : MessageInv(m)'
  <2>1. Asked(r.get, 0)
    BY DEF Inv, WireInv, MessageInv, Sent
  <2>2. Asked(r.get, 0)'
    BY <2>1 DEF ServeGet, client, Asked
  <2>3. 0 \in Nums
    BY <1>1 DEF Nums
  <2> QED BY <1>1, <2>2, <2>3 DEF Block2, MessageInv
<1>4. wire' = wire \cup new /\ UNCHANGED <<sink, applied, client, other>>
  BY DEF ServeGet
<1> HIDE DEF new
<1> QED BY <1>2, <1>3, <1>4, ServesDownload

LEMMA RefuseGetPreserves ==
  ASSUME Inv, NEW r \in Sent("get"), RefuseGet(r)
  PROVE  Inv'
<1> DEFINE new == {Failure(r)}
<1>1. \A m \in new : MessageInv(m)'
  <2>1. r.get \in Gets
    BY DEF Inv, WireInv, MessageInv, Sent, Asked
  <2> QED BY <2>1 DEF Failure, MessageInv
<1>2. /\ wire' = wire \cup new /\ UNCHANGED <<sink, applied, client, other>>
      /\ source' = NoSource /\ served' = served
  BY DEF RefuseGet
<1>3. served' \in 0 .. MaxServed
  BY <1>2 DEF Inv, ServerInv
<1> HIDE DEF new
<1> QED BY <1>1, <1>2, <1>3, NoSourceType, ServesDownload

LEMMA ServeBlockPreserves ==
  ASSUME Inv, NEW r \in Sent("block2"), ServeBlock(r)
  PROVE  Inv'
<1> DEFINE new == {Block2(r, r.num, source.of)}
<1>1. /\ source \in [of : 0 .. MaxServed, next : Nums, ref : {0, 1}]
      /\ source.of \in Served /\ served \in 0 .. MaxServed
  BY DEF Inv, ServerInv, ServeBlock
<1>2. r.num \in Nums /\ Asked(r.get, r.num)
  BY DEF Inv, WireInv, MessageInv, Sent
<1>3. /\ source' \in [of : 0 .. MaxServed, next : Nums, ref : {0, 1}]
      /\ source'.ref = 1 => source'.of \in Served
  <2>1. CASE r.num + 1 < Blocks
    <3>1. r.num + 1 \in Nums
      BY <1>2, <2>1, BlocksAssumption DEF Nums
    <3>2. source' = [source EXCEPT !.next = r.num + 1]
      BY <2>1 DEF ServeBlock
    <3> QED BY <1>1, <3>1, <3>2
  <2>2. CASE ~(r.num + 1 < Blocks)
    BY <2>2, NoSourceType DEF ServeBlock
  <2> QED BY <2>1, <2>2
<1>4. \A m \in new : MessageInv(m)'
  <2>1. Asked(r.get, r.num)'
    BY <1>2 DEF ServeBlock, client, Asked
  <2> QED BY <1>1, <1>2, <2>1 DEF Block2, MessageInv
<1>5. /\ wire' = wire \cup new /\ UNCHANGED <<sink, applied, client, other>>
      /\ served' = served
  BY DEF ServeBlock
<1> HIDE DEF new
<1> QED BY <1>1, <1>3, <1>4, <1>5, ServesDownload

LEMMA RefuseBlockPreserves ==
  ASSUME Inv, NEW r \in Sent("block2"), RefuseBlock(r)
  PROVE  Inv'
<1> DEFINE new == {Reset(r)}
<1>1. \A m \in new : MessageInv(m)'
  <2>1. r.get \in Gets
    BY DEF Inv, WireInv, MessageInv, Sent, Asked
  <2> QED BY <2>1 DEF Reset, MessageInv
<1>2. wire' = wire \cup new /\ UNCHANGED <<served, source, sink, applied, client, other>>
  BY DEF RefuseBlock, server
<1>3. /\ served' \in 0 .. MaxServed
      /\ source' \in [of : 0 .. MaxServed, next : Nums, ref : {0, 1}]
      /\ source'.ref = 1 => source'.of \in Served
  BY <1>2 DEF Inv, ServerInv
<1> HIDE DEF new
<1> QED BY <1>1, <1>2, <1>3, ServesDownload

LEMMA SourceTimeoutPreserves ==
  ASSUME Inv, SourceTimeout
  PROVE  Inv'
<1> DEFINE new == {}
<1>1. /\ wire' = wire \cup new /\ UNCHANGED <<sink, applied, client, other>>
      /\ source' = NoSource /\ served' = served
  BY DEF SourceTimeout
<1>2. served' \in 0 .. MaxServed
  BY <1>1 DEF Inv, ServerInv
<1>3. \A m \in new : MessageInv(m)'
  OBVIOUS
<1> HIDE DEF new
<1> QED BY <1>1, <1>2, <1>3, NoSourceType, ServesDownload

-----------------------------------------------------------------------------
(* The server: uploads.                                                    *)

LEMMA ServesUpload ==
  ASSUME Inv, UNCHANGED <<served, source, client, other>>,
         sink'.ref \in {0, 1}, Part(Uploads, sink'.body),
         applied \subseteq applied',
         \A body \in applied' \ applied : body \in Bodies(Uploads) /\ Whole(body),
         NEW new, wire' = wire \cup new, \A m \in new : MessageInv(m)'
  PROVE  Inv'
<1>1. applied' \subseteq Bodies(Uploads) /\ UploadWhole'
  BY DEF Inv, ServerInv, UploadWhole
<1>2. ServerInv'
  BY <1>1 DEF Inv, ServerInv
<1>3. ClientInv' /\ ClientsKept
  BY ClientIdle DEF Inv
<1>4. UploadInv'
  BY UploadIdle DEF Inv, other
<1>5. WireInv'
  BY <1>3, WireGrows DEF ClientInv
<1> QED BY <1>2, <1>3, <1>4, <1>5 DEF Inv

LEMMA NoSinkType == NoSink.ref = 0 /\ Part(Uploads, NoSink.body)
BY EmptyPart DEF NoSink

LEMMA AcceptBlockPreserves ==
  ASSUME Inv, NEW r \in Sent("block1"), AcceptBlock(r)
  PROVE  Inv'
<1> DEFINE b == [of |-> r.of, num |-> r.num]
           body == Handled(sink.body, b)
<1>1. r.of \in Uploads /\ r.num \in Nums /\ Part(Uploads, sink.body)
  BY DEF Inv, ServerInv, WireInv, MessageInv, Sent
<1>2. b \in Block(Uploads) /\ b.num = r.num /\ Accepts(sink.body, b)
  BY <1>1 DEF AcceptBlock, Accepts, Block
<1>3. UNCHANGED <<served, source, client, other>>
  BY DEF AcceptBlock
<1>4. CASE r.num + 1 < Blocks
  <2> DEFINE new == {Continue(r)}
  <2>1. Part(Uploads, body)
    BY <1>1, <1>2, <1>4, HandledPart
  <2>2. \A m \in new : MessageInv(m)'
    BY <1>1, <1>4 DEF Continue, MessageInv
  <2>3. /\ sink' = [body |-> body, ref |-> 1] /\ wire' = wire \cup new
        /\ applied' = applied
    BY <1>4 DEF AcceptBlock
  <2> HIDE DEF new, body
  <2>4. sink'.ref \in {0, 1} /\ Part(Uploads, sink'.body)
    BY <2>1, <2>3
  <2> QED BY <1>3, <2>2, <2>3, <2>4, ServesUpload
<1>5. CASE ~(r.num + 1 < Blocks)
  <2> DEFINE new == {Changed(r)}
  <2>1. body \in Bodies(Uploads) /\ Whole(body) /\ body[Blocks] = b
    BY <1>1, <1>2, <1>5, HandledWhole
  <2>2. sink' = NoSink /\ wire' = wire \cup new /\ applied' = applied \cup {body}
    BY <1>5 DEF AcceptBlock
  <2>3. r.num = Blocks - 1
    BY <1>1, <1>5, BlocksAssumption DEF Nums
  <2>4. \A m \in new : MessageInv(m)'
    <3>1. Done(r.of)'
      BY <2>1, <2>2, <2>3 DEF Done
    <3> QED BY <3>1 DEF Changed, MessageInv
  <2> HIDE DEF new, body
  <2>5. sink'.ref \in {0, 1} /\ Part(Uploads, sink'.body)
    BY <2>2, NoSinkType
  <2> QED BY <1>3, <2>1, <2>2, <2>4, <2>5, ServesUpload
<1> QED BY <1>4, <1>5

LEMMA RejectBlockPreserves ==
  ASSUME Inv, NEW r \in Sent("block1"), RejectBlock(r)
  PROVE  Inv'
<1> DEFINE new == {Rejected(r)}
<1>1. \A m \in new : MessageInv(m)'
  BY DEF Rejected, MessageInv
<1>2. /\ sink' = NoSink /\ wire' = wire \cup new /\ applied' = applied
      /\ UNCHANGED <<served, source, client, other>>
  BY DEF RejectBlock
<1> HIDE DEF new
<1> QED BY <1>1, <1>2, NoSinkType, ServesUpload

LEMMA SinkTimeoutPreserves ==
  ASSUME Inv, SinkTimeout
  PROVE  Inv'
<1> DEFINE new == {}
<1>1. /\ sink' = NoSink /\ wire' = wire \cup new /\ applied' = applied
      /\ UNCHANGED <<served, source, client, other>>
  BY DEF SinkTimeout
<1>2. \A m \in new : MessageInv(m)'
  OBVIOUS
<1> HIDE DEF new
<1> QED BY <1>1, <1>2, NoSinkType, ServesUpload

-----------------------------------------------------------------------------
(* The client.                                                             *)

LEMMA ClientMoves ==
  ASSUME Inv, UNCHANGED <<server, other>>, ClientInv', ClientsKept,
         NEW new, wire' = wire \cup new, \A m \in new : MessageInv(m)'
  PROVE  Inv'
<1>1. ServerInv' /\ applied' = applied
  BY ServerIdle DEF Inv
<1>2. UploadInv'
  BY <1>1, UploadIdle DEF Inv, other
<1>3. WireInv'
  BY <1>1, WireGrows DEF ClientInv
<1> QED BY <1>1, <1>2, <1>3 DEF Inv

LEMMA GetPreserves ==
  ASSUME Inv, NEW g \in Gets, Get(g)
  PROVE  Inv'
<1> DEFINE new == {GetRequest(g)}
<1>1. /\ ClientTypes /\ requested \in Nat /\ requested < MaxMid /\ MaxMid \in Nat
      /\ result[g].how = "idle"
  BY BoundAssumption DEF Inv, ClientInv, ClientTypes, Get
<1>2. /\ requested' = requested + 1 /\ mid' = [mid EXCEPT ![g] = 1]
      /\ cb' = [cb EXCEPT ![g] = TRUE] /\ result' = [result EXCEPT ![g].how = "open"]
      /\ wire' = wire \cup new /\ buffer' = buffer /\ UNCHANGED <<server, other>>
  BY DEF Get
<1>3. ClientTypes'
  <2>1. requested' \in 0 .. MaxMid /\ mid' \in [Gets -> 0 .. MaxMid]
    BY <1>1, <1>2 DEF ClientTypes
  <2>2. \A h \in Gets : mid'[h] <= requested'
    BY <1>1, <1>2 DEF ClientTypes
  <2>3. result' \in [Gets -> [how : Ways, body : Bodies(Served)]]
    BY <1>1, <1>2 DEF ClientTypes, Ways
  <2> QED BY <1>1, <1>2, <2>1, <2>2, <2>3 DEF ClientTypes
<1>4. \A h \in Gets : /\ result'[h].body = result[h].body
                      /\ h # g => result'[h] = result[h] /\ cb'[h] = cb[h] /\ mid'[h] = mid[h]
  BY <1>1, <1>2 DEF ClientTypes
<1>5. result'[g].how = "open" /\ cb'[g] /\ ~buffer[g].open
  BY <1>1, <1>2 DEF Inv, ClientInv, ClientTypes, BuffersOwned
<1>6. ClientsKept
  <2>1. \A h \in Gets : Len(buffer[h].body) \in Nat
    BY <1>1 DEF ClientTypes
  <2> QED BY <1>1, <1>2, <1>4, <2>1 DEF ClientsKept
<1>7. DownloadWhole' /\ BuffersOwned'
  BY <1>2, <1>4, <1>5 DEF Inv, ClientInv, DownloadWhole, BuffersOwned
<1>8. \A h \in Gets : Part(Served, buffer'[h].body) /\ (result'[h].how = "idle" => ~cb'[h])
  BY <1>2, <1>4, <1>5 DEF Inv, ClientInv
<1>9. ClientInv'
  BY <1>3, <1>7, <1>8 DEF ClientInv
<1>10. \A m \in new : MessageInv(m)'
  <2>1. Len(buffer'[g].body) \in Nat
    BY <1>1, <1>2 DEF ClientTypes
  <2>2. Asked(g, 0)'
    BY <1>5, <2>1 DEF Asked
  <2> QED BY <2>2 DEF GetRequest, MessageInv
<1> HIDE DEF new
<1> QED BY <1>2, <1>6, <1>9, <1>10, ClientMoves

\* The end of a download, with or without a payload.
LEMMA ForgetPreserves ==
  ASSUME Inv, NEW g \in Gets, NEW how \in Ways, NEW body \in Bodies(Served),
         how # "idle", how = "answered" => Whole(body),
         Forget(g, how, body), UNCHANGED <<server, requested, mid, other, wire>>
  PROVE  Inv'
<1> DEFINE new == {}
<1>1. ClientTypes /\ MaxMid \in Nat
  BY BoundAssumption DEF Inv, ClientInv
<1>2. /\ cb' = [cb EXCEPT ![g] = FALSE] /\ buffer' = [buffer EXCEPT ![g] = NoBuffer]
      /\ result' = [result EXCEPT ![g] = Outcome(how, body)]
      /\ UNCHANGED <<requested, mid>>
  BY DEF Forget
<1>3. ClientTypes'
  <2>1. NoBuffer \in [open : BOOLEAN, mid : 0 .. MaxMid, body : Seq(Block(Served))]
    BY <1>1 DEF NoBuffer
  <2>2. buffer' \in [Gets -> [open : BOOLEAN, mid : 0 .. MaxMid, body : Seq(Block(Served))]]
    BY <1>1, <1>2, <2>1 DEF ClientTypes
  <2>3. result' \in [Gets -> [how : Ways, body : Bodies(Served)]]
    BY <1>1, <1>2 DEF ClientTypes, Outcome
  <2>4. cb' \in [Gets -> BOOLEAN]
    BY <1>1, <1>2 DEF ClientTypes
  <2> QED BY <1>1, <1>2, <2>2, <2>3, <2>4 DEF ClientTypes
<1>4. \A h \in Gets :
         h # g => result'[h] = result[h] /\ cb'[h] = cb[h] /\ buffer'[h] = buffer[h]
  BY <1>1, <1>2 DEF ClientTypes
<1>5. /\ result'[g].how = how /\ result'[g].body = body /\ ~cb'[g]
      /\ buffer'[g] = NoBuffer /\ ~buffer'[g].open /\ buffer'[g].body = <<>>
  BY <1>1, <1>2 DEF ClientTypes, Outcome, NoBuffer
<1>6. ClientsKept
  <2>1. \A h \in Gets : Len(buffer[h].body) \in Nat
    BY <1>1 DEF ClientTypes
  <2> QED BY <1>4, <1>5, <2>1 DEF ClientsKept
<1>7. DownloadWhole' /\ BuffersOwned'
  BY <1>2, <1>4, <1>5 DEF Inv, ClientInv, DownloadWhole, BuffersOwned
<1>8. \A h \in Gets : Part(Served, buffer'[h].body) /\ (result'[h].how = "idle" => ~cb'[h])
  BY <1>4, <1>5, EmptyPart DEF Inv, ClientInv
<1>9. ClientInv'
  BY <1>3, <1>7, <1>8 DEF ClientInv
<1>10. wire' = wire \cup new /\ \A m \in new : MessageInv(m)'
  OBVIOUS
<1> HIDE DEF new
<1> QED BY <1>6, <1>9, <1>10, ClientMoves

LEMMA EmptyBody == \A Of : <<>> \in Bodies(Of)
BY PartType, EmptyPart

\* A block that is not the last: the buffer takes it or has it, and the one after
\* it is asked for.
LEMMA ReceiveBlockPreserves ==
  ASSUME Inv, NEW m \in Sent("content"), ReceiveBlock(m)
  PROVE  Inv'
<1> DEFINE g == m.get
           b == [of |-> m.of, num |-> m.num]
           body == Handled(buffer[g].body, b)
           id == mid[g] + 1
           new == {BlockRequest(g, id, m.num + 1)}
<1>1. /\ m.num \in Nums /\ m.of \in Served /\ m.num + 1 < Blocks /\ g \in Gets
      /\ result[g].how # "idle" /\ cb[g]
  BY DEF Inv, WireInv, MessageInv, Sent, Asked, ReceiveBlock
<1>2. b \in Block(Served) /\ b.num = m.num /\ Accepts(buffer[g].body, b)
  BY <1>1 DEF ReceiveBlock, Accepts, Block
<1>3. /\ Part(Served, body) /\ m.num + 1 <= Len(body) /\ Len(buffer[g].body) <= Len(body)
  BY <1>1, <1>2, HandledPart DEF Inv, ClientInv
<1>4. /\ ClientTypes /\ requested \in Nat /\ requested < MaxMid /\ MaxMid \in Nat
      /\ mid[g] \in Nat /\ mid[g] <= requested
  BY <1>1, BoundAssumption DEF Inv, ClientInv, ClientTypes, ReceiveBlock
<1>5. /\ requested' = requested + 1 /\ mid' = [mid EXCEPT ![g] = id] /\ mid'[g] = id
      /\ buffer' = [buffer EXCEPT ![g] = [open |-> TRUE, mid |-> mid'[g], body |-> body]]
      /\ wire' = wire \cup {BlockRequest(g, mid'[g], m.num + 1)}
      /\ UNCHANGED <<server, cb, result, other>>
  BY <1>1, <1>4 DEF ReceiveBlock, ClientTypes
<1>6. wire' = wire \cup new
  BY <1>5
<1> HIDE DEF b, body, g, new
<1>7. ClientTypes'
  <2>1. /\ requested' \in 0 .. MaxMid /\ mid' \in [Gets -> 0 .. MaxMid]
        /\ \A h \in Gets : mid'[h] <= requested'
    BY <1>1, <1>4, <1>5 DEF ClientTypes
  <2>2. [open |-> TRUE, mid |-> id, body |-> body]
          \in [open : BOOLEAN, mid : 0 .. MaxMid, body : Seq(Block(Served))]
    BY <1>3, <1>4 DEF Part
  <2> HIDE DEF id
  <2>3. buffer' \in [Gets -> [open : BOOLEAN, mid : 0 .. MaxMid, body : Seq(Block(Served))]]
    BY <1>4, <1>5, <2>2 DEF ClientTypes
  <2> QED BY <1>4, <1>5, <2>1, <2>3 DEF ClientTypes
<1> HIDE DEF id
<1>8. /\ buffer'[g] = [open |-> TRUE, mid |-> id, body |-> body]
      /\ \A h \in Gets : h # g => buffer'[h] = buffer[h] /\ mid'[h] = mid[h]
  BY <1>1, <1>4, <1>5 DEF ClientTypes
<1>9. ClientsKept
  <2>1. \A h \in Gets : Len(buffer[h].body) \in Nat
    BY <1>4 DEF ClientTypes
  <2> QED BY <1>3, <1>5, <1>8, <2>1 DEF ClientsKept
<1>10. DownloadWhole' /\ BuffersOwned'
  BY <1>1, <1>5, <1>8 DEF Inv, ClientInv, DownloadWhole, BuffersOwned
<1>11. \A h \in Gets : Part(Served, buffer'[h].body) /\ (result'[h].how = "idle" => ~cb'[h])
  BY <1>3, <1>5, <1>8 DEF Inv, ClientInv
<1>12. ClientInv'
  BY <1>7, <1>10, <1>11 DEF ClientInv
<1>13. \A r \in new : MessageInv(r)'
  <2>1. m.num + 1 \in Nums
    BY <1>1, BlocksAssumption DEF Nums
  <2>2. Asked(g, m.num + 1)'
    BY <1>1, <1>3, <1>5, <1>8 DEF Asked
  <2> QED BY <2>1, <2>2 DEF new, BlockRequest, MessageInv
<1> QED BY <1>5, <1>6, <1>9, <1>12, <1>13, ClientMoves

LEMMA ReceiveLastPreserves ==
  ASSUME Inv, NEW m \in Sent("content"), ReceiveLast(m)
  PROVE  Inv'
<1> DEFINE g == m.get
           b == [of |-> m.of, num |-> m.num]
           body == Handled(buffer[g].body, b)
<1>1. /\ m.num \in Nums /\ m.of \in Served /\ m.more = (m.num + 1 < Blocks) /\ g \in Gets
      /\ Accepts(buffer[g].body, m)
  BY DEF Inv, WireInv, MessageInv, Sent, Asked, ReceiveLast, Accepts
<1>2. b \in Block(Served) /\ Accepts(buffer[g].body, b) /\ ~(b.num + 1 < Blocks)
  BY <1>1 DEF ReceiveLast, Accepts, Block
<1>3. body \in Bodies(Served) /\ Whole(body)
  BY <1>1, <1>2, HandledWhole DEF Inv, ClientInv
<1>4. Forget(g, "answered", body) /\ UNCHANGED <<server, requested, mid, other, wire>>
  BY <1>1 DEF ReceiveLast
<1>5. "answered" \in Ways /\ "answered" # "idle"
  BY DEF Ways
<1> HIDE DEF g, body
<1> QED BY <1>1, <1>3, <1>4, <1>5, ForgetPreserves

\* The other ends hand over no payload.
LEMMA EndsPreserve ==
  ASSUME Inv, NEW g \in Gets, NEW how \in {"failed", "reset", "expired"},
         Forget(g, how, <<>>), UNCHANGED <<server, requested, mid, other, wire>>
  PROVE  Inv'
<1>1. how \in Ways /\ how # "idle" /\ how # "answered"
  BY DEF Ways
<1> QED BY <1>1, EmptyBody, ForgetPreserves

LEMMA DownloadPreserves ==
  ASSUME Inv, Download
  PROVE  Inv'
<1>1. ASSUME NEW g \in Gets, Timeout(g) \/ Expire(g) PROVE Inv'
  BY <1>1, EndsPreserve DEF Timeout, Expire
<1>2. ASSUME NEW m \in wire, m.kind \in {"error", "reset"} PROVE m.get \in Gets
  BY <1>2 DEF Inv, WireInv, MessageInv
<1>3. ASSUME NEW m \in Sent("error"), ReceiveError(m) PROVE Inv'
  BY <1>2, <1>3, EndsPreserve DEF ReceiveError, Sent
<1>4. ASSUME NEW m \in Sent("reset"), ReceiveReset(m) PROVE Inv'
  BY <1>2, <1>4, EndsPreserve DEF ReceiveReset, Sent
<1> QED
  BY <1>1, <1>3, <1>4, GetPreserves, ReceiveBlockPreserves, ReceiveLastPreserves DEF Download

-----------------------------------------------------------------------------
(* The other implementation.                                               *)

LEMMA UploadMoves ==
  ASSUME Inv, UNCHANGED <<server, client>>, UploadInv',
         NEW new, wire' = wire \cup new, \A m \in new : MessageInv(m)'
  PROVE  Inv'
<1>1. ServerInv' /\ applied' = applied
  BY ServerIdle DEF Inv
<1>2. ClientInv' /\ ClientsKept
  BY ClientIdle DEF Inv
<1>3. WireInv'
  BY <1>1, <1>2, WireGrows DEF ClientInv
<1> QED BY <1>1, <1>2, <1>3 DEF Inv

LEMMA UploadPreserves ==
  ASSUME Inv, Upload
  PROVE  Inv'
<1>1. upload \in [of : 0 .. MaxUpload, num : Nums, done : BOOLEAN] /\ 0 \in Nums
  BY BlocksAssumption DEF Inv, UploadInv, Nums
<1>2. CASE StartUpload
  <2> DEFINE new == {Block1(upload.of + 1, 0)}
  <2>1. /\ upload' = [of |-> upload.of + 1, num |-> 0, done |-> FALSE]
        /\ wire' = wire \cup new /\ UNCHANGED <<server, client>>
    BY <1>2 DEF StartUpload
  <2>2. upload.of + 1 \in Uploads
    BY <1>1, <1>2, BoundAssumption DEF StartUpload, Uploads
  <2>3. UploadInv'
    BY <1>1, <2>1, <2>2 DEF UploadInv, Uploads
  <2>4. \A m \in new : MessageInv(m)'
    BY <1>1, <2>2 DEF Block1, MessageInv
  <2> HIDE DEF new
  <2> QED BY <2>1, <2>3, <2>4, UploadMoves
<1>3. ASSUME NEW m \in Sent("continue"), ContinueUpload(m) PROVE Inv'
  <2> DEFINE new == {Block1(upload.of, upload.num + 1)}
  <2>1. /\ upload' = [upload EXCEPT !.num = @ + 1]
        /\ wire' = wire \cup new /\ UNCHANGED <<server, client>>
    BY <1>3 DEF ContinueUpload
  <2>2. m.of = upload.of /\ m.of \in Uploads /\ m.num = upload.num /\ m.num + 1 < Blocks
    BY <1>3 DEF ContinueUpload, Inv, WireInv, MessageInv, Sent
  <2>3. upload.num + 1 \in Nums
    BY <1>1, <2>2, BlocksAssumption DEF Nums
  <2>4. UploadInv'
    <3>1. /\ upload' \in [of : 0 .. MaxUpload, num : Nums, done : BOOLEAN]
          /\ upload'.of = upload.of /\ upload'.done = upload.done
      BY <1>1, <2>1, <2>3
    <3>2. applied' = applied
      BY <2>1 DEF server
    <3> QED BY <3>1, <3>2 DEF Inv, UploadInv, Done
  <2>5. \A r \in new : MessageInv(r)'
    BY <2>2, <2>3 DEF Block1, MessageInv
  <2> HIDE DEF new
  <2> QED BY <2>1, <2>4, <2>5, UploadMoves
<1>4. ASSUME NEW m \in Sent("changed"), UploadChanged(m) PROVE Inv'
  <2> DEFINE new == {}
  <2>1. /\ upload' = [upload EXCEPT !.done = TRUE]
        /\ wire' = wire \cup new /\ UNCHANGED <<server, client>>
    BY <1>4 DEF UploadChanged
  <2>2. Done(upload.of)
    BY <1>4 DEF UploadChanged, Inv, WireInv, MessageInv, Sent
  <2>3. UploadInv'
    <3>1. /\ upload' \in [of : 0 .. MaxUpload, num : Nums, done : BOOLEAN]
          /\ upload'.of = upload.of
      BY <1>1, <2>1
    <3>2. applied' = applied
      BY <2>1 DEF server
    <3> QED BY <2>2, <3>1, <3>2 DEF UploadInv, Done
  <2>4. \A r \in new : MessageInv(r)'
    OBVIOUS
  <2> HIDE DEF new
  <2> QED BY <2>1, <2>3, <2>4, UploadMoves
<1> QED BY <1>2, <1>3, <1>4 DEF Upload

-----------------------------------------------------------------------------

LEMMA InitEstablishesInv == Init => Inv
<1> SUFFICES ASSUME Init PROVE Inv
  OBVIOUS
<1> USE BlocksAssumption, BoundAssumption DEF Init
<1>1. ServerInv
  <2>1. {} \subseteq Bodies(Uploads) /\ 0 \in 0 .. MaxServed
    OBVIOUS
  <2> QED BY <2>1, NoSourceType, NoSinkType DEF ServerInv, UploadWhole, NoSink
<1>2. ClientInv
  <2>1. <<>> \in Seq(Block(Served)) /\ <<>> \in Bodies(Served) /\ 0 \in 0 .. MaxMid
    BY EmptyBody
  <2>2. ClientTypes
    BY <2>1 DEF ClientTypes, NoBuffer, Outcome, Ways
  <2>3. \A g \in Gets : buffer[g].body = <<>> /\ ~buffer[g].open /\ ~cb[g]
                        /\ result[g].how = "idle"
    BY DEF NoBuffer, Outcome
  <2> QED BY <2>2, <2>3, EmptyPart DEF ClientInv, DownloadWhole, BuffersOwned
<1>3. UploadInv
  BY DEF UploadInv, Nums
<1>4. WireInv
  BY DEF WireInv
<1> QED BY <1>1, <1>2, <1>3, <1>4 DEF Inv

LEMMA NextPreservesInv == Inv /\ [Next]_vars => Inv'
<1> SUFFICES ASSUME Inv, [Next]_vars PROVE Inv'
  OBVIOUS
<1>1. CASE Serve
  BY <1>1, ServeGetPreserves, RefuseGetPreserves, ServeBlockPreserves, RefuseBlockPreserves,
     AcceptBlockPreserves, RejectBlockPreserves, SourceTimeoutPreserves, SinkTimeoutPreserves
  DEF Serve
<1>2. CASE UNCHANGED vars
  <2> DEFINE new == {}
  <2>1. UNCHANGED <<server, client, upload>> /\ wire' = wire \cup new
    BY <1>2 DEF vars, other
  <2>2. UploadInv'
    BY <2>1, UploadIdle DEF Inv, server
  <2>3. \A m \in new : MessageInv(m)'
    OBVIOUS
  <2> HIDE DEF new
  <2> QED BY <2>1, <2>2, <2>3, UploadMoves
<1> QED BY <1>1, <1>2, DownloadPreserves, UploadPreserves DEF Next

\* Whatever the network loses, repeats and reorders, whatever two downloads of the
\* same buffer and the timers of the server do to each other: a handler is given
\* a whole body or none, the peer is told of success only after the handler was
\* invoked with a body that ends with the last block of its upload, and a buffer
\* of a client never outlives its callback, which the engine uses unchecked.
THEOREM TransfersAreWhole == Spec => []TransfersWhole
<1>1. Inv => TransfersWhole
  <2> SUFFICES ASSUME Inv PROVE TransfersWhole
    OBVIOUS
  <2>1. sink.body \in Bodies(1 .. MaxUpload)
    BY PartType DEF Inv, ServerInv, Uploads
  <2>2. \A g \in Gets : buffer[g].body \in Bodies(1 .. MaxServed)
    BY PartType DEF Inv, ClientInv, Served
  <2>3. \A g \in Gets : result[g].body \in Bodies(1 .. MaxServed)
    BY DEF Inv, ClientInv, ClientTypes, Served
  <2>4. TypeOK
    BY <2>1, <2>2, <2>3 DEF Inv, ServerInv, ClientInv, ClientTypes, UploadInv, TypeOK, Uploads, Nums
  <2>5. AnsweredIsApplied
    BY DEF Inv, UploadInv, Done, AnsweredIsApplied
  <2> QED BY <2>4, <2>5 DEF Inv, ServerInv, ClientInv, TransfersWhole
<1> QED
  BY <1>1, InitEstablishesInv, NextPreservesInv, PTL DEF Spec
=============================================================================
