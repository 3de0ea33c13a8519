----------------------------- MODULE Blockwise -----------------------------
(***************************************************************************)
(* Block-wise transfers: the buffers (api/oc_blockwise.c), their use by    *)
(* the server and by the client side of the engine                         *)
(* (messaging/coap/engine.c), and the end of a transfer through client     *)
(* callbacks (api/oc_ri.c) and transactions.                               *)
(*                                                                         *)
(* A payload is Blocks blocks long and offsets count blocks.  A block is   *)
(* [of, num]: the representation or upload it is cut from, its position.   *)
(*                                                                         *)
(* Downloads: the client of this stack gets one resource of this stack's   *)
(* server, whose representation may be another one each time its handler   *)
(* runs; requests are HIGH_QOS, and one token serves a whole download.     *)
(* Uploads: another implementation posts to one resource in blocks, since  *)
(* the stack's own requests are not (OC_BLOCK_WISE_REQUEST is not built).  *)
(*                                                                         *)
(* The network loses, delays, duplicates and reorders: wire only grows.    *)
(* That covers the retransmissions too.  An ACK does not stop them, since  *)
(* coap_receive clears a transaction for a CON message only; so one is     *)
(* open under the message ID of every callback that waits.                 *)
(***************************************************************************)
EXTENDS Integers, Sequences

CONSTANTS
  Blocks,      \* blocks of a payload
  Gets,        \* downloads, each with a token of its own
  MaxServed,   \* bound on the invocations of the GET handler
  MaxMid,      \* bound on the requests of all downloads
  MaxUpload    \* bound on the uploads

ASSUME BlocksAssumption == Blocks \in Nat /\ Blocks > 1
ASSUME BoundAssumption == MaxServed \in Nat \ {0} /\ MaxMid \in Nat /\ MaxUpload \in Nat

VARIABLES
  served,   \* invocations of the GET handler, each with a representation of its own
  source,   \* server: the response buffer of the resource for the client's endpoint
  sink,     \* server: the request buffer of the upload resource
  applied,  \* ghost: the bodies the POST handler was invoked with
  requested, \* bound: the requests of all downloads so far
  mid,      \* client: the message ID of the last request of a download
  cb,       \* client: whether a download has a callback, with that message ID
  buffer,   \* client: the response buffer of a download
  result,   \* client: what the handler of a download was told
  upload,   \* the other implementation: its current upload, block and state
  wire,     \* the messages sent so far
  peer      \* which of the two peers transfers; they share no buffer

server == <<served, source, sink, applied>>
client == <<requested, mid, cb, buffer, result>>
other == <<upload, peer>>
vars == <<server, client, other, wire>>

Nums == 0 .. Blocks - 1
Bodies(Of) == UNION {[1 .. n -> [of : Of, num : Nums]] : n \in 0 .. Blocks}
Whole(body) == Len(body) = Blocks /\ \A i \in 1 .. Blocks : body[i].num = i - 1

\* ref is ref_count; a buffer of oc_blockwise_requests, oc_blockwise_responses
NoSource == [of |-> 0, next |-> 0, ref |-> 0]
NoSink == [body |-> <<>>, ref |-> 0]
NoBuffer == [open |-> FALSE, mid |-> 0, body |-> <<>>]
\* how a download ended, and the payload the handler was given
Outcome(how, body) == [how |-> how, body |-> body]

GetRequest(g) == [kind |-> "get", get |-> g]
BlockRequest(g, m, n) == [kind |-> "block2", get |-> g, mid |-> m, num |-> n]
\* the response is found by its token, a reset by the message ID of its request
Block2(r, n, v) ==
  [kind |-> "content", get |-> r.get, num |-> n, of |-> v, more |-> n + 1 < Blocks]
Failure(r) == [kind |-> "error", get |-> r.get]
Reset(r) == [kind |-> "reset", get |-> r.get, mid |-> r.mid]
Block1(u, n) == [kind |-> "block1", of |-> u, num |-> n]
Continue(r) == [kind |-> "continue", of |-> r.of, num |-> r.num]
Changed(r) == [kind |-> "changed", of |-> r.of]
Rejected(r) == [kind |-> "rejected", of |-> r.of]

Sent(kind) == {m \in wire : m.kind = kind}

-----------------------------------------------------------------------------
(* oc_blockwise_handle_block, on a body of whole blocks.                   *)

Accepts(body, b) == b.num <= Len(body)

\* a block that is there already is accepted and not written
Handled(body, b) == IF b.num = Len(body) THEN Append(body, b) ELSE body

-----------------------------------------------------------------------------
(* The server: downloads.                                                  *)

\* a request without block options: a response buffer of an earlier request is
\* freed, the GET handler fills a new one, the first block goes out
ServeGet(r) ==
  /\ served < MaxServed
  /\ served' = served + 1
  /\ source' = [of |-> served + 1, next |-> 1, ref |-> 1]
  /\ wire' = wire \cup {Block2(r, 0, served + 1)}
  /\ UNCHANGED <<sink, applied, client, other>>

\* the same when the handler, or the access check before it, refuses: the
\* new buffer has ref_count 0 and is scrubbed
RefuseGet(r) ==
  /\ source' = NoSource
  /\ wire' = wire \cup {Failure(r)}
  /\ UNCHANGED <<served, sink, applied, client, other>>

\* next_block_offset - block2_offset > block2_size, in unsigned arithmetic: the
\* request is behind, or ahead, and is dropped
Dropped(r) == r.num \notin {source.next - 1, source.next}

\* oc_blockwise_dispatch_block; the last block goes out as a CON message and
\* leaves ref_count 0
ServeBlock(r) ==
  /\ source.ref = 1 /\ ~Dropped(r)
  /\ source' = IF r.num + 1 < Blocks THEN [source EXCEPT !.next = r.num + 1] ELSE NoSource
  /\ wire' = wire \cup {Block2(r, r.num, source.of)}
  /\ UNCHANGED <<served, sink, applied, client, other>>

\* "initiating block-wise transfer with request for block_num > 0"
RefuseBlock(r) ==
  /\ source.ref = 0
  /\ wire' = wire \cup {Reset(r)}
  /\ UNCHANGED <<server, client, other>>

\* oc_blockwise_response_timeout, OC_EXCHANGE_LIFETIME after the allocation
SourceTimeout ==
  /\ source.ref = 1
  /\ source' = NoSource
  /\ UNCHANGED <<served, sink, applied, client, other, wire>>

-----------------------------------------------------------------------------
(* The server: uploads.                                                    *)

\* mutant: the last block ends the transfer wherever it lands
AcceptLastAnywhere(r) ==
  /\ sink.ref = 1 \/ r.num = 0
  /\ IF r.num + 1 < Blocks
       THEN /\ Accepts(sink.body, r)
            /\ sink' = [body |-> Handled(sink.body, [of |-> r.of, num |-> r.num]), ref |-> 1]
            /\ wire' = wire \cup {Continue(r)}
            /\ UNCHANGED applied
       ELSE /\ sink' = NoSink
            /\ applied' = applied \cup {Append(sink.body, [of |-> r.of, num |-> r.num])}
            /\ wire' = wire \cup {Changed(r)}
  /\ UNCHANGED <<served, source, client, other>>

\* a block of the transfer: block 0 allocates the buffer; the last block sets
\* ref_count to 0, the handler gets the body, the answer is a CON message
AcceptBlock(r) ==
  LET body == Handled(sink.body, [of |-> r.of, num |-> r.num]) IN
  /\ sink.ref = 1 \/ r.num = 0
  /\ Accepts(sink.body, r)
  /\ IF r.num + 1 < Blocks
       THEN /\ sink' = [body |-> body, ref |-> 1]
            /\ wire' = wire \cup {Continue(r)}
            /\ UNCHANGED applied
       ELSE /\ sink' = NoSink
            /\ applied' = applied \cup {body}
            /\ wire' = wire \cup {Changed(r)}
  /\ UNCHANGED <<served, source, client, other>>

\* a block ahead of the buffer frees it, a block other than 0 finds none
RejectBlock(r) ==
  /\ IF sink.ref = 1 THEN ~Accepts(sink.body, r) ELSE r.num > 0
  /\ sink' = NoSink
  /\ wire' = wire \cup {Rejected(r)}
  /\ UNCHANGED <<served, source, applied, client, other>>

\* oc_blockwise_request_timeout
SinkTimeout ==
  /\ sink.ref = 1
  /\ sink' = NoSink
  /\ UNCHANGED <<served, source, applied, client, other, wire>>

-----------------------------------------------------------------------------
(* The client.                                                             *)

\* oc_do_get: the callback, its transaction and the request
Get(g) ==
  /\ result[g].how = "idle" /\ requested < MaxMid
  /\ requested' = requested + 1
  /\ mid' = [mid EXCEPT ![g] = 1]
  /\ cb' = [cb EXCEPT ![g] = TRUE]
  /\ result' = [result EXCEPT ![g].how = "open"]
  /\ wire' = wire \cup {GetRequest(g)}
  /\ UNCHANGED <<server, buffer, other>>

\* free_client_cb, with oc_blockwise_scrub_buffers_for_client_cb
Forget(g, how, body) ==
  /\ cb' = [cb EXCEPT ![g] = FALSE]
  /\ buffer' = [buffer EXCEPT ![g] = NoBuffer]
  /\ result' = [result EXCEPT ![g] = Outcome(how, body)]

\* a block that is not the last: the buffer, found by the callback or allocated,
\* takes it, and the next block is asked for, whether or not it has been before
ReceiveBlock(m) ==
  LET body == Handled(buffer[m.get].body, [of |-> m.of, num |-> m.num]) IN
  /\ cb[m.get] /\ m.more
  /\ Accepts(buffer[m.get].body, m)
  /\ requested < MaxMid
  /\ requested' = requested + 1
  /\ mid' = [mid EXCEPT ![m.get] = @ + 1]
  /\ buffer' = [buffer EXCEPT ![m.get] = [open |-> TRUE, mid |-> mid'[m.get], body |-> body]]
  /\ wire' = wire \cup {BlockRequest(m.get, mid'[m.get], m.num + 1)}
  /\ UNCHANGED <<server, cb, result, other>>

\* the last block, or one that does not fit: oc_ri_invoke_client_cb.  A block
\* that does not fit leaves payload_size at 0
ReceiveLast(m) ==
  LET body == Handled(buffer[m.get].body, [of |-> m.of, num |-> m.num]) IN
  /\ cb[m.get]
  /\ Accepts(buffer[m.get].body, m) => ~m.more
  /\ Forget(m.get, "answered", IF Accepts(buffer[m.get].body, m) THEN body ELSE <<>>)
  /\ UNCHANGED <<server, requested, mid, other, wire>>

\* an error response: the handler gets its code and no payload
ReceiveError(m) ==
  /\ cb[m.get]
  /\ Forget(m.get, "failed", <<>>)
  /\ UNCHANGED <<server, requested, mid, other, wire>>

\* a reset is matched with the buffer by its message ID; the handler is told
\* OC_STATUS_OK, the code no CoAP code was found for, and no payload.  An empty
\* ACK is matched in the same way and only announces a separate response
ReceiveReset(m) ==
  /\ buffer[m.get].open /\ buffer[m.get].mid = m.mid
  /\ Forget(m.get, "reset", <<>>)
  /\ UNCHANGED <<server, requested, mid, other, wire>>

\* coap_send_transaction after the last attempt: oc_ri_free_client_cbs_by_mid
\* tells the handler; an older message ID of the download finds no callback
Timeout(g) ==
  /\ cb[g]
  /\ Forget(g, "failed", <<>>)
  /\ UNCHANGED <<server, requested, mid, other, wire>>

\* mutant: the delayed callback is dropped once a block has arrived
ExpireEarly(g) ==
  /\ cb[g] /\ ~buffer[g].open
  /\ Forget(g, "expired", <<>>)
  /\ UNCHANGED <<server, requested, mid, other, wire>>

\* oc_ri_remove_client_cb, OC_EXCHANGE_LIFETIME after the first request: before
\* the timeout of a client's response buffer, which is as long and starts later
Expire(g) ==
  /\ cb[g]
  /\ Forget(g, "expired", <<>>)
  /\ UNCHANGED <<server, requested, mid, other, wire>>

-----------------------------------------------------------------------------
(* The other implementation.                                               *)

\* a new upload, also when the last one got no answer
StartUpload ==
  /\ upload.of < MaxUpload
  /\ upload' = [of |-> upload.of + 1, num |-> 0, done |-> FALSE]
  /\ wire' = wire \cup {Block1(upload.of + 1, 0)}
  /\ UNCHANGED <<server, client, peer>>

ContinueUpload(m) ==
  /\ m.of = upload.of /\ m.num = upload.num
  /\ upload' = [upload EXCEPT !.num = @ + 1]
  /\ wire' = wire \cup {Block1(upload.of, upload.num + 1)}
  /\ UNCHANGED <<server, client, peer>>

UploadChanged(m) ==
  /\ m.of = upload.of /\ ~upload.done /\ upload.num = Blocks - 1
  /\ upload' = [upload EXCEPT !.done = TRUE]
  /\ UNCHANGED <<server, client, wire, peer>>

-----------------------------------------------------------------------------
Init ==
  /\ served = 0
  /\ source = NoSource
  /\ sink = NoSink
  /\ applied = {}
  /\ requested = 0
  /\ mid = [g \in Gets |-> 0]
  /\ cb = [g \in Gets |-> FALSE]
  /\ buffer = [g \in Gets |-> NoBuffer]
  /\ result = [g \in Gets |-> Outcome("idle", <<>>)]
  /\ upload = [of |-> 0, num |-> 0, done |-> FALSE]
  /\ wire = {}
  /\ peer \in {"stack", "other"}

Serve ==
  \/ \E r \in Sent("get") : ServeGet(r) \/ RefuseGet(r)
  \/ \E r \in Sent("block2") : ServeBlock(r) \/ RefuseBlock(r)
  \/ \E r \in Sent("block1") : AcceptBlock(r) \/ RejectBlock(r)
  \/ SourceTimeout
  \/ SinkTimeout

Download ==
  \/ \E g \in Gets : (peer = "stack" /\ Get(g)) \/ Timeout(g) \/ Expire(g)
  \/ \E m \in Sent("content") : ReceiveBlock(m) \/ ReceiveLast(m)
  \/ \E m \in Sent("error") : ReceiveError(m)
  \/ \E m \in Sent("reset") : ReceiveReset(m)

Upload ==
  \/ peer = "other" /\ StartUpload
  \/ \E m \in Sent("continue") : ContinueUpload(m)
  \/ \E m \in Sent("changed") : UploadChanged(m)

Next == Serve \/ Download \/ Upload

Spec == Init /\ [][Next]_vars

\* the event loop polls every timed callback
Fairness ==
  /\ WF_vars(SourceTimeout)
  /\ WF_vars(SinkTimeout)
  /\ \A g \in Gets : WF_vars(Expire(g))

FairSpec == Spec /\ Fairness

-----------------------------------------------------------------------------
(* Properties.                                                             *)

\* The values the variables take.
TypeOK ==
  /\ served \in 0 .. MaxServed
  /\ source \in [of : 0 .. MaxServed, next : 0 .. Blocks - 1, ref : {0, 1}]
  /\ sink.ref \in {0, 1} /\ sink.body \in Bodies(1 .. MaxUpload)
  /\ applied \subseteq Bodies(1 .. MaxUpload)
  /\ requested \in 0 .. MaxMid
  /\ mid \in [Gets -> 0 .. MaxMid]
  /\ cb \in [Gets -> BOOLEAN]
  /\ \A g \in Gets : buffer[g].body \in Bodies(1 .. MaxServed)
  /\ upload \in [of : 0 .. MaxUpload, num : Nums, done : BOOLEAN]
  /\ \A g \in Gets : result[g].body \in Bodies(1 .. MaxServed)

\* A download whose handler is told of a response gets every block of the
\* resource once and in order, whatever the network, the other download of the
\* same buffer and the timers of the server did meanwhile.
DownloadWhole ==
  \A g \in Gets : result[g].how = "answered" => Whole(result[g].body)

\* The POST handler never sees an upload with a block missing or repeated.
UploadWhole == \A body \in applied : Whole(body)

\* The peer is told that an upload succeeded only when the handler was invoked
\* with a body that ends with the last block of that upload.
AnsweredIsApplied ==
  upload.done => \E body \in applied : body[Blocks] = [of |-> upload.of, num |-> Blocks - 1]

\* The engine uses the callback a client buffer refers to without a check: it
\* is never freed before the buffer, and waits for the message the buffer does.
BuffersOwned ==
  \A g \in Gets : buffer[g].open => cb[g] /\ mid[g] = buffer[g].mid

\* What a transfer hands over, at either side, is a whole body of one resource or
\* upload, is confirmed only then, and lies in buffers that live long enough.
TransfersWhole ==
  TypeOK /\ DownloadWhole /\ UploadWhole /\ AnsweredIsApplied /\ BuffersOwned

\* An abandoned transfer does not keep a buffer of the server for ever.
BuffersEnd == (source.ref = 1 ~> source.ref = 0) /\ (sink.ref = 1 ~> sink.ref = 0)

\* Every download ends, whichever of its messages and transactions are lost.
DownloadsEnd == \A g \in Gets : result[g].how = "open" ~> result[g].how # "open"

\* Transfers end at both sides.
TransfersEnd == BuffersEnd /\ DownloadsEnd

\* The server drops a repeated request for a block "to avoid terminate BWT": no
\* download ends with success and without its payload.
DuplicatesHarmless == \A g \in Gets : result[g].how # "reset"

=============================================================================
