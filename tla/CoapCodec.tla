----------------------------- MODULE CoapCodec -----------------------------
(***************************************************************************)
(* How a packet becomes a message and a message a packet again             *)
(* (messaging/coap/coap.c), and the option of OSCORE                       *)
(* (messaging/coap/oscore.c).                                              *)
(*                                                                         *)
(* A packet has opts, a function from option numbers to values; a message  *)
(* has fields, one for each option in it, with delta and length as the     *)
(* nibbles and further bytes on the wire.  Bytes are numbers.  A payload   *)
(* is a sequence of at most one element.                                   *)
(***************************************************************************)
EXTENDS Naturals, Sequences, FiniteSets, SequencesExt, FiniteSetsExt, TLC

CONSTANTS
  MaxHeader,    \* COAP_MAX_HEADER_SIZE
  Accepts       \* the formats an Accept option may ask for

ASSUME CodecAssumption == MaxHeader \in Nat /\ Accepts \subseteq Nat

Opt ==
  [UriHost |-> 3, ETag |-> 4, Observe |-> 6, UriPort |-> 7, Oscore |-> 9,
   UriPath |-> 11, ContentFormat |-> 12, MaxAge |-> 14, UriQuery |-> 15,
   Accept |-> 17, Block2 |-> 23, Block1 |-> 27, Size2 |-> 28, ProxyUri |-> 35,
   Size1 |-> 60, Echo |-> 252]

Inner == {Opt.ETag, Opt.UriPath, Opt.ContentFormat, Opt.UriQuery, Opt.Accept,
          Opt.Block2, Opt.Block1, Opt.Size2, Opt.Size1, Opt.Echo}
Outer == {Opt.UriHost, Opt.UriPort, Opt.ProxyUri}
Ints == {Opt.Observe, Opt.UriPort, Opt.ContentFormat, Opt.MaxAge, Opt.Accept,
         Opt.Size2, Opt.Size1}
Blocks == {Opt.Block1, Opt.Block2}
Strings == {Opt.UriPath, Opt.UriQuery}
Known == Inner \cup Outer \cup {Opt.Observe, Opt.Oscore, Opt.MaxAge}

Code ==
  [GET |-> 1, POST |-> 2, PUT |-> 3, DELETE |-> 4, FETCH |-> 5,
   Changed |-> 68, Content |-> 69, BadRequest |-> 128, Unauthorized |-> 129,
   BadOption |-> 130, NotAcceptable |-> 134]

NoPayload == <<>>
Slash == 47
Ampersand == 38
QuestionMark == 63
Separator(n) == IF n = Opt.UriPath THEN Slash ELSE Ampersand

-----------------------------------------------------------------------------
(* Numbers. *)

\* coap_option_nibble, coap_set_option_header: a delta or a length
Extended(n) ==
  IF n < 13 THEN [nibble |-> n, more |-> <<>>]
  ELSE IF n <= 268 THEN [nibble |-> 13, more |-> <<n - 13>>]
  ELSE [nibble |-> 14, more |-> <<((n - 269) \div 256) % 256, (n - 269) % 256>>]

Extracted(e) ==
  IF e.nibble = 13 THEN 13 + e.more[1]
  ELSE IF e.nibble = 14 THEN 14 + 255 + 256 * e.more[1] + e.more[2]
  ELSE e.nibble

\* coap_serialize_int_option: 0 has no bytes
IntBytes(v) ==
  IF v = 0 THEN <<>>
  ELSE IF v < 256 THEN <<v>>
  ELSE IF v < 65536 THEN <<v \div 256, v % 256>>
  ELSE IF v < 16777216 THEN <<v \div 65536, (v \div 256) % 256, v % 256>>
  ELSE <<v \div 16777216, (v \div 65536) % 256, (v \div 256) % 256, v % 256>>

\* coap_parse_int_option (of at most three bytes: TLC's numbers have 31 bits)
IntValue(bytes) == FoldLeft(LAMBDA v, b : 256 * v + b, 0, bytes)

\* coap_log_2
Log2(v) == IF v = 0 THEN 0 ELSE CHOOSE k \in 0 .. 15 : 2^k <= v /\ v < 2^(k + 1)

BlockInt(b) == 16 * b.num + (IF b.more THEN 8 ELSE 0) + (Log2(b.size \div 16) % 16)
BlockOf(v) ==
  [num |-> v \div 16, more |-> (v \div 8) % 2 = 1, size |-> 16 * 2^(v % 8)]

\* oscore_store_piv, oscore_read_piv
StorePiv(ssn) == IF ssn = 0 THEN <<0>> ELSE IntBytes(ssn)
ReadPiv(piv) == IntValue(piv)

-----------------------------------------------------------------------------
(* Setting the options of a packet. *)

Packet(type, code, mid) ==
  [type |-> type, code |-> code, mid |-> mid, token |-> <<>>, opts |-> <<>>,
   payload |-> NoPayload]

With(p, n, v) == [p EXCEPT !.opts = (n :> v) @@ @]
WithToken(p, token) == [p EXCEPT !.token = SubSeq(token, 1, Min({8, Len(token)}))]
WithETag(p, v) == With(p, Opt.ETag, SubSeq(v, 1, Min({8, Len(v)})))

\* coap_set_header_block1, coap_set_header_block2
WithBlock(p, n, num, more, size) ==
  IF size \in 16 .. 2048 /\ num <= 1048575
  THEN With(p, n, [num |-> num, more |-> more, size |-> size])
  ELSE p

Stripped(s, c) ==
  LET first == Min({i \in 1 .. Len(s) + 1 : i = Len(s) + 1 \/ s[i] # c})
  IN SubSeq(s, first, Len(s))
WithPath(p, path) == With(p, Opt.UriPath, Stripped(path, Slash))
WithQuery(p, query) == With(p, Opt.UriQuery, Stripped(query, QuestionMark))

-----------------------------------------------------------------------------
(* The option of OSCORE. *)

\* oscore_get_outer_code
OuterCode(p) ==
  LET observe == Opt.Observe \in DOMAIN p.opts
  IN IF p.code \in Code.GET .. Code.DELETE
     THEN IF observe THEN Code.FETCH ELSE Code.POST
     ELSE IF observe THEN Code.Content ELSE Code.Changed

\* coap_set_header_oscore
OscoreOption(code, piv, kid, kidCtx) ==
  [flags |-> Len(piv) + (IF code <= Code.FETCH THEN 8 ELSE 0)
             + (IF kidCtx # <<>> THEN 16 ELSE 0),
   piv |-> piv, kid |-> kid, kidCtx |-> kidCtx]

\* coap_serialize_oscore_option
OscoreBytes(o) ==
  IF o.flags = 0 THEN <<>>
  ELSE <<o.flags>> \o o.piv
       \o (IF o.kidCtx # <<>> THEN <<Len(o.kidCtx)>> \o o.kidCtx ELSE <<>>) \o o.kid

\* coap_parse_oscore_option
OscoreParsed(bytes) ==
  IF bytes = <<>> THEN [flags |-> 0, piv |-> <<>>, kid |-> <<>>, kidCtx |-> <<>>]
  ELSE LET flags  == bytes[1]
           n      == flags % 8
           ctx    == (flags \div 16) % 2 = 1
           s      == IF ctx THEN bytes[n + 2] ELSE 0
           behind == IF ctx THEN n + 2 + s ELSE n + 1
       IN [flags |-> flags, piv |-> SubSeq(bytes, 2, n + 1),
           kidCtx |-> SubSeq(bytes, n + 3, n + 2 + s),
           kid |-> IF (flags \div 8) % 2 = 1 THEN SubSeq(bytes, behind + 1, Len(bytes))
                   ELSE <<>>]

\* oc_oscore_AEAD_nonce, before the exclusive-or with the common IV
Nonce(id, piv) ==
  [i \in 1 .. 13 |->
     IF i = 1 THEN Len(id)
     ELSE IF i \in 9 - Len(id) .. 8 THEN id[i - 8 + Len(id)]
     ELSE IF i > 13 - Len(piv) THEN piv[i - 13 + Len(piv)]
     ELSE 0]

\* oc_oscore_compose_AAD: what of it differs between messages
Aad(kid, piv) == <<kid, piv>>

-----------------------------------------------------------------------------
(* Writing. *)

\* coap_serialize_array_option: the segments of s from start on.  The byte a
\* segment begins with is not compared; nothing is made of a separator at the end.
Segments(s, c) ==
  LET from[start \in 1 .. Len(s) + 2] ==
        LET ends == {j \in (IF start = 1 THEN 1 ELSE start + 1) .. Len(s) + 1 :
                       j = Len(s) + 1 \/ s[j] = c}
        IN IF ends = {} THEN <<>>
           ELSE <<SubSeq(s, start, Min(ends) - 1)>> \o from[Min(ends) + 1]
  IN from[1]

Values(n, v) ==
  IF n \in Ints THEN <<IntBytes(v)>>
  ELSE IF n \in Blocks THEN <<IntBytes(BlockInt(v))>>
  ELSE IF n \in Strings THEN Segments(v, Separator(n))
  ELSE IF n = Opt.Oscore THEN <<OscoreBytes(v)>>
  ELSE <<v>>

Field(delta, v) ==
  [delta |-> Extended(delta), length |-> Extended(Len(v)), value |-> v]

\* the fields of one option, delta after the one before
FieldsOf(delta, values) ==
  [i \in 1 .. Len(values) |-> Field(IF i = 1 THEN delta ELSE 0, values[i])]

\* the options ns, in the order of their numbers
FieldsInOrder(opts, ns) ==
  FlattenSeq([i \in DOMAIN ns |->
    FieldsOf(ns[i] - (IF i = 1 THEN 0 ELSE ns[i - 1]), Values(ns[i], opts[ns[i]]))])

\* coap_serialize_options
Fields(opts, inner, outer, oscore) ==
  FieldsInOrder(opts,
    SetToSortSeq({n \in DOMAIN opts :
                    \/ n = Opt.Observe
                    \/ n \in Inner /\ inner
                    \/ n \in Outer \cup {Opt.MaxAge} /\ outer
                    \/ n = Opt.Oscore /\ oscore /\ outer}, <))

SizeOf(fields) ==
  FoldLeft(LAMBDA z, f : z + 1 + Len(f.delta.more) + Len(f.length.more) + Len(f.value),
           0, fields)

NoMessage == [code |-> 0, fields |-> <<>>, payload |-> NoPayload, size |-> 0]

\* coap_oscore_serialize_message, oscore_serialize_plaintext
Message(p, fields, size, outer) ==
  LET body == [code |-> p.code, fields |-> fields, payload |-> p.payload, size |-> size]
      head == [type |-> p.type, mid |-> p.mid, token |-> p.token]
  IN IF size > MaxHeader THEN NoMessage
     ELSE IF ~outer THEN body
     ELSE IF p.code = 0 /\ p.token = <<>>
     THEN head @@ [body EXCEPT !.fields = <<>>, !.payload = NoPayload, !.size = 4]
     ELSE head @@ body

WithFields(p, fields, outer) ==
  Message(p, fields,
          SizeOf(fields) + (IF p.payload # NoPayload THEN 1 ELSE 0)
          + (IF outer THEN 4 + Len(p.token) ELSE 1), outer)

Serialized(p, inner, outer, oscore) ==
  WithFields(p, Fields(p.opts, inner, outer, oscore), outer)

-----------------------------------------------------------------------------
(* Reading. *)

\* coap_merge_multi_option
Merged(s, part, c) == IF s # <<>> THEN s \o <<c>> \o part ELSE part

Value(n, v, opts) ==
  IF n \in Ints THEN IntValue(v)
  ELSE IF n \in Blocks THEN BlockOf(IntValue(v))
  ELSE IF n \in Strings
  THEN Merged(IF n \in DOMAIN opts THEN opts[n] ELSE <<>>, v, Separator(n))
  ELSE IF n = Opt.Oscore THEN OscoreParsed(v)
  ELSE IF n = Opt.ETag THEN SubSeq(v, 1, Min({8, Len(v)}))
  ELSE v

\* coap_oscore_parse_options: whether option n may stand here
Refusal(n, v, inner, outer, oscore) ==
  IF \/ n \in Inner /\ ~inner
     \/ n \in Outer /\ ~outer
     \/ n = Opt.Oscore /\ ~(outer /\ oscore)
     \/ n = Opt.Echo /\ Len(v) > 40
     \/ n \notin Known /\ n % 2 = 1
  THEN Code.BadOption
  ELSE IF n = Opt.Accept /\ IntValue(v) \notin Accepts THEN Code.NotAcceptable
  ELSE 0

\* what is known of a message after the option n with value v, refused for r
ReadOption(s, n, v, r) ==
  [number |-> n, error |-> r,
   opts |-> IF r = 0 /\ n \in Known THEN (n :> Value(n, v, s.opts)) @@ s.opts ELSE s.opts]

Options(fields, inner, outer, oscore) ==
  LET Read1(s, n, v) == ReadOption(s, n, v, Refusal(n, v, inner, outer, oscore))
      Step(s, f) == IF s.error # 0 THEN s
                    ELSE Read1(s, s.number + Extracted(f.delta),
                               SubSeq(f.value, 1, Extracted(f.length)))
  IN FoldLeft(Step, [number |-> 0, error |-> 0, opts |-> <<>>], fields)

\* coap_udp_parse_message, oscore_parse_outer_message
PacketOf(m, o) ==
  [error |-> o.error,
   packet |-> [type |-> m.type, code |-> m.code, mid |-> m.mid, token |-> m.token,
               opts |-> o.opts, payload |-> m.payload]]
Parsed(m, inner, outer, oscore) == PacketOf(m, Options(m.fields, inner, outer, oscore))

\* oscore_is_oscore_message
IsOscore(m) ==
  LET Step(s, f) == LET n == s.number + Extracted(f.delta)
                    IN [number |-> n, found |-> s.found \/ n = Opt.Oscore]
  IN FoldLeft(Step, [number |-> 0, found |-> FALSE], m.fields).found
=============================================================================
