-------------------------------- MODULE Cbor --------------------------------
(***************************************************************************)
(* CBOR bodies (api/oc_rep.c, include/oc_rep.h): what the oc_rep_ macros   *)
(* write, the nodes oc_parse_rep makes of it, the search for an entry by   *)
(* key and type, what oc_free_rep frees and the JSON text of the nodes.    *)
(*                                                                         *)
(* An item has a key, a name or a number, if it is in a map; a type; a     *)
(* number n that is its value, of a string its length; and kids.  Nodes    *)
(* have the same shape.  The CBOR library is external; of a message that   *)
(* is cut the first item that is missing has the type "cut".               *)
(***************************************************************************)
EXTENDS Integers, Sequences, SequencesExt

CONSTANTS
  MaxBody,     \* OC_MAX_APP_DATA_SIZE, scaled
  MaxItem      \* the longest item of an array of strings

Named(s) == [name |-> s, iname |-> -1]
Numbered(i) == [name |-> "", iname |-> i]
NoKey == Named("")

Item(key, type, n, kids, size) ==
  [name |-> key.name, iname |-> key.iname, type |-> type, n |-> n, kids |-> kids,
   size |-> size]

-----------------------------------------------------------------------------
(* Writing: the oc_rep_ macros, with the size of what they write *)

\* external: the head of an integer, a string or a container
HeadSize(n) == IF n < 24 THEN 1 ELSE IF n < 256 THEN 2 ELSE 3

KeySize(key) ==
  IF key.name # "" THEN HeadSize(Len(key.name)) + Len(key.name)
  ELSE IF key.iname >= 0 THEN HeadSize(key.iname) ELSE 0

Sizes(items) == FoldLeft(LAMBDA sum, x : sum + x.size, 0, items)

\* oc_rep_set_int, _boolean, _float, _double
Number(key, type, n) ==
  Item(key, type, n, <<>>,
       KeySize(key) + CASE type = "bool" -> 1
                        [] type = "float" -> 5
                        [] type = "double" -> 9
                        [] OTHER -> HeadSize(n))

\* oc_rep_set_text_string, _byte_string
Str(key, type, n) == Item(key, type, n, <<>>, KeySize(key) + HeadSize(n) + n)

Scalar(key, type, n) ==
  IF type \in {"text", "bytes"} THEN Str(key, type, n) ELSE Number(key, type, n)

\* oc_rep_add_int and its like
Added(type, ns) == [k \in DOMAIN ns |-> Scalar(NoKey, type, ns[k])]

\* oc_rep_set_int_array, _bool_array, _float_array, _double_array
Counted(key, type, ns) ==
  Item(key, "array", 0, Added(type, ns),
       KeySize(key) + HeadSize(Len(ns)) + Sizes(Added(type, ns)))

\* oc_rep_open_array
Opened(key, items) == Item(key, "array", 0, items, KeySize(key) + 2 + Sizes(items))

\* oc_rep_set_string_array: empty items are not written
Texts(key, ns) == Opened(key, Added("text", SelectSeq(ns, LAMBDA n : n > 0)))

\* oc_rep_open_object, oc_rep_object_array_begin_item, oc_rep_begin_root_object
Object(key, kids) == Item(key, "map", 0, kids, KeySize(key) + 2 + Sizes(kids))
Root(kids) == Object(NoKey, kids)

\* oc_send_cbor_response: a body that was too long is not sent, the code is
Sendable(body) == body.size <= MaxBody

-----------------------------------------------------------------------------
(* Reading: oc_parse_rep *)

RECURSIVE HasCut(_)
HasCut(item) == item.type = "cut" \/ \E k \in DOMAIN item.kids : HasCut(item.kids[k])

Node(item, type, kids) ==
  [name |-> item.name, iname |-> item.iname, type |-> type, n |-> item.n, kids |-> kids]

Null == Item(NoKey, "null", 0, <<>>, 1)

\* what a part of the parser returns: its node, or its list of nodes, the error,
\* and what it has allocated
Parsed(node, err, nodes, blocks) ==
  [node |-> node, err |-> err, nodes |-> nodes, blocks |-> blocks]
Begun == Parsed(<<>>, FALSE, 0, 0)
Joined(done, p, err) ==
  Parsed(Append(done.node, p.node), err, done.nodes + p.nodes, done.blocks + p.blocks)

ScalarTypes == {"int", "bool", "float", "double"}
ArrayOf == [int |-> "ints", bool |-> "bools", float |-> "floats", double |-> "doubles",
            text |-> "texts", bytes |-> "byteses"]

\* the type of an array, from the types of its items; null is not looked at
ElementType(items) ==
  FoldLeft(LAMBDA t, x :
             IF x.type \notin DOMAIN ArrayOf \cup {"map", "array"} THEN t
             ELSE IF t \in {"nil", x.type} THEN x.type ELSE "mixed", "nil", items)

\* an item that is too long is lost
Kept(item) == [item EXCEPT !.n = IF item.type \in {"text", "bytes"} /\ @ > MaxItem
                                 THEN 0 ELSE @]

\* _oc_mmem_alloc: the case of floats runs into that of doubles, which forgets the
\* block it has
ArrayBlocks(type) == IF type = "float" THEN 2 ELSE 1

NameBlocks(item) == IF item.name # "" THEN 1 ELSE 0

RECURSIVE ParseEntity(_)

\* oc_parse_rep_value: a key and a value; tags are skipped
ParseMember(item) ==
  IF item.type = "cut" \/ item.name = "not a key"
  THEN Parsed(Node(item, "nil", <<>>), TRUE, 1, 0)
  ELSE LET value == IF item.type = "tag"
                    THEN [item EXCEPT !.type = item.kids[1].type, !.n = item.kids[1].n,
                                      !.kids = item.kids[1].kids]
                    ELSE item
           p == ParseEntity(value)
       IN  [p EXCEPT !.blocks = @ + NameBlocks(item)]

\* oc_parse_rep_value_object: the node is an object once all its entries are read
ParseObject(item) ==
  LET all == FoldLeft(LAMBDA done, x :
                        IF done.err THEN done
                        ELSE LET p == ParseMember(x) IN Joined(done, p, p.err),
                      Begun, item.kids)
  IN  Parsed(IF all.err THEN Node(item, "nil", <<>>) ELSE Node(item, "object", all.node),
             all.err, all.nodes + 1, all.blocks)

\* oc_parse_rep_value_array: an error in an item is forgotten when the next one is
\* reached, which only fails where the message is cut; the first object has its
\* node before it is known to be one
ParseArray(item) ==
  LET type == ElementType(item.kids)
      same == \A k \in DOMAIN item.kids : item.kids[k].type = type
      each == FoldLeft(LAMBDA done, x :
                         IF type = "map" /\ (done.err \/ x.type # "map")
                         THEN [done EXCEPT !.err = TRUE]
                         ELSE Joined(done, ParseEntity(x), FALSE), Begun, item.kids)
  IN  IF HasCut(item) THEN Parsed(Node(item, "nil", <<>>), TRUE, 1, 0)
      ELSE IF item.kids = <<>> THEN Parsed(Node(item, "nil", <<>>), FALSE, 1, 0)
      ELSE IF type \in DOMAIN ArrayOf
      THEN Parsed(Node(item, ArrayOf[type], [k \in DOMAIN item.kids |-> Kept(item.kids[k])]),
                  ~same, 1, ArrayBlocks(type))
      ELSE IF type = "map"
      THEN IF each.node = <<>>
           THEN Parsed(Node(item, "objects", <<Node(Null, "nil", <<>>)>>), TRUE, 2, 0)
           ELSE Parsed(Node(item, "objects", each.node), each.err, each.nodes + 1,
                       each.blocks)
      ELSE Parsed(Node(item, "mixed", each.node), FALSE, each.nodes + 1, each.blocks)

\* oc_parse_single_entity
ParseEntity(item) ==
  CASE item.type = "map" -> ParseObject(item)
    [] item.type = "array" -> ParseArray(item)
    [] item.type \in ScalarTypes -> Parsed(Node(item, item.type, <<>>), FALSE, 1, 0)
    [] item.type \in {"text", "bytes"} ->
         Parsed(Node(item, item.type, <<>>), FALSE, 1, 1)
    [] OTHER -> Parsed(Node(item, "nil", <<>>), FALSE, 1, 0)

\* mutant: the outermost container is not freed
ParseKept(message) ==
  LET p == ParseEntity(message)
  IN  [p EXCEPT !.node = IF @.type \in {"object", "objects", "mixed"} THEN @.kids
                         ELSE <<@>>]

\* oc_parse_rep: the outermost container is freed, what it holds is the list
Parse(message) ==
  LET p == ParseEntity(message)
  IN  IF p.node.type \in {"object", "objects", "mixed"}
      THEN [p EXCEPT !.node = p.node.kids, !.nodes = @ - 1]
      ELSE [p EXCEPT !.node = <<p.node>>]

\* oc_free_rep
RECURSIVE Freed(_)
Freed(nodes) ==
  FoldLeft(LAMBDA sum, x :
     LET below == IF x.type \in {"object", "objects", "mixed"} THEN Freed(x.kids)
                  ELSE [nodes |-> 0, blocks |-> 0]
         own == IF x.type \in ScalarTypes \cup {"nil", "object", "objects", "mixed"}
                THEN 0 ELSE 1
     IN [nodes |-> sum.nodes + below.nodes + 1,
         blocks |-> sum.blocks + below.blocks + own + NameBlocks(x)],
     [nodes |-> 0, blocks |-> 0], nodes)

\* nothing is missing and every key is a name or a number
RECURSIVE Readable(_)
Readable(item) ==
  /\ item.type # "cut" /\ item.name # "not a key"
  /\ \A k \in DOMAIN item.kids : Readable(item.kids[k])

RECURSIVE FloatArrays(_)
FloatArrays(item) ==
  FoldLeft(LAMBDA sum, x : sum + FloatArrays(x), 0, item.kids)
    + IF item.type = "array" /\ ElementType(item.kids) = "float" /\ ~HasCut(item)
      THEN 1 ELSE 0

\* oc_rep_get_value, oc_rep_i_get_value: the first entry with the key and the type
Has(x, key, type) ==
  (IF key.name # "" THEN x.name = key.name ELSE x.iname = key.iname) /\ x.type = type
Get(nodes, key, type) ==
  SelectSeq(nodes, LAMBDA x : Has(x, key, type))

-----------------------------------------------------------------------------
(* Printing: oc_rep_to_json.  A piece has the length it is written with and  *)
(* the length it is counted with when there is no room for it.               *)

\* oc_rep_to_json_base64_encoded_byte_string
B64Counted(n) == (n \div 3) * 4 + IF n % 3 # 0 THEN 4 ELSE 0

\* oc_base64_encode
B64Written(n) == 4 * ((n + 2) \div 3)

Text(n) == <<[len |-> n, counted |-> n, b64 |-> FALSE]>>
Base64(n) ==
  Text(1) \o <<[len |-> B64Written(n), counted |-> B64Counted(n), b64 |-> TRUE]>>
    \o Text(1)
\* a piece that is there, or longer, for a reader
If(cond, pieces) == IF cond THEN pieces ELSE <<>>
Either(pretty, a, b) == Text(IF pretty THEN a ELSE b)
Tab(pretty, depth) == If(pretty, Text(2 * depth))

Digits(n) == IF n < 10 THEN 1 ELSE IF n < 100 THEN 2 ELSE 3
Label(x, pretty) ==
  IF x.name # "" THEN Either(pretty, Len(x.name) + 5, Len(x.name) + 3)
  ELSE If(x.iname >= 0, Either(pretty, Digits(x.iname) + 5, Digits(x.iname) + 3))

Single(type, n) ==
  CASE type = "nil" -> Text(4)
    [] type = "int" -> Text(Digits(n))
    [] type = "bool" -> Text(IF n = 1 THEN 4 ELSE 5)
    [] type \in {"float", "double"} -> Text(Digits(n) + 7)
    [] type = "text" -> Text(n + 2)
    [] type = "bytes" -> Base64(n)
    [] OTHER -> <<>>

RECURSIVE Json(_, _, _)

\* arrays of numbers go on one line, arrays of strings on one for each
Numbers(x, pretty) ==
  Text(1) \o FlattenSeq([k \in DOMAIN x.kids |->
      Single(x.kids[k].type, x.kids[k].n) \o If(k < Len(x.kids), Either(pretty, 2, 1))])
    \o Text(1)
Strings(x, depth, pretty) ==
  Either(pretty, 2, 1) \o FlattenSeq([k \in DOMAIN x.kids |->
      Tab(pretty, depth + 2) \o Single(x.kids[k].type, x.kids[k].n)
        \o IF k < Len(x.kids) THEN Either(pretty, 2, 1) ELSE If(pretty, Text(1))])
    \o Tab(pretty, depth + 1) \o Text(1)
Objects(x, depth, pretty) ==
  Text(1) \o If(pretty, Text(1)) \o FlattenSeq([k \in DOMAIN x.kids |->
      Tab(pretty, depth + 2) \o Either(pretty, 2, 1)
        \o Json(x.kids[k].kids, depth + 2, pretty)
        \o If(k < Len(x.kids), Tab(pretty, depth + 2) \o Either(pretty, 3, 2))])
    \o Tab(pretty, depth + 2) \o Text(2)

\* oc_rep_to_json_format
JsonValue(x, depth, pretty) ==
  CASE x.type = "object" -> Either(pretty, 2, 1) \o Json(x.kids, depth + 1, pretty)
                              \o Tab(pretty, depth + 1) \o Text(1)
    [] x.type \in {"texts", "byteses"} -> Strings(x, depth, pretty)
    [] x.type \in {"ints", "bools", "floats", "doubles"} -> Numbers(x, pretty)
    [] x.type = "objects" -> Objects(x, depth, pretty)
    [] x.type = "mixed" ->
         Text(1) \o If(pretty, Text(1)) \o Json(x.kids, depth + 2, pretty)
           \o Tab(pretty, depth + 2) \o Text(1)
    [] OTHER -> Single(x.type, x.n)
Json(nodes, depth, pretty) ==
  FlattenSeq([k \in DOMAIN nodes |->
    Tab(pretty, depth + 1) \o Label(nodes[k], pretty)
      \o JsonValue(nodes[k], depth, pretty)
      \o If(k < Len(nodes), Text(1)) \o If(pretty, Text(1))])
Whole(nodes, pretty) ==
  Either(pretty, 2, 1) \o Json(nodes, 0, pretty) \o Either(pretty, 2, 1)

\* OC_JSON_UPDATE_BUFFER_AND_TOTAL: a piece that does not fit is the last one
Printed(pieces, size) ==
  FoldLeft(LAMBDA s, p :
    IF p.b64 /\ s.left <= p.counted + 1
    THEN [left |-> 0, out |-> s.out, total |-> s.total + p.counted]
    ELSE IF p.len < s.left
    THEN [left |-> s.left - p.len, out |-> s.out + p.len, total |-> s.total + p.len]
    ELSE [left |-> 0, out |-> s.out + IF s.left > 0 THEN s.left - 1 ELSE 0,
          total |-> s.total + p.len],
    [left |-> size, out |-> 0, total |-> 0], pieces)
=============================================================================
