--------------------------- MODULE AccessControl ---------------------------
(***************************************************************************)
(* Who may do what: interfaces, scopes and the check made before a handler *)
(* runs (api/oc_knx_sec.c, api/oc_ri.c).  Interfaces are written without   *)
(* "if.".  A scope is kept as an integer with a bit for every interface,   *)
(* and the interfaces of a posted list are added, not joined.              *)
(***************************************************************************)
EXTENDS Integers, Sequences, SequencesExt

\* oc_interface_mask_t
Bit ==
  [i |-> 1, o |-> 2, g |-> 3, c |-> 4, p |-> 5, d |-> 6, a |-> 7, s |-> 8,
   ll |-> 9, b |-> 10, sec |-> 11, swu |-> 12, pm |-> 13, m |-> 14]
Interfaces == DOMAIN Bit

InterfacesOf(mask) == {x \in Interfaces : (mask \div 2 ^ Bit[x]) % 2 = 1}

\* oc_ri_get_interface_mask; a manufacturer's interface has no text
Mask(text) == IF text \in Interfaces \ {"m"} THEN 2 ^ Bit[text] ELSE 0

\* the scope of a posted list, -1 when it is refused
Scope(texts) ==
  IF "ll" \in Range(texts) THEN -1
  ELSE FoldLeft(LAMBDA m, t : m + Mask(t), 0, texts)

\* the interfaces that are told of a scope, in the answer about a token
\* (oc_get_interface_in_mask_in_string_array), of a resource, in a link
\* (oc_frame_interfaces_mask_in_response) and in CBOR
\* (oc_core_encode_interfaces_mask); a manufacturer's is never told
Shown(mask) == InterfacesOf(mask) \ {"m"}
Framed(mask) == {x \in Interfaces \ {"m"} : x \in InterfacesOf(mask)}
Encoded(mask) == {x \in InterfacesOf(mask) : Bit[x] <= Bit["pm"]}

Methods == {"GET", "PUT", "POST", "DELETE"}

\* oc_if_method_allowed_according_to_mask
MethodsOf ==
  [i |-> {"GET", "POST", "PUT"}, o |-> {"GET", "POST"}, g |-> {"POST"},
   c |-> Methods, p |-> {"GET", "PUT"}, d |-> {"GET"},
   a |-> {"GET", "PUT", "POST"}, s |-> {"GET"}, ll |-> {"GET"},
   b |-> {"GET", "PUT", "POST"}, sec |-> Methods, swu |-> Methods,
   pm |-> {"GET"}, m |-> Methods]

\* oc_is_resource_secure denies it
Public(method, uri) ==
  \/ method = "GET" /\ uri \in {"/.well-known/core", "/.well-known/knx",
                               "/.well-known/knx/osn"}
  \/ method = "POST" /\ uri = "/.well-known/knx/spake"

\* mutant: the interfaces of the caller are not looked at
AnyToken(caller, method, uri, ifs) ==
  \/ Public(method, uri)
  \/ /\ caller.oscore /\ caller.decrypted
     /\ \E x \in ifs : method \in MethodsOf[x]

\* method_allowed: one interface of the token is the resource's, and any
\* interface of the resource has the method.  Every context is a token's.
Allowed(caller, method, uri, ifs) ==
  \/ Public(method, uri)
  \/ /\ caller.oscore /\ caller.decrypted
     /\ InterfacesOf(caller.scope) \cap ifs # {}
     /\ \E x \in ifs : method \in MethodsOf[x]
=============================================================================
