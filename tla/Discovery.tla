------------------------------ MODULE Discovery ------------------------------
(***************************************************************************)
(* Finding devices by a question to all of them (/.well-known/core over    *)
(* multicast, api/oc_discovery.c and api/oc_client_api.c), and the unicast *)
(* half of sending a value, which finds its receivers that way             *)
(* (api/oc_knx_client.c): an individual address is asked for with all      *)
(* multicast scopes and every answer is sent the value.                    *)
(*                                                                         *)
(* An address is asked for as text, so texts are modelled: sequences of    *)
(* hexadecimal digits and the dot.  The network loses, repeats and delays: *)
(* what was asked or answered stays on the wire.  Devices change between.  *)
(***************************************************************************)
EXTENDS Integers, Sequences, SequencesExt, FiniteSets

CONSTANTS
  Devices,      \* devices and what they start with
  IdDigits,     \* how many digits of an installation id are compared: 10
  MaxDigits,    \* digits of the largest number: 16
  Addresses,    \* individual addresses a device may be given
  Sender,       \* the installation of the device that sends
  Recipients,   \* its recipient table: [ia, path, groups] of every entry
  Scopes,       \* the multicast scopes asked: 2, 3, 5
  Questions,    \* what else a client may ask
  MaxAsked,     \* bound on the questions asked
  MaxChanges    \* bound on the changes of devices

VARIABLES
  device,    \* device -> what it is: names, mode, load state, groups
  asked,     \* the questions on the wire
  answers,   \* the answers on the wire, with the device as it answered
  data,      \* cb_data by the entry it is for: "none", "live" or "freed"
  sent,      \* the values sent to those who answered
  moves      \* how often a device changed

vars == <<device, asked, answers, data, sent, moves>>

None == "none"
Wild == "*"
AnyGroup == -1
Dot == 16

-----------------------------------------------------------------------------
(* Texts *)

Nibbles(n) == [i \in 1 .. MaxDigits |-> (n \div 16 ^ (MaxDigits - i)) % 16]

\* oc_conv_uint64_to_hex_string: without leading zeros, and 0 as one
Hex(n) ==
  IF n = 0 THEN <<0>>
  ELSE SubSeq(Nibbles(n), CHOOSE i \in 1 .. MaxDigits :
                /\ Nibbles(n)[i] # 0
                /\ \A j \in 1 .. i - 1 : Nibbles(n)[j] = 0,
              MaxDigits)

\* strtol: the digits before the first that is none
ParsedHex(s) ==
  FoldLeft(LAMBDA acc, c : IF acc.open /\ c # Dot
                           THEN [acc EXCEPT !.value = @ * 16 + c]
                           ELSE [acc EXCEPT !.open = FALSE],
           [value |-> 0, open |-> TRUE], s).value

\* "<iid>.<ia>" as a sender asks for it
AddressText(iid, ia) == Hex(iid) \o <<Dot>> \o Hex(ia)

\* strncmp with a number of characters
SameStart(s, t, n) ==
  SubSeq(s, 1, IF Len(s) < n THEN Len(s) ELSE n)
    = SubSeq(t, 1, IF Len(t) < n THEN Len(t) ELSE n)

-----------------------------------------------------------------------------
(* A device *)

\* the address is read where it is if the installation id has all its digits
AskedAddress(text) == ParsedHex(SubSeq(text, IdDigits + 2, Len(text)))

HasAddress(d, text) ==
  /\ AskedAddress(text) = device[d].ia
  /\ SameStart(Hex(device[d].iid), text, IdDigits)

HasSerial(d, sn) == sn \in {Wild, device[d].sn}

\* oc_add_points_in_group_object_table_to_response, for a device that is loaded
GroupAnswer(d, ga) ==
  IF ~device[d].loaded \/ ga = AnyGroup THEN "bad request"
  ELSE IF ga \in device[d].groups THEN "points" ELSE "nothing"

\* a serial number asked for as well is first compared without the wildcard
ProgrammingAnswer(d, sn) ==
  IF ~device[d].pm THEN "not found"
  ELSE IF sn = None THEN "named"
  ELSE IF sn = device[d].sn THEN "named" ELSE "not found"

\* oc_wkcore_discovery_handler; "nothing" is an empty list
Answer(d, q, multicast) ==
  CASE q.kind = "any" -> IF multicast THEN "named" ELSE "list"
    [] q.kind = "group" -> GroupAnswer(d, q.group)
    [] q.kind = "programming" -> ProgrammingAnswer(d, q.sn)
    [] q.kind = "address 1.0" -> IF q.ia = device[d].ia THEN "links" ELSE "ignored"
    [] q.kind = "address" -> IF HasAddress(d, q.text) THEN "named" ELSE "ignored"
    [] q.kind = "serial" -> IF HasSerial(d, q.sn) THEN "named" ELSE "ignored"
    [] OTHER -> "list"

\* what a multicast question is not answered with
Silent == {"bad request", "not found", "nothing"}

Hear(d, m) ==
  /\ m \in asked
  /\ m.to \in {None, d}
  /\ \E what \in {Answer(d, m.q, m.scope # 0)} :
       answers' = IF what = "ignored" \/ (m.scope # 0 /\ what \in Silent) THEN answers
                  ELSE answers \cup
                         {[from |-> d, to |-> m, what |-> what, as |-> device[d]]}
  /\ UNCHANGED <<device, asked, data, sent, moves>>

\* what happens to a device otherwise: it is numbered, switched, loaded
Change(d) ==
  /\ moves < MaxChanges
  /\ moves' = moves + 1
  /\ \/ \E ia \in Addresses : device' = [device EXCEPT ![d].ia = ia]
     \/ device' = [device EXCEPT ![d].pm = ~@]
     \/ device' = [device EXCEPT ![d].loaded = ~@]
  /\ UNCHANGED <<asked, answers, data, sent>>

-----------------------------------------------------------------------------
(* A client *)

\* oc_do_wk_discovery_all, or a GET of one device: scope 0 and its name
Ask(q, scope, to) ==
  /\ Cardinality(asked) < MaxAsked
  /\ (scope = 0) <=> (to # None)
  /\ asked' = asked \cup {[q |-> q, scope |-> scope, to |-> to, for |-> 0]}
  /\ UNCHANGED <<device, answers, data, sent, moves>>

\* the entries a value for a group goes to; a reserved address is passed over
RecipientsOf(ga) ==
  {r \in DOMAIN Recipients : ga \in Recipients[r].groups /\ Recipients[r].ia > 0}

\* oc_knx_client_do_broker_request: one question with every scope
Question(r, scope) ==
  [q |-> [kind |-> "address", text |-> AddressText(Sender, Recipients[r].ia)],
   scope |-> scope, to |-> None, for |-> r]

\* the unicast part of oc_do_s_mode_with_scope_and_check
SendToRecipients(ga) ==
  /\ Cardinality(asked) < MaxAsked
  /\ \A r \in RecipientsOf(ga) : data[r] = "none"
  /\ data' = [r \in DOMAIN data |-> IF r \in RecipientsOf(ga) THEN "live" ELSE data[r]]
  /\ asked' = asked \cup {Question(r, scope) : r \in RecipientsOf(ga), scope \in Scopes}
  /\ UNCHANGED <<device, answers, sent, moves>>

\* discovery_ia_cb.  The first answer frees what the answers to the questions
\* with the other scopes, or of another device, use again: the value is sent
\* as before, or anything happens that sends none.
ClientHears(a) ==
  /\ a \in answers
  /\ a.to.for # 0
  /\ \/ sent' = sent \cup {[to |-> a.from, path |-> Recipients[a.to.for].path,
                            for |-> a.to.for, as |-> a.as]}
     \/ data[a.to.for] = "freed" /\ sent' = sent
  /\ data' = [data EXCEPT ![a.to.for] = "freed"]
  /\ UNCHANGED <<device, asked, answers, moves>>

-----------------------------------------------------------------------------

Init ==
  /\ device = Devices
  /\ asked = {}
  /\ answers = {}
  /\ data = [r \in DOMAIN Recipients |-> "none"]
  /\ sent = {}
  /\ moves = 0

Next ==
  \/ \E d \in DOMAIN device : Change(d)
  \/ \E d \in DOMAIN device, m \in asked : Hear(d, m)
  \/ \E q \in Questions, scope \in Scopes \cup {0}, to \in DOMAIN device \cup {None} :
       Ask(q, scope, to)
  \/ \E r \in DOMAIN Recipients : \E ga \in Recipients[r].groups : SendToRecipients(ga)
  \/ \E a \in answers : ClientHears(a)

Spec == Init /\ [][Next]_vars

-----------------------------------------------------------------------------
(* Properties *)

\* The values the variables take.
TypeOK ==
  /\ DOMAIN device = DOMAIN Devices
  /\ \A d \in DOMAIN device :
       device[d].ia \in Addresses /\ {device[d].pm, device[d].loaded} \subseteq BOOLEAN
  /\ data \in [DOMAIN Recipients -> {"none", "live", "freed"}]
  /\ \A a \in answers : a.from \in DOMAIN device /\ a.to \in asked
  /\ \A v \in sent : v.to \in DOMAIN device /\ v.for \in DOMAIN Recipients
  /\ moves \in 0 .. MaxChanges

\* who is meant by a question
Meant(q, as) ==
  CASE q.kind = "group" -> as.loaded /\ q.group \in as.groups
    [] q.kind = "programming" -> as.pm /\ q.sn \in {None, as.sn}
    [] q.kind = "address 1.0" -> as.ia = q.ia
    [] q.kind = "address" -> q.text = AddressText(as.iid, as.ia)
    [] q.kind = "serial" -> q.sn \in {Wild, as.sn}
    [] OTHER -> TRUE

\* A question to all is answered by those it means, as they are when they hear
\* it ("note below layer ignores this message if it is a multi cast request",
\* oc_wkcore_discovery_handler), although texts are cut and compared in part.
AnsweredByMeant == \A a \in answers : a.to.scope # 0 => Meant(a.to.q, a.as)

\* A device whose installation id has all its digits finds its own address in a
\* question for it.
FoundByAddress ==
  \A m \in asked, d \in DOMAIN device :
    /\ m.q.kind = "address"
    /\ Len(Hex(device[d].iid)) = IdDigits
    /\ m.q.text = AddressText(device[d].iid, device[d].ia)
    => Answer(d, m.q, TRUE) = "named"

\* A value goes to a device that had the address of the recipient table, in the
\* installation of the sender, and to the path of that entry
\* (oc_knx_client_do_broker_request, discovery_ia_cb).
ValuesToRecipients ==
  \A v \in sent : /\ v.as.ia = Recipients[v.for].ia
                  /\ v.as.iid = Sender
                  /\ v.path = Recipients[v.for].path
=============================================================================
