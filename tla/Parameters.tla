----------------------------- MODULE Parameters -----------------------------
(***************************************************************************)
(* Parameters written by a POST on /p (api/oc_knx_p.c): a list of objects, *)
(* each with the path of a resource of the application and a value, in any *)
(* order and among other entries.  The resources and their PUT handlers    *)
(* are the application's; one refuses some values.                         *)
(***************************************************************************)
EXTENDS Integers, Sequences, SequencesExt

CONSTANTS
  Params,    \* the resources of the application
  NewValues, \* what is written
  Refused,   \* the values their handlers refuse
  Objects,   \* sequences of entries [key, data] a client puts in a list
  MaxPosts   \* bound on the requests

VARIABLES
  values,  \* Params -> value
  calls,   \* how often a handler was called
  posted,  \* the last list, with its answer and the values before it
  posts    \* how many requests there were

vars == <<values, calls, posted, posts>>

Href == 11
Value == 1
Initial == "initial"

Init ==
  /\ values = [p \in Params |-> Initial]
  /\ calls = 0
  /\ posted = [list |-> <<>>, code |-> "none", before |-> values]
  /\ posts = 0

\* oc_belongs_href_to_resource
Belongs(path) == path \in Params

\* the put_handler of the resource, external
Handed(vals, path, v) ==
  IF path \in Params /\ v \notin Refused THEN [vals EXCEPT ![path] = v] ELSE vals

\* what is known of an object after some of its entries
Seen == [path |-> <<>>, value |-> <<>>]
See(seen, entry) ==
  CASE entry.key = Href -> [seen EXCEPT !.path = <<entry.data>>]
    [] entry.key = Value -> [seen EXCEPT !.value = <<entry.data>>]
    [] OTHER -> seen
Complete(seen) == seen.path # <<>> /\ seen.value # <<>>

\* what the list does: the handler is called with every entry of an object from
\* the one on that makes it complete
Step(done, entry) ==
  LET seen == See(done.seen, entry)
  IN  IF ~Complete(seen) THEN [done EXCEPT !.seen = seen]
      ELSE [seen |-> seen, calls |-> done.calls + 1,
            values |-> Handed(done.values, seen.path[1], seen.value[1])]

Object(done, object) == FoldLeft(Step, [done EXCEPT !.seen = Seen], object)

\* oc_core_p_post_handler: nothing is handed on if one path is unknown, and what
\* the handlers answer is not looked at
Post(list) ==
  /\ posts < MaxPosts
  /\ posts' = posts + 1
  /\ IF \E k \in DOMAIN list : \E j \in DOMAIN list[k] :
          list[k][j].key = Href /\ ~Belongs(list[k][j].data)
     THEN /\ posted' = [list |-> list, code |-> "5.00", before |-> values]
          /\ UNCHANGED <<values, calls>>
     ELSE \E done \in {FoldLeft(Object, [seen |-> Seen, calls |-> calls,
                                         values |-> values], list)} :
          /\ values' = done.values
          /\ calls' = done.calls
          /\ posted' = [list |-> list, code |-> "2.04", before |-> values]

Done == posts = MaxPosts /\ UNCHANGED vars

Next == (\E a, b \in Objects : Post(<<a, b>>)) \/ Done

Spec == Init /\ [][Next]_vars

-----------------------------------------------------------------------------
(* Properties *)

\* The values the variables take.
TypeOK ==
  /\ values \in [Params -> NewValues \cup {Initial}]
  /\ calls \in Nat
  /\ posted.code \in {"none", "5.00", "2.04"}
  /\ posts \in 0 .. MaxPosts

Datum(object, key) ==
  {object[k].data : k \in {j \in DOMAIN object : object[j].key = key}}

\* the values a list has for a parameter, in order
ValuesFor(list, p) ==
  FlattenSeq([k \in DOMAIN list |->
    IF Datum(list[k], Href) = {p}
    THEN SetToSeq(Datum(list[k], Value) \ Refused) ELSE <<>>])

\* After a list was accepted every parameter has the last value the list has for
\* it, and the others are as they were; a refused list has changed nothing
\* (oc_core_p_post_handler).
ParametersAsPosted ==
  \A p \in Params :
    values[p] = IF posted.code # "2.04" \/ ValuesFor(posted.list, p) = <<>>
                THEN posted.before[p]
                ELSE Last(ValuesFor(posted.list, p))

\* What is not so: a handler is called once for an object; entries after path and
\* value call it again with the same value.
HandedOnce ==
  posted.code = "2.04" /\ posts = 1 => calls <= Len(posted.list)
=============================================================================
