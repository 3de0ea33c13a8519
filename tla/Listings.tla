------------------------------ MODULE Listings ------------------------------
(***************************************************************************)
(* The lists a device answers in link format, page by page, and a client   *)
(* that reads one of them while the tables and resources change: the group *)
(* tables (api/oc_knx_fp.c), the access tokens (api/oc_knx_sec.c), the     *)
(* resources below /dev, /ap, /swu, /auth and /auth/o, the parameters      *)
(* (api/oc_knx_p.c), the functional blocks and their data points           *)
(* (api/oc_knx_fb.c) and /.well-known/core (api/oc_discovery.c).           *)
(*                                                                         *)
(* A resource is a name with what the lists ask of it: whether it is       *)
(* discoverable, its types, its first interface and the instance of its    *)
(* functional block.  A type has a name and, if it is the one of a data    *)
(* point, the number of its block.  The wording of a link is left out.     *)
(***************************************************************************)
EXTENDS Integers, Sequences, SequencesExt, FiniteSets

CONSTANTS
  PageSize,    \* PAGE_SIZE
  NumSlots,    \* GOT_MAX_ENTRIES and its like, G_AT_MAX_ENTRIES
  Ids,         \* ids of entries
  Res,         \* name of a resource -> [disc, types, iface, inst]
  AppNames,    \* the resources the application may add
  CoreLists,   \* "/dev", ... -> the names of the resources in its range
  Basic,       \* basic_resources[]
  Links,       \* "/f/7", "/f/7_1", ... -> <<block, instance>>
  Filters,     \* the queries [rt, if] of a client
  IfPrefixes,  \* <<i, j>>: the interface j begins with i
  Topics,      \* the lists clients read
  MaxChanges   \* bound on the changes of tables and resources

VARIABLES
  topic,    \* the list that is read, for good
  table,    \* the slots of a group table or of the access tokens
  apps,     \* the list app_resources
  blocks,   \* g_int_array, g_nr_functional_blocks
  walk,     \* what the client knows of the list it is reading
  changes   \* how often table or apps changed

vars == <<topic, table, apps, blocks, walk, changes>>

Free == "free"
None == "none"
Wild == "*"
Unfiltered == [rt |-> None, if |-> None]

SlotTopics == {"/fp/g", "/fp/p", "/fp/r"}
CoreTopics == {"/dev", "/ap", "/swu", "/auth", "/auth/o"}

\* stayers are the entries that were there all the time, gone those whose links
\* were not answered with an entry
Walk == [status : {"idle", "reading", "done", "failed"}, filter : Filters,
         page : Nat, seen : Seq(Ids \cup DOMAIN Res \cup DOMAIN Links),
         total : Nat \cup {-1}, quiet : BOOLEAN, stayers : SUBSET Ids, gone : SUBSET Ids]

Idle == [status |-> "idle", filter |-> Unfiltered, page |-> 0, seen |-> <<>>,
         total |-> -1, quiet |-> TRUE, stayers |-> {}, gone |-> {}]

Init ==
  /\ topic \in Topics
  /\ table = [s \in 1 .. NumSlots |-> Free]
  /\ apps = <<>>
  /\ blocks = [list |-> <<>>, count |-> 0]
  /\ walk = Idle
  /\ changes = 0

-----------------------------------------------------------------------------
(* Resources and filters *)

Taken(slots) == SelectSeq(slots, LAMBDA e : e # Free)
FromSlot(slots, first) == SubSeq(slots, first + 1, Len(slots))
Window(s, first) == SubSeq(s, first + 1, IF Len(s) < first + PageSize
                                         THEN Len(s) ELSE first + PageSize)

\* oc_filter_resource_by_rt; without a type there is nothing a wildcard matches
MatchesType(r, rt) ==
  \/ rt = None
  \/ rt = Wild /\ Res[r].types # <<>>
  \/ \E t \in Range(Res[r].types) : t.rt = rt

\* oc_filter_resource_by_if compares the first interface of a resource, as far
\* as the query goes
MatchesInterface(r, if) ==
  \/ if \in {None, Wild, Res[r].iface}
  \/ <<if, Res[r].iface>> \in IfPrefixes

\* oc_filter_resource, before it counts what it skips
Selected(r, f) ==
  MatchesType(r, f.rt) /\ MatchesInterface(r, f.if) /\ Res[r].disc

\* oc_filter_functional_blocks: a query for any block is one for all
BlocksSelected(f) ==
  f = Unfiltered \/ f.rt \in {Wild, "fb"} \/ f.if \in {Wild, "ll"}

Discoverable(s) == SelectSeq(s, LAMBDA r : Res[r].disc)

\* the blocks of the data points of a resource, 11 the one of a router
BlocksOf(r) ==
  LET dpas == SelectSeq(Res[r].types, LAMBDA t : t.block > 0)
  IN  [i \in DOMAIN dpas |-> <<dpas[i].block, Res[r].inst>>]

AllBlocks(s) == FlattenSeq([i \in DOMAIN s |-> BlocksOf(s[i])])

Router == <<11, 0>>
IsRouter(b) == b[1] = 11

\* mutant: a block is stored for every data point
StoredAgain(list, s) ==
  list \o SelectSeq(AllBlocks(Discoverable(s)), LAMBDA b : ~IsRouter(b))

\* store_in_array for every block that is not there yet
Stored(list, s) ==
  FoldLeft(LAMBDA l, b : IF IsRouter(b) \/ b \in Range(l) THEN l ELSE Append(l, b),
           list, AllBlocks(Discoverable(s)))

\* how a block is listed
Link(b) == CHOOSE n \in DOMAIN Links : Links[n] = b
LinksTo(s) == [i \in DOMAIN s |-> Link(s[i])]

RouterPoints == Len(SelectSeq(AllBlocks(Discoverable(apps)), IsRouter))

-----------------------------------------------------------------------------
(* The handlers: a code, the entries, and whether a next page is named *)

OK(items, more) == [code |-> "ok", items |-> items, more |-> more]
BadRequest == [code |-> "bad_request", items |-> <<>>, more |-> FALSE]
NotFound == [code |-> "not_found", items |-> <<>>, more |-> FALSE]
ServerError == [code |-> "error", items |-> <<>>, more |-> FALSE]

\* an empty answer of the lists that count matches
OrError(items, more) == IF items = <<>> THEN ServerError ELSE OK(items, more)

\* a page begins at a slot and ends after PageSize entries
SlotPage(first) ==
  IF first >= NumSlots THEN BadRequest
  ELSE OK(Window(Taken(FromSlot(table, first)), 0),
          Len(Taken(table)) > first + PageSize)

GroupObjectPage(first) == SlotPage(first)
PublisherPage(first) == SlotPage(first)
RecipientPage(first) == SlotPage(first)

\* a page is a range of slots
TokenPage(first) ==
  IF first >= NumSlots THEN BadRequest
  ELSE OrError(Taken(Window(table, first)), NumSlots > first + PageSize)

\* a page is a range of resources, filtered
RangePage(list, f, first) ==
  IF first >= Len(CoreLists[list]) THEN BadRequest
  ELSE OrError(SelectSeq(Window(CoreLists[list], first), LAMBDA r : Selected(r, f)),
               Len(CoreLists[list]) > first + PageSize)

DevicePage(f, first) == RangePage("/dev", f, first)
ApplicationPage(f, first) == RangePage("/ap", f, first)
UpdatePage(f, first) == RangePage("/swu", f, first)
AuthPage(f, first) == RangePage("/auth", f, first)
OscorePage(f, first) == RangePage("/auth/o", f, first)

\* the first page is answered although there is nothing, with an error
ParameterPage(first) ==
  IF first > 0 /\ first >= Len(apps) THEN BadRequest
  ELSE OrError(Window(apps, first), Len(apps) > first + PageSize)

\* a resource counts once for every one of its types that fits
PointTypes(b) == SelectSeq(AllBlocks(Discoverable(apps)), LAMBDA c : c = b)

PointPage(b, first) ==
  LET fit == SelectSeq(Discoverable(apps), LAMBDA r : b \in Range(BlocksOf(r)))
  IN  IF first > 0 /\ first >= Len(PointTypes(b)) THEN BadRequest
      ELSE OrError(Window(fit, first), Len(PointTypes(b)) > first + PageSize)

\* oc_count_functional_blocks
Counted ==
  IF blocks.count > 0 THEN blocks
  ELSE LET list == Stored(blocks.list, apps) IN
       [list |-> list,
        count |-> Len(list) - Len(blocks.list) + (IF RouterPoints > 0 THEN 1 ELSE 0)]

\* oc_add_function_blocks_to_response: what is to be skipped, and how much fits.
\* Until it is listed the block of a router is skipped for each of its types.
BlocksListed(list, skip, room) ==
  LET routers == IF RouterPoints > skip THEN <<Router>> ELSE <<>>
      left == IF RouterPoints > skip THEN 0 ELSE skip - RouterPoints
      fits == IF room > Len(routers) THEN room - Len(routers) ELSE 0
      rest == SubSeq(list, left + 1, Len(list))
  IN  LinksTo(routers \o SubSeq(rest, 1, IF Len(rest) < fits THEN Len(rest) ELSE fits))

\* /f: the room is what is left of the list and not of the page
BlockPage(counted, first) ==
  IF first > 0 /\ first >= counted.count THEN BadRequest
  ELSE OrError(BlocksListed(Stored(counted.list, apps), first, counted.count - first),
               counted.count > first + PageSize)

\* the entries /.well-known/core counts on
CoreTotal(f, counted) ==
  (IF f = Unfiltered THEN 0 ELSE Len(Discoverable(apps)))
    + Len(Basic) + counted.count

\* resources of the application if a filter asks for some, then the basic ones,
\* then the functional blocks as long as there is room
Known(f) ==
  SelectSeq((IF f = Unfiltered THEN <<>> ELSE apps) \o Basic, LAMBDA r : Selected(r, f))

CoreLast(f, counted, first) ==
  IF CoreTotal(f, counted) > first + PageSize THEN first + PageSize
  ELSE CoreTotal(f, counted)

CoreLinks(f, counted, first) ==
  LET known == Known(f)
      last == CoreLast(f, counted, first)
  IN  SubSeq(known, first + 1, IF Len(known) < last THEN Len(known) ELSE last)

ListsBlocks(f, counted, first) ==
  IF topic = "/f" THEN first = 0 \/ first < counted.count
  ELSE /\ BlocksSelected(f)
       /\ first < CoreLast(f, counted, first)
       /\ first + Len(CoreLinks(f, counted, first)) < CoreLast(f, counted, first)

CorePage(f, counted, first) ==
  LET links == CoreLinks(f, counted, first)
      known == Len(Known(f))
      fbs == IF ListsBlocks(f, counted, first)
             THEN BlocksListed(Stored(counted.list, apps),
                               IF first > known THEN first - known ELSE 0,
                               CoreLast(f, counted, first) - first - Len(links))
             ELSE <<>>
  IN  IF first >= CoreTotal(f, counted) THEN BadRequest
      ELSE OK(links \o fbs, links \o fbs # <<>>
                              /\ CoreTotal(f, counted) > first + PageSize)

Page(f, counted, first) ==
  CASE topic = "/fp/g" -> GroupObjectPage(first)
    [] topic = "/fp/p" -> PublisherPage(first)
    [] topic = "/fp/r" -> RecipientPage(first)
    [] topic = "/auth/at" -> TokenPage(first)
    [] topic = "/dev" -> DevicePage(f, first)
    [] topic = "/ap" -> ApplicationPage(f, first)
    [] topic = "/swu" -> UpdatePage(f, first)
    [] topic = "/auth" -> AuthPage(f, first)
    [] topic = "/auth/o" -> OscorePage(f, first)
    [] topic = "/p" -> ParameterPage(first)
    [] topic = "/f" -> BlockPage(counted, first)
    [] topic = "/.well-known/core" -> CorePage(f, counted, first)
    [] OTHER -> PointPage(Links[topic], first)

\* The entry behind a link: the first slot that has its id
Entry(id, none) ==
  LET hits == {s \in DOMAIN table : table[s] = id}
  IN  IF hits = {} THEN none
      ELSE OK(<<table[CHOOSE s \in hits : \A q \in hits : s <= q]>>, FALSE)

GroupObjectEntry(id) == Entry(id, NotFound)
PublisherEntry(id) == Entry(id, NotFound)
RecipientEntry(id) == Entry(id, NotFound)
TokenEntry(id) == Entry(id, BadRequest)

EntryOf(id) ==
  CASE topic = "/fp/g" -> GroupObjectEntry(id)
    [] topic = "/fp/p" -> PublisherEntry(id)
    [] topic = "/fp/r" -> RecipientEntry(id)
    [] OTHER -> TokenEntry(id)

\* l=total; /auth/o subtracts the wrong two names
Total(f, counted) ==
  CASE topic \in SlotTopics \cup {"/auth/at"} -> Len(Taken(table))
    [] topic = "/auth/o" -> Len(CoreLists[topic]) - 1
    [] topic \in CoreTopics -> Len(CoreLists[topic])
    [] topic = "/p" -> Len(apps)
    [] topic = "/f" -> counted.count
    [] topic = "/.well-known/core" -> CoreTotal(f, counted)
    [] OTHER -> Len(PointTypes(Links[topic]))

-----------------------------------------------------------------------------
(* The client, which repeats its query with the number of the next page *)

CountsBlocks == topic \in {"/f", "/.well-known/core"}

Start(f) ==
  /\ walk.status # "reading"
  /\ f = Unfiltered \/ topic \in CoreTopics \cup {"/.well-known/core"}
  /\ walk' = [Idle EXCEPT !.status = "reading", !.filter = f,
                          !.stayers = Range(Taken(table))]
  /\ UNCHANGED <<topic, table, apps, blocks, changes>>

AskTotal ==
  /\ walk.status = "reading"
  /\ walk.total = -1
  /\ \E counted \in {IF CountsBlocks THEN Counted ELSE blocks} :
       /\ walk' = [walk EXCEPT !.total = Total(walk.filter, counted)]
       /\ blocks' = counted
  /\ UNCHANGED <<topic, table, apps, changes>>

AskPage ==
  /\ walk.status = "reading"
  /\ \E counted \in {IF CountsBlocks THEN Counted ELSE blocks},
        first \in {walk.page * PageSize} :
       /\ \E answer \in {Page(walk.filter, counted, first)} :
            walk' = [walk EXCEPT
                       !.status = IF answer.code # "ok" THEN "failed"
                                  ELSE IF answer.more THEN "reading" ELSE "done",
                       !.page = @ + 1,
                       !.seen = @ \o answer.items]
       /\ blocks' = IF CountsBlocks /\ ListsBlocks(walk.filter, counted, first)
                    THEN [counted EXCEPT !.list = Stored(@, apps)] ELSE counted
  /\ UNCHANGED <<topic, table, apps, changes>>

\* a link of the list is followed
AskEntry(id) ==
  /\ topic \in SlotTopics \cup {"/auth/at"} /\ id \in Range(walk.seen)
  /\ EntryOf(id).code # "ok"
  /\ walk' = [walk EXCEPT !.gone = @ \cup {id}]
  /\ UNCHANGED <<topic, table, apps, blocks, changes>>

-----------------------------------------------------------------------------
(* What changes the lists *)

Changed ==
  /\ changes < MaxChanges
  /\ changes' = changes + 1

\* a POST takes the first free slot
AddEntry(id) ==
  /\ topic \in SlotTopics \cup {"/auth/at"}
  /\ id \notin Range(table)
  /\ \E s \in DOMAIN table :
       /\ table[s] = Free
       /\ \A q \in 1 .. s - 1 : table[q] # Free
       /\ table' = [table EXCEPT ![s] = id]
  /\ walk' = [walk EXCEPT !.quiet = FALSE]
  /\ Changed
  /\ UNCHANGED <<topic, apps, blocks>>

DeleteEntry(id) ==
  /\ id \in Range(table)
  /\ table' = [s \in DOMAIN table |-> IF table[s] = id THEN Free ELSE table[s]]
  /\ walk' = [walk EXCEPT !.quiet = FALSE, !.stayers = @ \ {id}]
  /\ Changed
  /\ UNCHANGED <<topic, apps, blocks>>

\* oc_ri_add_resource, oc_ri_delete_resource: the blocks counted stay
AddResource(r) ==
  /\ topic \notin SlotTopics \cup CoreTopics \cup {"/auth/at"}
  /\ r \notin Range(apps)
  /\ apps' = Append(apps, r)
  /\ walk' = [walk EXCEPT !.quiet = FALSE]
  /\ Changed
  /\ UNCHANGED <<topic, table, blocks>>

DeleteResource(r) ==
  /\ r \in Range(apps)
  /\ apps' = SelectSeq(apps, LAMBDA q : q # r)
  /\ walk' = [walk EXCEPT !.quiet = FALSE]
  /\ Changed
  /\ UNCHANGED <<topic, table, blocks>>

Next ==
  \/ \E f \in Filters : Start(f)
  \/ AskTotal
  \/ AskPage
  \/ \E id \in Ids : AskEntry(id) \/ AddEntry(id) \/ DeleteEntry(id)
  \/ \E r \in AppNames : AddResource(r) \/ DeleteResource(r)

Spec == Init /\ [][Next]_vars

-----------------------------------------------------------------------------
(* Properties *)

\* The values the variables take.
TypeOK ==
  /\ topic \in Topics
  /\ table \in [1 .. NumSlots -> Ids \cup {Free}]
  /\ apps \in Seq(AppNames)
  /\ blocks.list \in Seq(Range(Links)) /\ blocks.count \in Nat
  /\ walk \in Walk
  /\ changes \in 0 .. MaxChanges

\* no free slot before a taken one, or all entries on one page
Packed ==
  \/ Len(Taken(table)) <= PageSize
  \/ \A s \in DOMAIN table : \A q \in 1 .. s : table[s] # Free => table[q] # Free

BlocksNow == {b \in Range(AllBlocks(Discoverable(apps))) : ~IsRouter(b)}

\* the blocks were counted from the resources there are, and at most one type
\* is a router's
Fresh ==
  /\ RouterPoints <= 1
  /\ Range(blocks.list) = BlocksNow
  /\ blocks.count = Cardinality(BlocksNow) + RouterPoints

Reliable ==
  CASE topic \in SlotTopics -> Packed
    [] CountsBlocks -> Fresh
    [] OTHER -> TRUE

LinksOf(bs) == {Link(b) : b \in bs}
BlockLinks == LinksOf(Range(AllBlocks(Discoverable(apps))))

\* what a list is to tell
Wanted(f) ==
  CASE topic \in SlotTopics \cup {"/auth/at"} -> Range(Taken(table))
    [] topic \in CoreTopics -> {r \in Range(CoreLists[topic]) : Selected(r, f)}
    [] topic = "/p" -> Range(apps)
    [] topic = "/f" -> BlockLinks
    [] topic = "/.well-known/core" ->
         Range(Known(f)) \cup (IF BlocksSelected(f) THEN BlockLinks ELSE {})
    [] OTHER -> {r \in Range(Discoverable(apps)) : Links[topic] \in Range(BlocksOf(r))}

\* A client that has read all pages while nothing changed has what the list is to
\* tell, and nothing twice ("if more requests (pages) are needed to get the full
\* list"); /f lists everything on its first page and goes on.
PagesComplete ==
  walk.status = "done" /\ walk.quiet /\ Reliable =>
    /\ Range(walk.seen) = Wanted(walk.filter)
    /\ topic # "/f" => IsInjective(walk.seen)

\* While other entries come and go, an entry that stays is not missed: a token
\* is told once, an entry of a group table if its slot was reached; and the link
\* to it is answered.
StayersSeen ==
  /\ walk.gone \cap walk.stayers = {}
  /\ walk.status = "done" =>
       \A s \in DOMAIN table : table[s] \in walk.stayers =>
         /\ s <= walk.page * PageSize => table[s] \in Range(walk.seen)
         /\ topic = "/auth/at" => Len(SelectSeq(walk.seen, LAMBDA e : e = table[s])) = 1

\* a resource has one data point of a block
OneTypeEach == \A r \in Range(apps) : IsInjective(BlocksOf(r))

\* The total announced is the length of the list, for all lists but /auth/o.
TotalTells ==
  /\ walk.status = "done" /\ walk.quiet /\ Reliable
  /\ walk.total # -1 /\ walk.filter = Unfiltered
  /\ topic # "/auth/o" /\ (topic \in DOMAIN Links => OneTypeEach)
  => walk.total = Cardinality(Range(walk.seen))
=============================================================================
