-------------------------------- MODULE MCData --------------------------------
(* Data and what is done with it, each part on its own: bodies with every     *)
(* type an entry can have, two by two, and messages of others: entries that   *)
(* are not in a map, nested and mixed arrays, tags, keys that are neither a   *)
(* name nor a number, and messages that are cut.  Then the tables of a        *)
(* router, and the lists of the callbacks that wait for their time.           *)
EXTENDS Cbor

VARIABLES stage, meant, wire, list, failed, held, lost, clean, messages

bodyVars == <<stage, meant, wire, list, failed, held, lost, clean, messages>>

VARIABLES table, param, store, todo, loading, requests, unsaved, reset

mapperVars == <<table, param, store, todo, loading, requests, unsaved, reset>>

VARIABLES head, next, timerlist, tnext, p, about, interval, at, used, events, doing, walked,
          cur, clock, next_expiration, want

timedVars == <<head, next, timerlist, tnext, p, about, interval, at, used, events, doing,
               walked, cur, clock, next_expiration, want>>

dataVars == <<bodyVars, mapperVars, timedVars>>

Entries ==
  {Scalar(Numbered(1), "int", 30), Scalar(Named("ab"), "text", 7),
   Scalar(Numbered(2), "bool", 1), Scalar(Named("b"), "bytes", 4),
   Scalar(Numbered(14), "double", 70), Scalar(Numbered(5), "float", 2),
   Counted(Numbered(7), "int", <<1, 200>>), Counted(Named("e"), "int", <<>>),
   Counted(Numbered(8), "bool", <<0, 1>>), Counted(Named("f"), "float", <<1>>),
   Counted(Numbered(9), "double", <<1, 2>>), Texts(Numbered(8), <<5, 0, 6, 2>>),
   Opened(Named("g"), Added("bytes", <<1, 5, 2>>)),
   Object(Named("o"), <<Scalar(Numbered(1), "text", 2),
                        Counted(Numbered(2), "int", <<3>>)>>),
   Opened(Numbered(3), <<Object(NoKey, <<Scalar(Numbered(1), "int", 2)>>),
                         Object(NoKey, <<>>)>>)}
WrittenBodies == {Root(<<a, b>>) : a, b \in Entries} \cup {Root(<<>>)}

Foreigns ==
  LET one == Scalar(Numbered(1), "int", 1)
      obj == Object(NoKey, <<one, Scalar(Named("s"), "text", 2)>>)
      bad == Item(Named("not a key"), "int", 1, <<>>, 0)
      bare(type) == Item(NoKey, type, 0, <<>>, 0)
      second(type, kids) == Root(<<one, Item(Numbered(2), type, 0, kids, 0)>>)
  IN  {bare("null"), bare("int"), bare("array"),
       Opened(NoKey, <<obj, obj>>),
       Opened(NoKey, <<bare("int"), bare("text"), obj, Opened(NoKey, <<bare("int")>>)>>),
       Opened(NoKey, <<bare("int"), bare("null")>>),
       Opened(NoKey, <<bare("null"), obj>>),
       Opened(NoKey, <<obj, Root(<<one, bad>>)>>), Root(<<one, bad>>),
       second("tag", <<obj>>), Root(<<obj, bare("cut")>>),
       second("map", <<one, bare("cut")>>), second("array", <<obj, bare("cut")>>)}

Body == INSTANCE Rep WITH Bodies <- WrittenBodies, Foreign <- Foreigns, MaxMessages <- 2

(* Requests for two or more entries: created, changed, deleted, refused     *)
(* midway, with an id that slots begin with, and an address of over 32 bits.*)
Mapping(id, dt, ga, key, flags) == [id |-> id, dt |-> dt, ga |-> ga, key |-> key, flags |-> flags]
Five == Mapping(5, <<1>>, <<1, 10>>, <<>>, FALSE)
Six == Mapping(6, <<>>, <<2>>, <<<<7, 7>>>>, TRUE)
Seven == Mapping(7, <<>>, <<4>>, <<>>, FALSE)
Only(id) == Mapping(id, <<>>, <<>>, <<>>, FALSE)
MapperRequests ==
  {<<o>> : o \in {Five, Only(5), Six, Mapping(6, <<2>>, <<>>, <<>>, FALSE),
                  Mapping(0, <<>>, <<3>>, <<>>, FALSE), Mapping(-1, <<>>, <<1>>, <<>>, FALSE)}}
  \cup {<<Six, Only(5)>>, <<Seven, Five>>, <<Mapping(6, <<2>>, <<>>, <<>>, FALSE), Seven>>}

Mapper == INSTANCE GroupMapper WITH
  Size <- 3, Word <- 8, Requests <- MapperRequests, Values <- {1, 9},
  Keys <- {<<9>>, <<9, 8>>}, MaxRequests <- 3

Timed == INSTANCE TimedCallbacks WITH
  Nodes <- {"n1", "n2", "n3"}, Null <- "null", Data <- {"d1", "d2"}, Delays <- {0, 1},
  MaxTime <- 1, MaxEvents <- 2, data <- about, list <- walked, now <- clock

DataTools == {"bodies", "mapper", "timed"}

DataInit(tool) == Body!Init /\ Mapper!Init /\ Timed!Init

DataNext(tool) ==
  \/ tool = "bodies" /\ Body!Next /\ UNCHANGED <<mapperVars, timedVars>>
  \/ tool = "mapper" /\ Mapper!Next /\ UNCHANGED <<bodyVars, timedVars>>
  \/ tool = "timed" /\ Timed!Next /\ UNCHANGED <<bodyVars, mapperVars>>

\* A body that was written is found in what was read, what a message took is
\* freed, and JSON text fits in the space that was measured for it (Rep).
BodiesSound ==
  Body!TypeOK /\ Body!WrittenIsFound /\ Body!AllFreed /\ Body!JsonFits

\* What the router answered as stored is what its next start reads, nothing comes
\* back after a reset that was not cut, and a request never gives an id to a
\* second slot (GroupMapper).
RouterSound ==
  /\ [](Mapper!TypeOK /\ Mapper!AnsweredIsStored /\ Mapper!ResetForgets)
  /\ Mapper!IdsStayApart

\* Delayed callbacks run when they are to, each as often as it is to
\* (TimedCallbacks).
CallbacksKept == Timed!CallbacksKept
=============================================================================
