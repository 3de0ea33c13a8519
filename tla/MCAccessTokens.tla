--------------------------- MODULE MCAccessTokens ---------------------------
(* Two tokens in two slots, and one of four tools for good.  One posts      *)
(* objects that give a token from a handshake another KID and another key,  *)
(* or make a token without a key, and sends requests; it is about contexts. *)
(* One posts whole tokens, scopes and deletions, and sends none; it is      *)
(* about the table and its files.  One reads the lists of a device page by  *)
(* page; it is about Listings.  One finds devices; it is about Discovery.   *)
(* The variables of the one are left alone by the others.                   *)
EXTENDS AccessTokens, MCReaders, TLC

CONSTANTS t1, t2, m1, salt1

VARIABLES tool, topic, table, apps, blocks, walk, changes,
          device, asked, answers, data, sent, moves

Nothing == [kid |-> None, ms |-> None, salt |-> None, scope |-> None,
            profile |-> None]
Full(k, scope) ==
  [kid |-> k, ms |-> m1, salt |-> salt1, scope |-> scope, profile |-> "oscore"]
Scoped == [Nothing EXCEPT !.scope = "sec"]

KeyObjects == {[Nothing EXCEPT !.kid = t2, !.salt = salt1]}
TableObjects == {Nothing, Full(t1, "app"), Scoped}

Tables == INSTANCE AccessTokens WITH Objects <- TableObjects, IdContexts <- {}

listVars == <<topic, table, apps, blocks, walk, changes>>

Lists ==
  INSTANCE Listings WITH
    PageSize <- 2, NumSlots <- 4, Ids <- {"1", "2", "3", "4"}, Res <- ListedRes,
    AppNames <- ListedApps, CoreLists <- ListedCore, Basic <- ListedBasic,
    Links <- ListedLinks, Filters <- ListedFilters,
    IfPrefixes <- {<<"s", "sec">>}, Topics <- ListedTopics, MaxChanges <- 5

findVars == <<device, asked, answers, data, sent, moves>>

Finding ==
  INSTANCE Discovery WITH
    Devices <- FoundDevices, IdDigits <- 2, MaxDigits <- 4, Addresses <- {1, 17},
    Sender <- 165, Recipients <- FoundRecipients, Scopes <- {2, 5},
    Questions <- FoundQuestions, MaxAsked <- 1, MaxChanges <- 2

MCInit ==
  /\ Init
  /\ Lists!Init
  /\ Finding!Init
  /\ tool \in {"keys", "tables", "reader", "finder"}
  /\ tool # "reader" => topic = "/fp/g"

MCNext ==
  /\ \/ tool = "keys" /\ Next /\ UNCHANGED <<listVars, findVars>>
     \/ tool = "tables" /\ Tables!Next /\ UNCHANGED <<listVars, findVars>>
     \/ tool = "reader" /\ Lists!Next /\ UNCHANGED <<vars, findVars>>
     \/ tool = "finder" /\ Finding!Next /\ UNCHANGED <<vars, listVars>>
  /\ UNCHANGED tool

MCSpec == MCInit /\ [][MCNext]_<<vars, listVars, findVars, tool>>

\* A reader that was not disturbed has what a list is to tell, once: the handlers
\* of all lists cut into pages; an entry that stays while others come and go is
\* not missed; the total a list announces is its length (Listings).  A question to
\* all devices is answered by those it means, a device finds its own address in
\* one, and a value that is sent to those who answered reaches a device of the
\* recipient table, at the path of its entry (Discovery).
ReadersServed ==
  /\ Lists!TypeOK /\ Lists!PagesComplete /\ Lists!StayersSeen /\ Lists!TotalTells
  /\ Finding!TypeOK /\ Finding!AnsweredByMeant
  /\ Finding!FoundByAddress /\ Finding!ValuesToRecipients
=============================================================================
