---------------------------- MODULE AccessTokens ----------------------------
(***************************************************************************)
(* The access tokens of a device (api/oc_knx_sec.c, /auth/at), their copy  *)
(* in storage and the OSCORE contexts made from them                       *)
(* (security/oc_oscore_context.c, security/oc_oscore_engine.c).            *)
(*                                                                         *)
(* Names are the ids of tokens and the OSCORE ids (KIDs) of their keys,    *)
(* which a tool chooses independently.  The key of a context is the pair   *)
(* of master secret and salt it is derived from.  Contexts are allocated   *)
(* dynamically, as the build has it, so their number is not bounded.       *)
(*                                                                         *)
(* A POST to /auth/at carries a list of objects, handled one by one; every *)
(* object is a step here, and so is the end of the list.  Nothing but a    *)
(* power failure comes between the steps.                                  *)
(***************************************************************************)
EXTENDS Naturals

CONSTANTS
  Names,       \* ids of access tokens, and KIDs
  Secrets,     \* master secrets
  Salts,       \* salts
  IdContexts,  \* KID contexts of received requests
  NumEntries,  \* G_AT_MAX_ENTRIES
  Objects,     \* the objects a POST to /auth/at may carry, without the id
  Begins,      \* <<n, p>>: the name n begins with the other name p
  MaxObjects   \* bound on the objects of one POST

None == "none"

Scopes == {"sec", "app", "group"}
Profiles == {"oscore", "pase", "dtls"}

\* an object of the payload; None for a field it does not have
Object == [kid : Names \cup {None}, ms : Secrets \cup {None},
           salt : Salts \cup {None}, scope : Scopes \cup {None},
           profile : Profiles \cup {None}]

ASSUME NameAssumption == None \notin Names \cup Secrets \cup Salts
ASSUME EntryAssumption == NumEntries \in Nat /\ MaxObjects \in Nat
ASSUME ObjectAssumption == Objects \subseteq Object
ASSUME BeginsAssumption == Begins \subseteq Names \X Names

VARIABLES
  at,      \* g_at_entries[]
  store,   \* the files AT_STORE_<index>
  ctxs,    \* the list contexts
  post,    \* the POST being handled: how many objects, and what they updated
  torn,    \* ghost: a write failed or a POST was refused half way
  removed, \* ghost: a POST took a token out of use, and no contexts were made since
  foreign  \* ghost: a request was given another token's scope, and nothing was torn

vars == <<at, store, ctxs, post, torn, removed, foreign>>

Slots == 1 .. NumEntries

Entry == [id : Names \cup {None}, kid : Names \cup {None},
          ms : Secrets \cup {None}, salt : Salts \cup {None},
          scope : Scopes \cup {None}, profile : Profiles \cup {None}]

Key == (Secrets \cup {None}) \X (Salts \cup {None})

\* tok is a ghost: the id of the token the context was made from
Context == [role : {"sender", "recipient"}, tok : Names, kid : Names \cup {None},
            idctx : IdContexts \cup {None}, key : Key, slot : Slots]

\* return_status is "changed", scope_updated, other_updated
Post == [n : 0 .. MaxObjects, changed : BOOLEAN, scope : BOOLEAN, other : BOOLEAN]

NoPost == [n |-> 0, changed |-> FALSE, scope |-> FALSE, other |-> FALSE]

\* oc_at_delete_entry leaves an entry with an empty id and no fields; so does
\* loading an erased file
NoEntry == [id |-> None, kid |-> None, ms |-> None, salt |-> None,
            scope |-> None, profile |-> None]

Idle == post = NoPost

-----------------------------------------------------------------------------
(* Storage.                                                                *)

\* oc_at_dump_entry: the salt has no tag in the file
Dumped(e) == [e EXCEPT !.salt = None]

\* mutant: the entry is dumped before it is updated
DumpBefore(s, e) == store' = [store EXCEPT ![s] = Dumped(at[s])] /\ torn' = torn

\* the write to slot s succeeds, or fails without the caller noticing
Dump(s, e) ==
  \/ store' = [store EXCEPT ![s] = Dumped(e)] /\ torn' = torn
  \/ store' = store /\ torn' = TRUE

-----------------------------------------------------------------------------
(* Contexts.                                                               *)

KeyOf(e) == <<e.ms, e.salt>>

\* the entries oc_init_oscore_from_storage makes a sender context for
Active(e) == e.id # None /\ e.profile \in {"oscore", "pase"} /\ e.ms # None

SenderOf(table, s) ==
  [role |-> "sender", tok |-> table[s].id, kid |-> table[s].kid, idctx |-> None,
   key |-> KeyOf(table[s]), slot |-> s]

Senders(table) == {SenderOf(table, s) : s \in {i \in Slots : Active(table[i])}}

Recipients == {c \in ctxs : c.role = "recipient"}

\* mutant: the old sender contexts are not freed
InitOscoreKeeping(table) == ctxs \cup Senders(table)

\* oc_oscore_free_sender_contexts, then a sender context for every active entry
InitOscore(table) == Recipients \cup Senders(table)

-----------------------------------------------------------------------------
(* POST to /auth/at: oc_core_auth_at_post_handler.                         *)

Init ==
  /\ at = [s \in Slots |-> NoEntry]
  /\ store = [s \in Slots |-> NoEntry]
  /\ ctxs = {}
  /\ post = NoPost
  /\ torn = FALSE
  /\ removed = FALSE
  /\ foreign = FALSE

Known(t) == \E s \in Slots : at[s].id = t

\* find_empty_at_index
FirstFree(s) == at[s].id = None /\ \A u \in Slots : u < s => at[u].id # None

\* mutant: a free slot is taken without looking for the id
SlotUnsearched(s, t) == FirstFree(s)

\* find_index_from_at, else find_empty_at_index
SlotFor(s, t) ==
  \/ at[s].id = t /\ \A u \in Slots : u < s => at[u].id # t
  \/ ~Known(t) /\ FirstFree(s)

Given(new, old) == IF new = None THEN old ELSE new

\* the fields the object has overwrite those of the entry
Updated(e, t, o) ==
  [id |-> t, kid |-> Given(o.kid, e.kid), ms |-> Given(o.ms, e.ms),
   salt |-> Given(o.salt, e.salt), scope |-> Given(o.scope, e.scope),
   profile |-> Given(o.profile, e.profile)]

IdOnly(o) == \A f \in DOMAIN o : o[f] = None

\* a list of group addresses does not count as an update of the scope, nor a
\* profile as one of the rest; the status is that of the last object
Noted(t, o) ==
  [n |-> post.n + 1, changed |-> Known(t),
   scope |-> post.scope \/ o.scope \in {"sec", "app"},
   other |-> post.other \/ o.kid # None \/ o.ms # None \/ o.salt # None]

PostObject(s, t, o) ==
  /\ post.n < MaxObjects
  /\ SlotFor(s, t)
  /\ at' = [at EXCEPT ![s] = IF IdOnly(o) THEN NoEntry ELSE Updated(at[s], t, o)]
  /\ IF IdOnly(o)
       THEN store' = [store EXCEPT ![s] = NoEntry] /\ torn' = torn
       ELSE Dump(s, at'[s])
  /\ post' = Noted(t, o)
  /\ removed' = (removed \/ (Active(at[s]) /\ ~Active(at'[s])))
  /\ UNCHANGED <<ctxs, foreign>>

\* an object with the scope if.ll: what comes before the scope stays in the
\* entry, and nothing is stored
PostRefusedMidway(s, t, o) ==
  /\ post.n < MaxObjects
  /\ SlotFor(s, t)
  /\ at' = [at EXCEPT ![s] = Updated(at[s], t, o)]
  /\ post' = NoPost
  /\ torn' = TRUE
  /\ UNCHANGED <<store, ctxs, removed, foreign>>

\* an object that is invalid, without an id or finds no free slot: the objects
\* before it are in the table and in storage, and no context is made
PostRefused ==
  /\ post.n > 0
  /\ post' = NoPost
  /\ torn' = TRUE
  /\ UNCHANGED <<at, store, ctxs, removed, foreign>>

\* "update scope only"
ScopeOnly == post.changed /\ post.scope /\ ~post.other

\* the end of the list, which may be empty
PostEnd ==
  /\ ctxs' = IF ScopeOnly THEN ctxs ELSE InitOscore(at)
  /\ removed' = (removed /\ ScopeOnly)
  /\ post' = NoPost
  /\ UNCHANGED <<at, store, torn, foreign>>

-----------------------------------------------------------------------------
(* The other operations on the table.                                      *)

\* oc_core_auth_at_x_delete_handler: the emptied entry is dumped after its file
\* was erased, and oc_oscore_free_contexts_at_id frees the contexts of the slot
DeleteToken(s) ==
  /\ Idle /\ at[s].id # None
  /\ at' = [at EXCEPT ![s] = NoEntry]
  /\ store' = [store EXCEPT ![s] = NoEntry]
  /\ ctxs' = {c \in ctxs : c.slot # s}
  /\ UNCHANGED <<post, torn, removed, foreign>>

\* oc_delete_at_table: DELETE of /auth/at and reset code 2
DeleteTable ==
  /\ Idle
  /\ at' = [s \in Slots |-> NoEntry]
  /\ store' = [s \in Slots |-> NoEntry]
  /\ ctxs' = {}
  /\ torn' = FALSE /\ removed' = FALSE
  /\ UNCHANGED <<post, foreign>>

\* oc_reset_at_table with code 7: the entries without the scope if.sec go
ResetTable ==
  /\ Idle
  /\ at' = [s \in Slots |-> IF at[s].scope = "sec" THEN at[s] ELSE NoEntry]
  /\ store' = [s \in Slots |-> IF at[s].scope = "sec" THEN store[s] ELSE NoEntry]
  /\ ctxs' = InitOscore(at')
  /\ removed' = FALSE
  /\ UNCHANGED <<post, torn, foreign>>

\* oc_core_find_at_entry_with_id compares as many characters as t has
Matches(s, t) == at[s].id = t \/ <<at[s].id, t>> \in Begins

SharedSlot(s, t) ==
  \/ Matches(s, t) /\ \A u \in Slots : u < s => ~Matches(u, t)
  \/ (\A u \in Slots : ~Matches(u, t)) /\ FirstFree(s)

\* oc_oscore_set_auth_shared, at the end of a PASE handshake: the salt an entry
\* may have stays
SetAuthShared(s, t, ms) ==
  /\ Idle
  /\ SharedSlot(s, t)
  /\ at' = [at EXCEPT ![s] = [id |-> t, kid |-> t, ms |-> ms, salt |-> at[s].salt,
                              scope |-> "sec", profile |-> "pase"]]
  /\ Dump(s, at'[s])
  /\ ctxs' = InitOscore(at')
  /\ removed' = FALSE
  /\ UNCHANGED <<post, foreign>>

-----------------------------------------------------------------------------
(* Requests: oc_oscore_recv_message.                                       *)

\* mutant: the KID is compared with the sender id
CachedBySender(c, k, x) == c \in ctxs \ Recipients /\ c.kid = k /\ c.idctx = x

\* oc_oscore_find_context_by_kid_idctx
CachedFor(c, k, x) == c \in Recipients /\ c.kid = k /\ c.idctx = x

\* oc_core_find_at_entry_with_osc_id
EntryFor(s, k) == at[s].kid = k /\ \A u \in Slots : u < s => at[u].kid # k

RecipientOf(s, x) ==
  [role |-> "recipient", tok |-> at[s].id, kid |-> at[s].kid, idctx |-> x,
   key |-> KeyOf(at[s]), slot |-> s]

\* a request that decrypts is given the interfaces of the entry at the index of
\* its context (method_allowed)
Granted(c) ==
  foreign' = (foreign \/ (~torn /\ at[c.slot].scope # None /\ at[c.slot].id # c.tok))

\* a request protected with the key of its cached context; one protected with
\* another key is refused
ReceiveCached(c) ==
  /\ Idle /\ c.role = "recipient"
  /\ Granted(c)
  /\ UNCHANGED <<at, store, ctxs, post, torn, removed>>

\* the first request with a KID and a KID context; it decrypts or does not
ReceiveFirst(s, k, x, decrypts) ==
  /\ Idle /\ \A c \in ctxs : ~CachedFor(c, k, x)
  /\ EntryFor(s, k) /\ at[s].ms # None
  /\ ctxs' = ctxs \cup {RecipientOf(s, x)}
  /\ IF decrypts THEN Granted(RecipientOf(s, x)) ELSE UNCHANGED foreign
  /\ UNCHANGED <<at, store, post, torn, removed>>

\* what oc_oscore_free_lru_recipient_context may free: a context without a
\* sender id, or the head of the list, when no such context is older
Evictable(c) ==
  \/ c.role = "recipient" \/ c.kid = None
  \/ \A d \in ctxs \ Recipients : c.slot <= d.slot

\* the same for a token without a master secret: making the context fails, and
\* fails again after another one is freed
ReceiveKeyless(s, k, x, c) ==
  /\ Idle /\ \A d \in ctxs : ~CachedFor(d, k, x)
  /\ EntryFor(s, k) /\ at[s].ms = None
  /\ Evictable(c)
  /\ ctxs' = ctxs \ {c}
  /\ UNCHANGED <<at, store, post, torn, removed, foreign>>

-----------------------------------------------------------------------------

\* power failure, and oc_load_at_table
Reboot ==
  /\ at' = store
  /\ ctxs' = Senders(store)
  /\ post' = NoPost
  /\ torn' = FALSE /\ removed' = FALSE
  /\ UNCHANGED <<store, foreign>>

Next ==
  \/ \E s \in Slots, t \in Names, o \in Objects : PostObject(s, t, o)
  \/ \E s \in Slots, t \in Names, o \in Objects : PostRefusedMidway(s, t, o)
  \/ PostRefused
  \/ PostEnd
  \/ \E s \in Slots : DeleteToken(s)
  \/ DeleteTable
  \/ ResetTable
  \/ \E s \in Slots, t \in Names, ms \in Secrets : SetAuthShared(s, t, ms)
  \/ \E c \in ctxs : ReceiveCached(c)
  \/ \E s \in Slots, k \in Names, x \in IdContexts, decrypts \in BOOLEAN :
       ReceiveFirst(s, k, x, decrypts)
  \/ \E s \in Slots, k \in Names, x \in IdContexts, c \in ctxs :
       ReceiveKeyless(s, k, x, c)
  \/ Reboot

Spec == Init /\ [][Next]_vars

-----------------------------------------------------------------------------
(* Properties.                                                             *)

\* The types of the table, its files, the contexts and the ghosts.
TypeOK ==
  /\ at \in [Slots -> Entry]
  /\ store \in [Slots -> Entry]
  /\ ctxs \subseteq Context
  /\ post \in Post
  /\ torn \in BOOLEAN
  /\ removed \in BOOLEAN
  /\ foreign \in BOOLEAN

\* However tokens are posted, refused, deleted, reset, negotiated and reloaded
\* after a power failure, no two entries have the same id, so find_index_from_at
\* always speaks of the only one.  It holds when no id of a token begins
\* another (Begins = {}).
UniqueTokens ==
  \A s, u \in Slots : at[s].id = at[u].id /\ at[s].id # None => s = u

\* Unless a POST was refused half way or a write failed since the last start,
\* a restart finds the table as it is, the salts apart, even in the middle of a
\* POST.
StorageAgrees == ~torn => \A s \in Slots : store[s] = Dumped(at[s])

\* Unless a POST was refused half way, the device never sends with the key of a
\* deleted token or a key that was replaced: between two requests every sender
\* context is that of an entry as it is. The one exception: a list that takes
\* one token out of use and changes only the scope of another counts as a change
\* of scope, and leaves the context of the first.
SendersCurrent == Idle /\ ~torn /\ ~removed => ctxs \ Recipients \subseteq Senders(at)

\* Two recipient contexts never answer for the same KID and KID context.
RecipientsDistinct ==
  \A c, d \in Recipients : c.kid = d.kid /\ c.idctx = d.idctx => c = d

\* "interface of the call, e.g. of the auth/at entry that was used to decrypt
\* the message" (oc_knx_sec.c): the scope a request is given is that of the
\* token whose key decrypted it.
GrantedByOwnToken == ~foreign
=============================================================================
