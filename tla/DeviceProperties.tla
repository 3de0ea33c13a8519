-------------------------- MODULE DeviceProperties --------------------------
(***************************************************************************)
(* The properties of a device below /dev, /ap, /swu and /auth/o: what a    *)
(* client reads and writes (api/oc_knx_dev.c, api/oc_knx_swu.c,            *)
(* api/oc_knx_sec.c), how a request gets to a handler (api/oc_ri.c), what  *)
(* is kept in files, and what a start, a reset and a restart make of it    *)
(* (api/oc_core_res.c, api/oc_main.c, api/oc_knx_dev.c).                   *)
(*                                                                         *)
(* A handler runs to its end, but the power may fail between two of its    *)
(* writes, and a file whose write is cut is empty.  A body is a sequence   *)
(* of entries, each with a key, a type and a value.                        *)
(***************************************************************************)
EXTENDS AccessControl, TLC

CONSTANTS
  AppSettings, \* what the application sets before the stack starts
  Setups,      \* <<p, texts>>: clients use the resource p, with a token for
               \* which the interfaces texts were posted
  Requests,    \* path -> what clients ask of it
  Addresses, InstallationIds,  \* what is assigned
  Endpoints    \* the addresses of the device, there is one

VARIABLES
  path,     \* the resource clients use, for good
  granted,  \* the interfaces posted for the token, for good
  info,     \* device info, g_oscore_osndelay, g_swu_max_defer, ...
  files,    \* name -> <<contents>>, or <<>> if it is missing or was cut
  todo,     \* what the running handler still has to write
  due,      \* the properties it changes, and to what
  told,     \* property -> what a client may read
  answer    \* the last answer to a client

vars == <<path, granted, info, files, todo, due, told, answer>>

Unset == "unset"
Cut == <<>>
Ok == "2.05"
Changed == "2.04"
Errors == {"4.00", "4.01", "4.04", "4.05", "4.13", "5.00"}
NoAnswer == [method |-> "none", code |-> "none", value |-> 0, trusted |-> FALSE]

VersionFiles == <<"ap_maj", "ap_min", "ap_p">>
Files == {"ia", "iid", "fid", "pm", "hname", "port", "mport",
          "ap_maj", "ap_min", "ap_p", "maxdefer", "method"}

\* oc_core_add_device, and what the others have before anything is set
Added ==
  [ia |-> 65535, iid |-> 0, fid |-> 0, pm |-> FALSE, hname |-> <<>>, port |-> 0,
   mport |-> 0, mid |-> 0, ap |-> <<0, 0, 0>>, hwt |-> Unset, model |-> Unset,
   hwv |-> <<0, 0, 0>>, fwv |-> <<0, 0, 0>>,
   osndelay |-> 1000, replwdo |-> 32,
   maxdefer |-> 0, method |-> 2, lastupdate |-> "1970", result |-> 0, state |-> 0,
   pkgv |-> <<0, 0, 0>>, pkgbytes |-> 0, pkgqurl |-> "", pkgname |-> ""]

\* oc_core_set_device_hwt and the other setters, called by the application
Presets == AppSettings @@ Added

-----------------------------------------------------------------------------
(* Outcomes of handlers *)

Fails(code) ==
  [code |-> code, value |-> 0, change |-> <<>>, writes |-> <<>>]
Tells(value) == [Fails(Ok) EXCEPT !.value = value]
NoHandler == Fails("4.05")

ReadOnly(ifs, value) ==
  [ifs |-> ifs, get |-> Tells(value), put |-> NoHandler]

\* the first entry with the key 1 and the type, if there is one
Keyed(body, type) == SelectSeq(body, LAMBDA e : e.key = 1 /\ e.type = type)

Sets(prop, value, fileNames, code) ==
  [code |-> code, value |-> 0, change |-> prop :> value,
   writes |-> [k \in DOMAIN fileNames |-> <<fileNames[k], <<value>>>>]]

PutKeyed(body, type, prop, fileNames) ==
  LET found == Keyed(body, type)
  IN  IF found = <<>> THEN Fails("4.00")
      ELSE Sets(prop, found[1].value, fileNames, Changed)

\* the handlers that look at the first entry, whatever its key
FirstIs(body, type) == body # <<>> /\ Head(body).type = type
PutFirst(body, type, prop, fileNames) ==
  IF FirstIs(body, type) THEN Sets(prop, Head(body).value, fileNames, Ok)
  ELSE Fails("4.00")
Ignores(body, type, code) ==
  IF FirstIs(body, type) THEN Fails(code) ELSE Fails("4.00")

-----------------------------------------------------------------------------
(* The resources: interfaces and handlers *)

dev_sn == ReadOnly({"d"}, info.sn)
dev_hwv == ReadOnly({"d"}, info.hwv)
dev_fwv == ReadOnly({"d"}, info.fwv)
dev_hwt ==
  [ifs |-> {"d"}, put |-> NoHandler,
   get |-> IF info.hwt = Unset THEN Fails("5.00") ELSE Tells(info.hwt)]
dev_model ==
  [ifs |-> {"d"}, put |-> NoHandler,
   get |-> IF info.model = Unset THEN Fails("4.00") ELSE Tells(info.model)]
dev_hname(body) ==
  [ifs |-> {"p"}, get |-> Tells(info.hname),
   put |-> PutKeyed(body, "string", "hname", <<"hname">>)]
dev_iid(body) ==
  [ifs |-> {"p"}, get |-> Tells(info.iid),
   put |-> PutKeyed(body, "int", "iid", <<"iid">>)]
dev_pm(body) ==
  [ifs |-> {"p"}, get |-> Tells(info.pm),
   put |-> PutKeyed(body, "bool", "pm", <<"pm">>)]
\* a page is one address
dev_ipv6(pn) ==
  [ifs |-> {"p"}, put |-> NoHandler,
   get |-> IF pn >= Len(Endpoints) THEN Fails("4.00")
           ELSE Tells(Endpoints[pn + 1])]
dev_sa == ReadOnly({"p"}, (info.ia \div 256) % 256)
dev_da == ReadOnly({"p"}, info.ia % 256)
dev_fid(body) ==
  [ifs |-> {"p"}, get |-> Tells(info.fid),
   put |-> PutKeyed(body, "int", "fid", <<"fid">>)]
dev_port == ReadOnly({"p"}, info.port)
dev_mport == ReadOnly({"p"}, info.mport)
dev_mid == ReadOnly({"p"}, info.mid)

\* oc_core_ap_x_put_handler, oc_core_dump_ap: a file for each number
PutVersion(body) ==
  IF ~FirstIs(body, "ints") \/ Len(Head(body).value) # 3 THEN Fails("4.00")
  ELSE [code |-> Changed, value |-> 0, change |-> "ap" :> Head(body).value,
        writes |-> [k \in 1 .. 3 |-> <<VersionFiles[k], <<Head(body).value[k]>>>>]]

app_x(body) == [ifs |-> {"p"}, get |-> Tells(info.ap), put |-> PutVersion(body)]

knx_auth_o_osndelay(body) ==
  [ifs |-> {"p"}, get |-> Tells(info.osndelay),
   put |-> PutKeyed(body, "int", "osndelay", <<>>)]
knx_auth_o_replwdo(body) ==
  [ifs |-> {"p"}, get |-> Tells(info.replwdo),
   put |-> PutKeyed(body, "int", "replwdo", <<>>)]

knx_swu_protocol(body) ==
  [ifs |-> {"swu", "d"}, get |-> Tells(<<0>>), put |-> Ignores(body, "int", Changed)]
\* its interfaces have no PUT
knx_swu_maxdefer(body) ==
  [ifs |-> {"ll", "d"}, get |-> Tells(info.maxdefer),
   put |-> PutFirst(body, "int", "maxdefer", <<"maxdefer">>)]
\* a body of another type is answered OK, and changes nothing
knx_swu_method(body) ==
  [ifs |-> {"swu", "d"}, get |-> Tells(info.method),
   put |-> IF FirstIs(body, "int")
           THEN PutFirst(body, "int", "method", <<"method">>) ELSE Fails(Ok)]
knx_lastupdate == ReadOnly({"d", "swu"}, info.lastupdate)
knx_swu_result == ReadOnly({"d", "swu"}, info.result)
knx_swu_state == ReadOnly({"d", "swu"}, info.state)
knx_swu_update(body) ==
  [ifs |-> {"d", "swu"}, get |-> NoHandler, put |-> Ignores(body, "int", Ok)]
knx_swu_pkgv == ReadOnly({"d", "swu"}, info.pkgv)
knx_swu_pkgbytes == ReadOnly({"swu", "d"}, info.pkgbytes)
knx_swu_pkgqurl(body) ==
  [ifs |-> {"swu", "d"}, get |-> Tells(info.pkgqurl),
   put |-> Ignores(body, "string", Ok)]
knx_swu_pkgname == ReadOnly({"swu", "d"}, info.pkgname)

\* the search of oc_ri_invoke_coap_entity_handler
Resource(body, pn) ==
  CASE path = "/dev/sn" -> dev_sn
    [] path = "/dev/hwv" -> dev_hwv
    [] path = "/dev/fwv" -> dev_fwv
    [] path = "/dev/hwt" -> dev_hwt
    [] path = "/dev/model" -> dev_model
    [] path = "/dev/hname" -> dev_hname(body)
    [] path = "/dev/iid" -> dev_iid(body)
    [] path = "/dev/pm" -> dev_pm(body)
    [] path = "/dev/ipv6" -> dev_ipv6(pn)
    [] path = "/dev/sna" -> dev_sa
    [] path = "/dev/da" -> dev_da
    [] path = "/dev/fid" -> dev_fid(body)
    [] path = "/dev/port" -> dev_port
    [] path = "/dev/mport" -> dev_mport
    [] path = "/dev/mid" -> dev_mid
    [] path = "/ap/pv" -> app_x(body)
    [] path = "/auth/o/osndelay" -> knx_auth_o_osndelay(body)
    [] path = "/auth/o/replwdo" -> knx_auth_o_replwdo(body)
    [] path = "/swu/protocol" -> knx_swu_protocol(body)
    [] path = "/swu/maxdefer" -> knx_swu_maxdefer(body)
    [] path = "/swu/method" -> knx_swu_method(body)
    [] path = "/swu/lastupdate" -> knx_lastupdate
    [] path = "/swu/result" -> knx_swu_result
    [] path = "/swu/state" -> knx_swu_state
    [] path = "/swu/update" -> knx_swu_update(body)
    [] path = "/swu/pkgv" -> knx_swu_pkgv
    [] path = "/swu/pkgbytes" -> knx_swu_pkgbytes
    [] path = "/swu/pkgqurl" -> knx_swu_pkgqurl(body)
    [] path = "/swu/pkgname" -> knx_swu_pkgname
    [] OTHER -> [ifs |-> {}, get |-> NoHandler, put |-> NoHandler]

\* oc_ri_invoke_coap_entity_handler: the payload is read before the resource is
\* looked for, and the right to use it is checked before the handler is known
Outcome(caller, q) ==
  LET r == Resource(q.body, q.pn)
      h == IF q.method = "GET" THEN r.get
           ELSE IF q.method = "PUT" THEN r.put ELSE NoHandler
  IN  IF q.parsed = "cut" THEN Fails("4.13")
      ELSE IF q.parsed = "bad" THEN Fails("4.00")
      ELSE IF r.ifs = {} THEN Fails("4.04")
      ELSE IF ~Allowed(caller, q.method, path, r.ifs) THEN Fails("4.01")
      ELSE IF h.code # NoHandler.code /\ ~q.accepted THEN Fails("4.00")
      ELSE h

-----------------------------------------------------------------------------
(* What a client may expect *)

PropOf ==
  ("/dev/hname" :> "hname") @@ ("/dev/iid" :> "iid") @@ ("/dev/pm" :> "pm")
  @@ ("/dev/fid" :> "fid") @@ ("/dev/port" :> "port") @@ ("/dev/mport" :> "mport")
  @@ ("/ap/pv" :> "ap") @@ ("/swu/method" :> "method")
  @@ ("/auth/o/osndelay" :> "osndelay") @@ ("/auth/o/replwdo" :> "replwdo")

\* what a start restores; the others are the presets again, stored or not
Restored == {"ia", "iid", "hname", "pm", "ap"}

\* the version and /swu/method take the first entry, whatever its key
Meant(body) ==
  IF path \in {"/ap/pv", "/swu/method"} THEN Head(body)
  ELSE body[CHOOSE k \in DOMAIN body : body[k].key = 1]

\* /swu/method answers OK to a body it ignores
MeansChange(body) == path = "/swu/method" => FirstIs(body, "int")

\* what a cut may leave of a property that has a file, and of one that has three
CutMix(prop, new) ==
  IF prop # "ap" THEN told[prop] \cup {Presets[prop], new}
  ELSE {[k \in 1 .. 3 |-> IF k < j THEN new[k] ELSE IF k = j THEN x[k] ELSE old[k]] :
          j \in 1 .. 4, old \in told.ap, x \in {Presets.ap, new}}
       \cup told.ap

Expect(change) == [p \in DOMAIN told |->
  IF p \in DOMAIN change THEN CutMix(p, change[p]) ELSE told[p]]

-----------------------------------------------------------------------------
(* Steps *)

Init ==
  /\ \E setup \in Setups : path = setup[1] /\ granted = setup[2]
  /\ info = Presets
  /\ files = [f \in Files |-> Cut]
  /\ todo = <<>>
  /\ due = <<>>
  /\ told = [p \in DOMAIN Presets |-> {Presets[p]}]
  /\ answer = NoAnswer

Callers ==
  {[oscore |-> how[1], decrypted |-> how[2], scope |-> Scope(granted)] :
     how \in {<<TRUE, TRUE>>, <<TRUE, FALSE>>, <<FALSE, FALSE>>}}

\* A client asks; what it may expect to read follows from what it sent.
Request(caller, q) ==
  /\ todo = <<>>
  /\ LET o == Outcome(caller, q)
         accepted == q.method = "PUT" /\ path \in DOMAIN PropOf
                       /\ o.code \in {Ok, Changed} /\ MeansChange(q.body)
     IN  /\ info' = o.change @@ info
         /\ todo' = o.writes
         /\ \E change \in {IF accepted THEN PropOf[path] :> Meant(q.body).value
                           ELSE <<>>} :
              /\ due' = IF o.writes = <<>> THEN <<>> ELSE change
              /\ told' = IF o.writes # <<>> THEN Expect(change)
                         ELSE [p \in DOMAIN told |-> IF p \in DOMAIN change
                                                     THEN {change[p]} ELSE told[p]]
         /\ answer' = [method |-> q.method, code |-> o.code, value |-> o.value,
                       trusted |-> caller.oscore /\ caller.decrypted]
  /\ UNCHANGED <<path, granted, files>>

\* oc_storage_write, oc_storage_erase
WriteFile ==
  /\ todo # <<>>
  /\ files' = [files EXCEPT ![Head(todo)[1]] = Head(todo)[2]]
  /\ todo' = Tail(todo)
  /\ IF Len(todo) > 1 THEN UNCHANGED <<due, told>>
     ELSE /\ due' = <<>>
          /\ told' = [p \in DOMAIN told |->
               IF p \in DOMAIN due THEN {due[p]} ELSE told[p]]
  /\ UNCHANGED <<path, granted, info, answer>>

\* mutant: the programming mode is not read
ForgetsMode(fs) ==
  [Presets EXCEPT !.ia = IF fs.ia = Cut THEN @ ELSE fs.ia[1],
                  !.iid = IF fs.iid = Cut THEN @ ELSE fs.iid[1]]

Kept(contents, default) == IF contents = Cut THEN default ELSE contents[1]

\* oc_knx_device_storage_read after the application's init; a host name of one
\* character is not read
Started(fs) ==
  [Presets EXCEPT
     !.ia = Kept(fs.ia, @), !.iid = Kept(fs.iid, @), !.pm = Kept(fs.pm, @),
     !.hname = IF Len(Kept(fs.hname, <<>>)) > 1 THEN fs.hname[1] ELSE @,
     !.ap = [k \in 1 .. 3 |-> Kept(fs[VersionFiles[k]], Presets.ap[k])]]

\* The power fails, maybe in the middle of a write, and the device starts.  A
\* host name of one character may be lost.
PowerFailure ==
  /\ \E cut \in BOOLEAN :
       /\ cut => todo # <<>>
       /\ files' = IF cut THEN [files EXCEPT ![Head(todo)[1]] = Cut] ELSE files
  /\ info' = Started(files')
  /\ todo' = <<>>
  /\ due' = <<>>
  /\ told' = [p \in DOMAIN told |->
       IF p \notin Restored THEN {Presets[p]}
       ELSE told[p] \cup IF p = "hname" /\ \E h \in told[p] : Len(h) = 1
                         THEN {Presets[p]} ELSE {}]
  /\ answer' = NoAnswer
  /\ UNCHANGED <<path, granted>>

\* oc_core_set_and_store_device_ia and _iid, when an address is assigned
Assign(ia, iid) ==
  /\ todo = <<>>
  /\ info' = [info EXCEPT !.ia = ia, !.iid = iid]
  /\ todo' = <<<<"ia", <<ia>>>>, <<"iid", <<iid>>>>>>
  /\ due' = [ia |-> ia, iid |-> iid]
  /\ told' = Expect([ia |-> ia, iid |-> iid])
  /\ answer' = NoAnswer
  /\ UNCHANGED <<path, granted, files>>

\* oc_knx_device_storage_reset with the erase code 2, what it does to
\* properties: the version of the application stays
FactoryReset ==
  /\ todo = <<>>
  /\ \E change \in {[ia |-> 65535, iid |-> 0, fid |-> 0, port |-> 5683,
                     mport |-> 5683, hname |-> <<>>, pm |-> FALSE]} :
       /\ info' = change @@ info
       /\ due' = change
       /\ told' = Expect(change)
  /\ todo' = <<<<"ia", Cut>>, <<"iid", Cut>>, <<"fid", Cut>>, <<"pm", Cut>>,
               <<"port", <<5683>>>>, <<"mport", <<5683>>>>, <<"hname", Cut>>>>
  /\ answer' = NoAnswer
  /\ UNCHANGED <<path, granted, files>>

\* The programming mode is cleared in memory by the other erase codes and by a
\* restart command; its file keeps what it has.
ModeCleared == [told EXCEPT !.pm = @ \cup {FALSE}]

\* erase code 3
ResetAddress ==
  /\ todo = <<>>
  /\ info' = [info EXCEPT !.ia = 65535, !.pm = FALSE]
  /\ todo' = <<<<"ia", Cut>>>>
  /\ due' = [ia |-> 65535]
  /\ told' = [Expect([ia |-> 65535]) EXCEPT !.pm = @ \cup {FALSE}]
  /\ answer' = NoAnswer
  /\ UNCHANGED <<path, granted, files>>

\* erase code 7, and delayed_restart
Restart ==
  /\ todo = <<>>
  /\ info' = [info EXCEPT !.pm = FALSE]
  /\ told' = ModeCleared
  /\ answer' = NoAnswer
  /\ UNCHANGED <<path, granted, files, todo, due>>

Next == \/ \E c \in Callers, q \in Requests[path] : Request(c, q)
        \/ WriteFile \/ PowerFailure
        \/ \E ia \in Addresses, iid \in InstallationIds : Assign(ia, iid)
        \/ FactoryReset \/ ResetAddress \/ Restart

Spec == Init /\ [][Next]_vars

-----------------------------------------------------------------------------
(* Properties *)

\* The values the variables take.
TypeOK ==
  /\ <<path, granted>> \in Setups
  /\ DOMAIN info = DOMAIN Presets
  /\ DOMAIN files = Files
  /\ \A k \in DOMAIN todo : todo[k][1] \in Files
  /\ DOMAIN due \subseteq DOMAIN Presets
  /\ DOMAIN told = DOMAIN Presets
  /\ answer.code \in Errors \cup {Ok, Changed, NoAnswer.code}

\* A client reads what was last written, over restarts, resets and power
\* failures: of a property that was being written when the power failed the old
\* value, the new one or the preset, of one that is not stored the preset (the
\* GET handlers, oc_knx_device_storage_read and oc_knx_device_storage_reset).
WrittenIsRead ==
  answer.method = "GET" /\ answer.code = Ok =>
    /\ path \in DOMAIN PropOf => answer.value \in told[PropOf[path]]
    /\ path = "/dev/sna" => \E ia \in told.ia : answer.value = ia \div 256
    /\ path = "/dev/da" => \E ia \in told.ia : answer.value = ia % 256

\* A request that is answered with an error has changed nothing and stores
\* nothing (the checks of the PUT handlers come before their assignments).
RefusedUnchanged ==
  [][answer'.code \in Errors => UNCHANGED <<info, todo>>]_vars

\* A property changes on a client's request only for a message protected with a
\* token that was posted with one of the resource's interfaces, and never
\* otherwise (oc_knx_sec_check_acl before the handler).
OnlyWhoMay ==
  [][answer'.method = "PUT" /\ (info' # info \/ Len(todo') > Len(todo)) =>
       answer'.trusted /\ Range(granted) \cap Resource(<<>>, 0).ifs # {}]_vars

\* The scope of a token and the interfaces of a resource are told as they were
\* posted: in the answer about a token, in a link and in CBOR.
ScopeTold ==
  (\A j, k \in DOMAIN granted : granted[j] = granted[k] => j = k) =>
    \A told1 \in {Shown(Scope(granted)), Framed(Scope(granted)),
                  Encoded(Scope(granted))} :
      told1 = Range(granted) \ {"m"}

\* What the names of the interfaces suggest and the code does not ask: that the
\* interface the token and the resource share has the method.  A token for
\* diagnostics may PUT /swu/method, which has the interfaces swu and d.
GrantedMethod ==
  [][answer'.method = "PUT" /\ info' # info =>
       \E x \in Range(granted) \cap Resource(<<>>, 0).ifs :
         "PUT" \in MethodsOf[x]]_vars
=============================================================================
