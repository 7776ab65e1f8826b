------------------------------- MODULE Initdb -------------------------------
(***************************************************************************)
(* What start.py does to the database before the engine starts: Populate   *)
(* creates the tables a release needs and fills them, Upgrade rewrites the *)
(* rows an older release left, one version and one table at a time.        *)
(*                                                                         *)
(* Each write is a step of its own, the process may die between two of     *)
(* them, and the next start does all of it again from the version found in *)
(* the row of config, which is written once, at the very end.  So what     *)
(* matters is what a handler does when it finds its own work half done.    *)
(* The API and the webapp wait meanwhile for the table config.             *)
(***************************************************************************)
EXTENDS Naturals, Sequences, FiniteSets, SequencesExt, TLC

CONSTANTS
    Hyps, MainHyp,  \* the hypervisors of an old database, one of them isard-hypervisor
    Doms, Templates,    \* its domains, some of them templates,
    Tagged,             \* some of them desktops of
    Deps,               \* its deployments
    DepOf,              \* (the deployment of each)
    Texts,              \* those where a forced hypervisor of none is the text false
    Admin, OtherUser,
    AdminGone,      \* whether somebody deleted the default administrator
    Starts,         \* the versions the database may have, or Fresh for no database
    Missing,        \* tables that an old database does not have
    MaxCrashes, MaxFails

Release == 24
Fresh == Release + 1
Rows == "rows"

newtables == << "roles", "categories", "groups", "users", "vouchers", "hypervisors",
    "hypervisors_pools", "interfaces", "graphics", "videos", "domains", "virt_install",
    "media", "boots", "scheduler_jobs", "backups", "engine", "qos_net", "qos_disk",
    "remotevpn", "deployments", "secrets", "config" >>
upgraded == << "config", "hypervisors", "hypervisors_pools", "domains", "media", "videos",
    "graphics", "users", "roles", "groups", "interfaces", "deployments", "remotevpn" >>
Tables == Range(newtables)

Assumption ==
    /\ MainHyp \in Hyps /\ Templates \subseteq Doms /\ Tagged \subseteq Doms /\ Texts \subseteq Doms
    /\ DepOf \in [Tagged -> Deps]
    /\ Starts \subseteq 0..Fresh
    /\ Missing \subseteq {"secrets", "remotevpn"}
    /\ AdminGone \in BOOLEAN
    /\ MaxCrashes \in Nat /\ MaxFails \in Nat

VARIABLES
    pc,         \* what start.py is at
    todo,       \* the writes the current function is going to do
    at,         \* the version and the table whose upgrade comes next
    made,       \* of each table: how much of its creation was done
    old,        \* tables of older releases that are still there
    db,         \* what the tables hold
    api, web,   \* the API and the webapp, which start at the same time
    crashes, fails

vars == <<pc, todo, at, made, old, db, api, web, crashes, fails>>

-----------------------------------------------------------------------------
(* Populate: after its creation, what goes into each table, a write at a time. *)

RoleSteps == "roles" :> <<Rows>> @@ "categories" :> <<Rows>> @@ "groups" :> <<Rows>>
UserSteps == "users" :> <<Rows, "provider", "uid", "category", "group">>
NetworkSteps == "remotevpn" :> <<>> @@ "deployments" :> <<"user">> @@ "secrets" :> <<>>
QosNetSteps == "qos_net" :> <<Rows, "limit1M">>
QosDiskSteps == "qos_disk" :> <<Rows, "limit50MBps">>
InterfaceSteps == "interfaces" :>
    << Rows, "e1000_isolated", "virtio_shared", "private1", "private2", "private3", "private4",
       "private5", "roles", "categories", "groups", "users" >>
DisplaySteps == "graphics" :> <<Rows>> @@ "videos" :> <<Rows>>
MediaSteps ==
    "boots" :> <<Rows>> @@ "media" :> <<"status", "user", "kind">> @@ "scheduler_jobs" :> <<>>
HypervisorSteps == "hypervisors" :> <<>> @@ "hypervisors_pools" :> <<Rows>>
DomainSteps == "domains" :> <<"status", "hyp_started", "user", "group", "category", "kind">>
InstallSteps == "virt_install" :> <<Rows>>
OwnSteps == "config" :> <<Rows>> @@ "backups" :> <<>>
OtherSteps == "vouchers" :> <<>> @@ "engine" :> <<Rows>>

TableSteps ==
    RoleSteps @@ UserSteps @@ NetworkSteps @@ QosNetSteps @@ QosDiskSteps @@ InterfaceSteps
    @@ DisplaySteps @@ MediaSteps @@ HypervisorSteps @@ DomainSteps @@ InstallSteps
    @@ OwnSteps @@ OtherSteps

Indexed == {"users", "domains", "media", "deployments"}
Whole(t) == Len(TableSteps[t]) + 1

-----------------------------------------------------------------------------
(* A function is a sequence of blocks of writes.  An exception leaves the block:    *)
(* "log" goes on with the next one, "return" ends the function, "exit" the process. *)

Write(do, t, id, what) == [do |-> do, table |-> t, id |-> id, what |-> what]
Raise == Write("raise", "", "", "")
Block(onError, writes) == IF writes = <<>> THEN <<>> ELSE <<[onError |-> onError, writes |-> writes]>>
Try(writes) == Block("log", writes)
Bare(writes) == Block("exit", writes)
If(condition, writes) == IF condition THEN writes ELSE <<>>
ForEach(S, f(_)) == FlattenSeq([i \in 1..Cardinality(S) |-> f(SetToSeq(S)[i])])

AddField(t, id, f) == Write("add", t, id, f)            \* add_keys
DropField(t, f) == Write("drop", t, "", f)              \* del_keys, of every row
CreateIndex(t, i) == Write("index", t, "", i)           \* fails if the index exists
InsertRow(t, r) == Write("insert", t, "", r)

(* check_done looks done when one of the fields is there, or one that should go is not. *)
CheckDone(fields, must, mustnot) == must \cap fields # {} \/ ~(mustnot \subseteq fields)

\* Mutant: every index is created, whether it exists or not.
EnsureIndexesAll(t, is) == [k \in DOMAIN is |-> CreateIndex(t, is[k])]
(* index_create: only the indexes that the table does not have. *)
EnsureIndexes(t, is) == SelectSeq([k \in DOMAIN is |-> CreateIndex(t, is[k])],
                                  LAMBDA w: <<t, w.what>> \notin db.index)

FieldsOf(t, id) == db.fields[<<t, id>>]
IdsOf(t) == {x[2] : x \in {y \in DOMAIN db.fields : y[1] = t}}
-----------------------------------------------------------------------------
(* Upgrade: the handler of each table, for each version that has something to do. *)

Config1 == LET d == FieldsOf("config", 1) IN
    \* the conversion of grafana raises always: its cfg is not defined
    Try(If(~CheckDone(d, {"resources", "voucher_access", "api"}, {}),
           <<AddField("config", 1, "resources"), AddField("config", 1, "voucher_access"),
             AddField("config", 1, "api")>>))
    \o Try(If(~CheckDone(d, {}, {"carbon"}), <<DropField("config", "carbon")>>))
Config6 ==
    Try(<<AddField("config", 1, "engine grafana")>>)
    \o Try(If(~CheckDone(FieldsOf("config", 1), {}, {"grafana"}), <<DropField("config", "grafana")>>))
Config10 ==
    Try(<<IF "resources" \in FieldsOf("config", 1) THEN AddField("config", 1, "repository") ELSE Raise>>)
ConfigPlan(v) ==
    CASE v = 1 -> Config1
      [] v = 5 -> Bare(<<AddField("config", 1, "log_level")>>)
      [] v = 6 -> Config6
      [] v = 10 -> Config10
      [] OTHER -> <<>>

Hypervisors1(h) == LET d == FieldsOf("hypervisors", h) IN
    Try(If(~CheckDone(d, {"viewer_hostname", "viewer_nat_hostname"}, {}),
           <<AddField("hypervisors", h, "viewer_hostname"), AddField("hypervisors", h, "viewer_nat_hostname")>>))
Hypervisors2(h) ==
    Try(If(~CheckDone(FieldsOf("hypervisors", h), {"viewer_nat_offset"}, {}),
           <<AddField("hypervisors", h, "viewer_nat_offset")>>))
Hypervisors8(h) == LET d == FieldsOf("hypervisors", h)
                       gone == {"viewer_hostname", "viewer_nat_hostname", "viewer_nat_offset"} IN
    Try(If(~CheckDone(d, {"viewer"}, {}),
           <<IF "viewer_hostname" \in d THEN AddField("hypervisors", h, "viewer") ELSE Raise>>))
    \o Try(If(~CheckDone(d, {}, gone),
              ForEach(gone, LAMBDA f: <<DropField("hypervisors", f)>>)))
Hypervisors11(h) ==
    Try(If(h = MainHyp /\ ~CheckDone(FieldsOf("hypervisors", h), {"hypervisor_number"}, {}),
           <<AddField("hypervisors", h, "hypervisor_number")>>))
Hypervisors13(h) ==     \* it looks for viewer, not for the port in it
    Try(If(~CheckDone(FieldsOf("hypervisors", h), {}, {"viewer"}),
           <<AddField("hypervisors", h, "viewer ports")>>))
Hypervisors21 == Bare(<<CreateIndex("hypervisors", "wg_client_ip")>>)  \* its except raises: e is not bound
HypervisorsPlan(v) ==
    CASE v = 1 -> ForEach(IdsOf("hypervisors"), Hypervisors1)
      [] v = 2 -> ForEach(IdsOf("hypervisors"), Hypervisors2)
      [] v = 8 -> ForEach(IdsOf("hypervisors"), Hypervisors8)
      [] v = 11 -> ForEach(IdsOf("hypervisors"), Hypervisors11)
      [] v = 13 -> ForEach(IdsOf("hypervisors"), Hypervisors13)
      [] v = 21 -> Hypervisors21
      [] OTHER -> <<>>

Pools1(p) == LET d == FieldsOf("hypervisors_pools", p) IN
    Bare(If(~CheckDone(d, {"media"}, {}), <<AddField("hypervisors_pools", p, "media")>>)
         \o If(~CheckDone(d, {}, {"isos"}), <<DropField("hypervisors_pools", "isos")>>))
Pools4(p) ==
    Bare(If(~CheckDone(FieldsOf("hypervisors_pools", p), {"cpu_host_model"}, {}),
            <<AddField("hypervisors_pools", p, "cpu_host_model")>>))
Pools19(p) == Bare(<<AddField("hypervisors_pools", p, "disk_operations")>>)
PoolsPlan(v) ==
    CASE v \in {1, 3} -> ForEach(IdsOf("hypervisors_pools"), Pools1)
      [] v = 4 -> ForEach(IdsOf("hypervisors_pools"), Pools4)
      [] v = 19 -> ForEach(IdsOf("hypervisors_pools"), Pools19)
      [] OTHER -> <<>>

Domains18 == Try(ForEach({d \in DOMAIN db.tag : db.tag[d][2] = "#"},
                         LAMBDA d: <<Write("tag", "domains", d, "=")>>))
(* The second test is of the row as it was read, before the first write. *)
Domains20(d) == LET forced == db.forced[d] IN
    Bare(If(forced \in {"h", "false"}, <<Write("forced", "domains", d, IF forced = "h" THEN "[h]" ELSE "[false]")>>)
         \o If(forced = "[false]", <<Write("forced", "domains", d, "False")>>))
Domains22 ==
    Try(<<CreateIndex("domains", "image_id")>>)
    \o Try(ForEach(IdsOf("domains"), LAMBDA d: <<AddField("domains", d, "image")>>))
Domains24 == Try(ForEach({d \in IdsOf("domains") : "image" \notin FieldsOf("domains", d)},
                         LAMBDA d: <<AddField("domains", d, "image")>>))
DomainsPlan(v) ==
    CASE v = 2 -> ForEach(IdsOf("domains"), LAMBDA d: Try(<<AddField("domains", d, "viewers")>>))
      [] v = 7 -> ForEach(IdsOf("domains"), LAMBDA d: Bare(<<AddField("domains", d, "id_graphics")>>))
      [] v = 14 -> Bare(EnsureIndexes("domains", <<"tag">>))
      [] v = 16 -> Try(<<CreateIndex("domains", "wg_mac")>>)
      [] v = 18 -> Domains18
      [] v = 20 -> ForEach(DOMAIN db.forced, Domains20)
      [] v = 22 -> Domains22
      [] v = 23 -> Bare(ForEach(IdsOf("domains") \cap Templates, LAMBDA d: <<AddField("domains", d, "enabled")>>))
      [] v = 24 -> Domains24
      [] OTHER -> <<>>

MediaPlan(v) ==
    CASE v = 3 -> Bare(EnsureIndexes("media", <<"kind">>))
      [] v = 9 -> Bare(EnsureIndexes("media", <<"category", "group">>))
      [] OTHER -> <<>>
VideosPlan(v) == Bare(If(v = 12, <<InsertRow("videos", "gpu-default")>>))
\* Mutant: what is not there is not replaced.
GraphicsPlanReplaces(v) ==
    Bare(If(v = 7 /\ <<"graphics", "default">> \in db.rows,
            <<Write("delete", "graphics", "", "default"), InsertRow("graphics", "default")>>))
GraphicsPlan(v) ==
    Bare(If(v = 7, <<Write("delete", "graphics", "", "default"), InsertRow("graphics", "default")>>))
Users13 ==
    IF Admin \notin DOMAIN db.photo THEN <<Raise>>     \* pluck of a row that is not there
    ELSE If(db.photo[Admin] \in {"None", "False", "text"}, <<Write("photo", "users", {Admin}, "text")>>)
Users15 ==
    LET Having(p) == {u \in DOMAIN db.photo : db.photo[u] = p}
    IN  ForEach({"None", "False", "absent"}, LAMBDA p: If(Having(p) # {}, <<Write("photo", "users", Having(p), "text")>>))
UsersPlan(v) ==
    CASE v = 9 -> Bare(EnsureIndexes("users", <<"category">>))
      [] v = 13 -> Bare(Users13)
      [] v = 15 -> Bare(Users15)
      [] v = 21 -> Bare(<<CreateIndex("users", "wg_client_ip")>>)  \* its except raises, too
      [] OTHER -> <<>>
RolesPlan(v) == Bare(If(v = 9 /\ <<"roles", "manager">> \notin db.rows, <<InsertRow("roles", "manager")>>))
GroupsPlan(v) == Bare(If(v = 9, EnsureIndexes("groups", <<"parent_category">>)))
InterfacesPlan(v) == LET wireguard == <<"interfaces", "wireguard">> \in db.rows IN
    CASE v = 11 -> Bare(If(~wireguard, <<InsertRow("interfaces", "wireguard")>>))
      [] v = 16 -> Bare(If(~wireguard, <<InsertRow("interfaces", "wireguard")>>)
                        \o <<InsertRow("interfaces", "wireguard ovs")>>)
      [] v = 17 -> Bare(If(<<"interfaces", "br-">> \in db.rows, <<Write("delete", "interfaces", "", "br-")>>))
      [] OTHER -> <<>>
DeploymentsPlan(v) ==
    Try(If(v = 18, ForEach(db.dep, LAMBDA d: <<Write("dep delete", "deployments", d, ""),
                                               Write("dep insert", "deployments", <<d[1], "=">>, "")>>)))
RemoteVpnPlan(v) == Try(If(v = 21, <<CreateIndex("remotevpn", "wg_client_ip")>>))

Plan(t, v) ==
    CASE t = "config" -> ConfigPlan(v)
      [] t = "hypervisors" -> HypervisorsPlan(v)
      [] t = "hypervisors_pools" -> PoolsPlan(v)
      [] t = "domains" -> DomainsPlan(v)
      [] t = "media" -> MediaPlan(v)
      [] t = "videos" -> VideosPlan(v)
      [] t = "graphics" -> GraphicsPlan(v)
      [] t = "users" -> UsersPlan(v)
      [] t = "roles" -> RolesPlan(v)
      [] t = "groups" -> GroupsPlan(v)
      [] t = "interfaces" -> InterfacesPlan(v)
      [] t = "deployments" -> DeploymentsPlan(v)
      [] t = "remotevpn" -> RemoteVpnPlan(v)

-----------------------------------------------------------------------------
(* The writes. *)

AlwaysFails(w) ==
    \/ w.do = "raise"
    \/ w.do = "index" /\ (<<w.table, w.what>> \in db.index \/ made[w.table] = 0)

(* What a step of the creation of t leaves in it that an upgrade looks at. *)
Made(t, d) ==
    IF made[t] = 0 THEN d
    ELSE LET s == TableSteps[t][made[t]] IN
         CASE t = "config" -> [d EXCEPT !.version = 0,
                    !.fields = @ @@ <<"config", 1>> :> {"grafana", "resources", "voucher_access", "repository", "log_level"}]
           [] t = "hypervisors_pools" -> [d EXCEPT !.fields = @ @@ <<t, "default">> :> {"media", "cpu_host_model"}]
           [] t = "users" /\ s = Rows -> [d EXCEPT !.photo = @ @@ Admin :> "text"]
           [] t = "roles" -> [d EXCEPT !.rows = @ \cup {<<t, "manager">>}]
           [] t = "graphics" -> [d EXCEPT !.rows = @ \cup {<<t, "default">>}]
           [] t \in Indexed /\ s # Rows -> [d EXCEPT !.index = @ \cup {<<t, s>>}]
           [] OTHER -> d

Effect(w, d) ==
    CASE w.do = "make" -> Made(w.table, d)
      [] w.do = "add" -> [d EXCEPT !.fields[<<w.table, w.id>>] = @ \cup {w.what}]
      [] w.do = "drop" -> [d EXCEPT !.fields = [x \in DOMAIN @ |-> IF x[1] = w.table THEN @[x] \ {w.what} ELSE @[x]]]
      [] w.do = "index" -> [d EXCEPT !.index = @ \cup {<<w.table, w.what>>}]
      [] w.do = "insert" -> [d EXCEPT !.rows = @ \cup {<<w.table, w.what>>}]
      [] w.do = "delete" -> [d EXCEPT !.rows = @ \ {<<w.table, w.what>>}]
      [] w.do = "tag" -> [d EXCEPT !.tag[w.id] = <<@[1], w.what>>]
      [] w.do = "forced" -> [d EXCEPT !.forced[w.id] = w.what]
      [] w.do = "photo" -> [d EXCEPT !.photo = [u \in DOMAIN @ |-> IF u \in w.id THEN w.what ELSE @[u]]]
      [] w.do = "dep delete" -> [d EXCEPT !.dep = @ \ {w.id}]
      [] w.do = "dep insert" -> [d EXCEPT !.dep = @ \cup {w.id}]
      [] OTHER -> d     \* a table dropped

-----------------------------------------------------------------------------
(* The rows an older release leaves at version v. *)

OldConfig(v) ==
    IF v < 1 THEN {"carbon"}
    ELSE {"resources", "voucher_access", "api"} \cup (IF v < 6 THEN {"grafana"} ELSE {"engine grafana"})
         \cup (IF v < 5 THEN {} ELSE {"log_level"}) \cup (IF v < 10 THEN {} ELSE {"repository"})
OldHypervisor(h, v) ==
    CASE v < 1 -> {}
      [] v = 1 -> {"viewer_hostname", "viewer_nat_hostname"}
      [] v \in 2..7 -> {"viewer_hostname", "viewer_nat_hostname", "viewer_nat_offset"}
      [] OTHER -> {"viewer"} \cup (IF v < 11 \/ h # MainHyp THEN {} ELSE {"hypervisor_number"})
                             \cup (IF v < 13 THEN {} ELSE {"viewer ports"})
OldPool(v) ==
    (IF v < 3 THEN {"isos"} ELSE {"media"}) \cup (IF v < 4 THEN {} ELSE {"cpu_host_model"})
    \cup (IF v < 19 THEN {} ELSE {"disk_operations"})
OldDomain(d, v) ==
    (IF v < 2 THEN {} ELSE {"viewers"}) \cup (IF v < 7 THEN {} ELSE {"id_graphics"})
    \cup (IF v < 23 \/ d \notin Templates THEN {} ELSE {"enabled"})
    \* those created from an image of qcow2 have no image until 24
    \cup (IF v < 22 \/ (v < 24 /\ d \in Templates) THEN {} ELSE {"image"})

UpgradeIndexes ==   \* with the version that creates each
    { <<14, "domains", "tag">>, <<16, "domains", "wg_mac">>, <<22, "domains", "image_id">>,
      <<9, "media", "category">>, <<9, "media", "group">>, <<9, "groups", "parent_category">>,
      <<21, "hypervisors", "wg_client_ip">>, <<21, "users", "wg_client_ip">>,
      <<21, "remotevpn", "wg_client_ip">> }
UpgradeRows ==
    { <<9, "roles", "manager">>, <<12, "videos", "gpu-default">>, <<11, "interfaces", "wireguard">>,
      <<16, "interfaces", "wireguard ovs">>, <<0, "graphics", "default">> }
UpTo(v, S) == {<<x[2], x[3]>> : x \in {y \in S : y[1] <= v}}
PopulateIndexes(t) == {<<t, i>> : i \in Range(TableSteps[t]) \ {Rows}}

(* No forced hypervisor was False, the list of the text "false", or the text itself. *)
OldForced(d, forced) == IF forced = "[false]" /\ d \in Texts THEN "false" ELSE forced

OldDatabase(v, forced) ==
    [version |-> v,
     fields |-> (<<"config", 1>> :> OldConfig(v)) @@ (<<"hypervisors_pools", "default">> :> OldPool(v))
                @@ [x \in {"hypervisors"} \X Hyps |-> OldHypervisor(x[2], v)]
                @@ [x \in {"domains"} \X Doms |-> OldDomain(x[2], v)],
     tag |-> [d \in Tagged |-> <<DepOf[d], IF v < 18 THEN "#" ELSE "=">>],
     forced |-> [d \in Doms |-> OldForced(d, forced)],
     photo |-> [u \in {OtherUser} \cup (IF AdminGone THEN {} ELSE {Admin}) |->
                   IF v < 13 THEN "False" ELSE IF v < 15 THEN (IF u = Admin THEN "text" ELSE "absent") ELSE "text"],
     dep |-> {<<d, IF v < 18 THEN "#" ELSE "=">> : d \in Deps},
     rows |-> UpTo(v, UpgradeRows) \cup (IF v < 17 THEN {<<"interfaces", "br-">>} ELSE {}),
     index |-> UpTo(v, UpgradeIndexes) \cup UNION {PopulateIndexes(t) : t \in Indexed}]

NoDatabase ==
    [version |-> 0, fields |-> <<>>, tag |-> <<>>, forced |-> <<>>, photo |-> <<>>, dep |-> {}, rows |-> {}, index |-> {}]

ForcedBefore(v) == IF v < 20 THEN {"False", "h", "[false]"} ELSE {"False", "[h]"}

Init ==
    /\ pc = "down" /\ todo = <<>> /\ at = <<0, 1>>
    /\ \E v \in Starts :
        IF v = Fresh
        THEN made = [t \in Tables |-> 0] /\ old = {} /\ db = NoDatabase
        ELSE /\ made = [t \in Tables |-> IF t \in Missing THEN 0 ELSE Whole(t)]
             /\ old = {"disk_operations"}
             /\ \E forced \in ForcedBefore(v) : db = OldDatabase(v, forced)
    /\ api = "waits" /\ web = "waits"
    /\ crashes = 0 /\ fails = 0

-----------------------------------------------------------------------------
(* check_integrity: the tables to create, config the last one, and those to delete. *)
PopulatePlan ==
    Block("return",
        FlattenSeq([i \in DOMAIN newtables |->
            If(made[newtables[i]] = 0, [k \in 1..Whole(newtables[i]) |-> Write("make", newtables[i], "", "")])])
        \o ForEach(old, LAMBDA t: <<Write("drop table", t, "", "")>>))

Boot ==
    /\ pc = "down"
    /\ pc' = "populate" /\ todo' = PopulatePlan
    /\ UNCHANGED <<at, made, old, db, api, web, crashes, fails>>

(* Upgrade.__init__ and upgrade_if_needed: without the row of config they raise. *)
ReadVersion ==
    /\ pc = "populate" /\ todo = <<>>
    /\ pc' = IF made["config"] < Whole("config") THEN "down"
             ELSE IF Release > db.version THEN "upgrade" ELSE "up"
    /\ at' = <<db.version + 1, 1>>
    /\ UNCHANGED <<todo, made, old, db, api, web, crashes, fails>>

NextTable ==
    /\ pc = "upgrade" /\ todo = <<>> /\ at[1] <= Release
    /\ todo' = Plan(upgraded[at[2]], at[1])
    /\ at' = IF at[2] < Len(upgraded) THEN <<at[1], at[2] + 1>> ELSE <<at[1] + 1, 1>>
    /\ UNCHANGED <<pc, made, old, db, api, web, crashes, fails>>

WriteVersion ==
    /\ pc = "upgrade" /\ todo = <<>> /\ at[1] > Release
    /\ db' = [db EXCEPT !.version = Release]
    /\ pc' = "up"
    /\ UNCHANGED <<todo, at, made, old, api, web, crashes, fails>>

NextWrite == Head(todo[1].writes)

DoWrite ==
    /\ todo # <<>> /\ ~AlwaysFails(NextWrite)
    /\ todo' = Block(todo[1].onError, Tail(todo[1].writes)) \o Tail(todo)
    /\ db' = Effect(NextWrite, db)
    /\ made' = IF NextWrite.do = "make" THEN [made EXCEPT ![NextWrite.table] = @ + 1] ELSE made
    /\ old' = IF NextWrite.do = "drop table" THEN old \ {NextWrite.table} ELSE old
    /\ UNCHANGED <<pc, at, api, web, crashes, fails>>

\* Mutant: a failure does not end check_integrity.
ThrowGoesOn ==
    /\ todo' = (IF todo[1].onError = "return" THEN Block("return", Tail(todo[1].writes)) ELSE <<>>) \o Tail(todo)
    /\ pc' = IF todo[1].onError = "exit" THEN "down" ELSE pc
Throw ==
    /\ todo' = IF todo[1].onError = "log" THEN Tail(todo) ELSE <<>>
    /\ pc' = IF todo[1].onError = "exit" THEN "down" ELSE pc

WriteRaises ==
    /\ todo # <<>> /\ AlwaysFails(NextWrite)
    /\ Throw
    /\ UNCHANGED <<at, made, old, db, api, web, crashes, fails>>

(* The database refuses a write. *)
WriteFails ==
    /\ todo # <<>> /\ ~AlwaysFails(NextWrite) /\ fails < MaxFails
    /\ Throw
    /\ fails' = fails + 1
    /\ UNCHANGED <<at, made, old, db, api, web, crashes>>

Crash ==
    /\ pc # "down" /\ crashes < MaxCrashes
    /\ pc' = "down" /\ todo' = <<>>
    /\ crashes' = crashes + 1
    /\ UNCHANGED <<at, made, old, db, api, web, fails>>

(* check_db of the API: once config is there it writes its secrets. *)
ApiLooks ==
    /\ api = "waits" /\ made["config"] > 0
    /\ api' = IF made["secrets"] > 0 THEN "serves" ELSE "failed"
    /\ UNCHANGED <<pc, todo, at, made, old, db, web, crashes, fails>>

(* check_db of the webapp: once config is there it reads the row of it. *)
WebLooks ==
    /\ web = "waits" /\ made["config"] > 0
    /\ web' = IF made["config"] = Whole("config") THEN "serves" ELSE "failed"
    /\ UNCHANGED <<pc, todo, at, made, old, db, api, crashes, fails>>

(* Docker starts them again. *)
ApiRestarts ==
    /\ api = "failed" /\ api' = "waits"
    /\ UNCHANGED <<pc, todo, at, made, old, db, web, crashes, fails>>
WebRestarts ==
    /\ web = "failed" /\ web' = "waits"
    /\ UNCHANGED <<pc, todo, at, made, old, db, api, crashes, fails>>

StartSteps == Boot \/ ReadVersion \/ NextTable \/ WriteVersion \/ DoWrite \/ WriteRaises
Next == StartSteps \/ WriteFails \/ Crash \/ ApiLooks \/ WebLooks \/ ApiRestarts \/ WebRestarts

Spec == Init /\ [][Next]_vars

-----------------------------------------------------------------------------
(* Properties. *)

(* The types of the variables. *)
TypeOK ==
    /\ pc \in {"down", "populate", "upgrade", "up"}
    /\ at \in (0..Fresh) \X (1..Len(upgraded))
    /\ \A t \in Tables : made[t] \in 0..Whole(t)
    /\ old \subseteq {"disk_operations"}
    /\ db.version \in 0..Release
    /\ \A x \in DOMAIN db.fields : x[1] \in Tables
    /\ \A d \in DOMAIN db.tag : db.tag[d] \in Deps \X {"#", "="}
    /\ \A d \in DOMAIN db.forced : db.forced[d] \in {"False", "false", "h", "[h]", "[false]"}
    /\ \A u \in DOMAIN db.photo : db.photo[u] \in {"None", "False", "absent", "text"}
    /\ db.dep \subseteq Deps \X {"#", "="}
    /\ api \in {"waits", "serves", "failed"} /\ web \in {"waits", "serves", "failed"}
    /\ \A i \in DOMAIN todo : todo[i].writes # <<>>
    /\ crashes \in 0..MaxCrashes /\ fails \in 0..MaxFails

HypervisorsUpgraded ==
    \A h \in IdsOf("hypervisors") :
        /\ {"viewer", "viewer ports"} \subseteq FieldsOf("hypervisors", h)
        /\ FieldsOf("hypervisors", h) \cap {"viewer_hostname", "viewer_nat_hostname", "viewer_nat_offset"} = {}
DomainsHaveImage == \A d \in IdsOf("domains") : "image" \in FieldsOf("domains", d)
TemplatesEnabled == \A d \in IdsOf("domains") \cap Templates : "enabled" \in FieldsOf("domains", d)
(* No text is left, and of the lists of "false" only those the upgrade made itself: it    *)
(* puts the text into a list and does not look at what it wrote.                       *)
ForcedAreLists ==
    \A d \in DOMAIN db.forced :
        db.forced[d] \in {"False", "[h]"} \cup (IF d \in Texts THEN {"[false]"} ELSE {})
PhotosAreText == \A u \in DOMAIN db.photo : db.photo[u] = "text"
TagsHaveDeployment == \A d \in DOMAIN db.tag : db.tag[d] \in db.dep /\ db.tag[d][2] = "="
ConfigUpgraded ==
    /\ {"resources", "voucher_access", "engine grafana", "repository"} \subseteq FieldsOf("config", 1)
    /\ FieldsOf("config", 1) \cap {"carbon", "grafana"} = {}
PoolsUpgraded ==
    \A p \in IdsOf("hypervisors_pools") :
        /\ {"media", "cpu_host_model", "disk_operations"} \subseteq FieldsOf("hypervisors_pools", p)
        /\ "isos" \notin FieldsOf("hypervisors_pools", p)
IndexesThere == {<<x[2], x[3]>> : x \in UpgradeIndexes} \subseteq db.index
RowsThere == {<<x[2], x[3]>> : x \in UpgradeRows} \subseteq db.rows /\ <<"interfaces", "br-">> \notin db.rows

(* What upgrade.py:22 to 30 lists as the releases' changes is there when the engine    *)
(* starts, whatever version the database had.                                          *)
UpgradedWhole ==
    pc = "up" =>
        /\ HypervisorsUpgraded /\ DomainsHaveImage /\ TemplatesEnabled /\ ForcedAreLists
        /\ PhotosAreText /\ TagsHaveDeployment /\ ConfigUpgraded /\ PoolsUpgraded
        /\ IndexesThere /\ RowsThere
        /\ \A t \in Tables : made[t] = Whole(t)
        /\ old = {}

(* What a crash or a refused write leaves half done, the next start or a later version   *)
(* does again: release 24 for the images that 22 missed, and so on.                      *)
RepairedAtNextStart ==
    pc = "up" =>
        /\ DomainsHaveImage /\ TemplatesEnabled /\ ForcedAreLists /\ PhotosAreText
        /\ PoolsUpgraded /\ RowsThere

(* populate.py:102: config is the last table to be created, so who finds it finds all    *)
(* of them, however often the creation was interrupted.                                  *)
ConfigComesLast == made["config"] > 0 => \A t \in Tables : made[t] > 0

(* populate.py:103: the API waits for config, then writes into secrets.                  *)
ApiFindsSecrets == api # "failed"
=============================================================================
