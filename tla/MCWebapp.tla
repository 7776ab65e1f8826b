------------------------------ MODULE MCWebapp ------------------------------
(***************************************************************************)
(* Instances of Hardware, Deployments, Feeds and Alloweds for TLC, each    *)
(* for the properties that hold under what it lets happen.  One is chosen at the   *)
(* start, and the state of the other modules is left out; the tables of    *)
(* Deployments, whose properties are checked by their own names, are empty *)
(* then.                                                                   *)
(***************************************************************************)
EXTENDS Deployments, TLC

CONSTANTS d1, d2, m1, m2, n1, n2, c1, c2, u1, u2, u3, i1, i2, p1, s1, s2, Default

VARIABLES machine, medium, net,
          table, row, secret, feed, open, missed, page, inbox, shown, last, ram, breaks,
          present, item, scenario
hardware == <<machine, medium, net>>
deployed == <<desktop, deployment>>
feeds == <<table, row, secret, feed, open, missed, page, inbox, shown, last, ram, breaks>>
shares == <<present, item>>
runVars == <<hardware, deployed, client, saw, answer, ops, feeds, shares, scenario>>

----------------------------------------------------------------------------
(* Hardware: two desktops and their media and interfaces.                  *)

UserOps == {"start", "shut_down", "guest_off", "delete"}
NetOps == {"domain_edit", "interface_delete"} \cup UserOps
MediaOps == {"media_delete", "domain_edit", "admin_domain_edit", "domain_from_media", "delete", "webapp_restarts"}
DiskOps == {"domain_from_disk", "domain_from_media", "media_delete", "delete"}
ManyOps == {"media_delete", "domain_from_media", "domain_from_disk", "webapp_restarts"} \cup NetOps

OneEdits == [media |-> {}, nets |-> {}, quota |-> 0, cpus |-> 0, clients |-> {c1}, settled |-> FALSE,
             slow |-> FALSE, max |-> 5, ops |-> {}]
Changes == [
    \* Interfaces are deleted while the engine is late.
    nets  |-> [OneEdits EXCEPT !.nets = {n1, n2}, !.slow = TRUE, !.max = 4, !.ops = NetOps],
    \* The same, one request at a time.
    xml   |-> [OneEdits EXCEPT !.nets = {n1, n2}, !.settled = TRUE, !.ops = NetOps],
    \* A medium is deleted while desktops are edited.
    media |-> [OneEdits EXCEPT !.media = {m1}, !.quota = 1, !.cpus = 2, !.ops = MediaOps],
    \* Media become disks.
    disks |-> [OneEdits EXCEPT !.media = {m1, m2}, !.ops = DiskOps],
    \* Two requests at once.
    two   |-> [OneEdits EXCEPT !.media = {m1}, !.nets = {n1}, !.clients = {c1, c2}, !.slow = TRUE, !.max = 2,
                               !.ops = ManyOps]]

H(s) == INSTANCE Hardware WITH
    desktop <- machine, Desktops <- {d1, d2}, Media <- Changes[s].media, Nets <- Changes[s].nets, Quota <- Changes[s].quota,
    MaxCpus <- Changes[s].cpus, Clients <- Changes[s].clients, Settled <- Changes[s].settled,
    Slow <- Changes[s].slow, MaxOps <- Changes[s].max, Ops <- Changes[s].ops

ASSUME \A s \in DOMAIN Changes : H(s)!Assumption

----------------------------------------------------------------------------
(* Deployments: one deployment of u1, two requests at once of which one    *)
(* makes desktops or deletes the deployment, and names that are parsed     *)
(* into ids of their own or into the same.                                 *)

OwnIds == [n \in Names |-> IF n = n1 THEN i1 ELSE i2]
OwnedByFirst == [p \in Deployments |-> u1]
OneAndTwo == [u \in Users |-> IF u = u1 THEN 1 ELSE 2]

Powers == {"Starting", "Shutting-down", "Stopping", "Deleting", "guest_off"}
Deploys == {"domain_add_advanced", "domain_recreate_advanced", "domain_delete_advanced"}
Adds == {"domain_add", "auto_user", "domain_add_admin", "domain_edit", "domain_template_add"}

Makes == [
    \* A deployment comes and goes while its desktops are used.
    tags  |-> [ids |-> [n \in {n1} |-> i1], slow |-> TRUE, max |-> 4, ops |-> Deploys \cup {"domain_edit"} \cup Powers],
    \* Desktops made in every way.
    quota |-> [ids |-> IdOf, slow |-> FALSE, max |-> 3, ops |-> (Deploys \cup Adds) \ {"domain_edit"}],
    \* Two names for one desktop.
    names |-> [ids |-> [n \in Names |-> i1], slow |-> TRUE, max |-> 2, ops |-> Deploys \cup Adds \cup Powers]]

D(s) == INSTANCE Deployments WITH
    Names <- DOMAIN Makes[s].ids, IdOf <- Makes[s].ids, Slow <- Makes[s].slow, MaxOps <- Makes[s].max,
    Ops <- Makes[s].ops

ASSUME \A s \in DOMAIN Makes : D(s)!Assumption

----------------------------------------------------------------------------
(* Feeds: one page or two of each.                                         *)

OneFeed == [followed |-> {"domains"}, desktops |-> {d1, d2}, secrets |-> {}, pages |-> {}, patient |-> FALSE,
        first |-> TRUE, max |-> 4, breaks |-> 1, ops |-> {}]
Watches == [
    \* Desktops and media on the page of their user and on that of administrators.
    user       |-> [OneFeed EXCEPT !.followed = {"domains", "media"}, !.desktops = {d1}, !.pages = {"user"},
                               !.ops = {"insert", "insert_media", "status", "toggle", "delete"}],
    admins     |-> [OneFeed EXCEPT !.followed = {"domains", "media"}, !.desktops = {d1}, !.pages = {"admins"},
                               !.ops = {"insert", "insert_media", "status", "toggle", "delete"}],
    \* The tables that only administrators see.
    system     |-> [OneFeed EXCEPT !.followed = {"resources", "users", "hypervisors", "config"}, !.pages = {"admins"},
                               !.max = 3, !.ops = {"insert", "status", "delete"}],
    \* Desktops that are hidden and shown in the lists of the frontend.
    hides      |-> [OneFeed EXCEPT !.pages = {"desktops"}, !.max = 3,
                               !.ops = {"insert", "status", "toggle", "toggle_started", "delete"}],
    deployment |-> [OneFeed EXCEPT !.desktops = {d1}, !.pages = {"deployment"},
                               !.ops = {"insert", "status", "toggle", "toggle_started", "delete"}],
    \* Desktops that change only their status.
    shows      |-> [OneFeed EXCEPT !.pages = {"deployment"}, !.max = 3, !.ops = {"insert", "status", "delete"}],
    counts     |-> [OneFeed EXCEPT !.pages = {"deployments"}, !.max = 3, !.ops = {"insert", "status", "delete"}],
    \* Secrets.
    secrets    |-> [OneFeed EXCEPT !.desktops = {}, !.secrets = {s1, s2}, !.breaks = 2, !.ops = {"secret"}],
    \* A page that opens while things change.
    opens      |-> [OneFeed EXCEPT !.desktops = {d1}, !.secrets = {s1}, !.pages = {"admins", "deployments"},
                               !.patient = TRUE, !.first = FALSE, !.max = 3,
                               !.ops = {"insert", "insert_media", "status", "toggle_busy", "delete", "secret"}]]

F(s) == INSTANCE Feeds WITH
    Followed <- Watches[s].followed, Desktops <- Watches[s].desktops, Secrets <- Watches[s].secrets,
    Pages <- Watches[s].pages, Ops <- Watches[s].ops, Patient <- Watches[s].patient,
    PagesFirst <- Watches[s].first, MaxOps <- Watches[s].max, MaxBreaks <- Watches[s].breaks

ASSUME \A s \in DOMAIN Watches : F(s)!Assumption

----------------------------------------------------------------------------
(* Alloweds: an administrator, a user and a manager, and who owns what.    *)

Is(role, category, group, u) == [roles |-> role, categories |-> category, groups |-> group, users |-> u]
Two == u1 :> Is("admin", "default", "admins", u1) @@ u2 :> Is("advanced", "school", "teachers", u2)
Three == Two @@ u3 :> Is("manager", "school", "managers", u3)
Private == Is(None, None, None, None)
Everyone == [Private EXCEPT !.roles = {}]
ByDefault == [k \in DOMAIN Private |-> {}]
Some == [Private EXCEPT !.groups = {"teachers"}, !.categories = {"default"}]

OneShare == [who |-> Two, kinds |-> <<>>, owner |-> <<>>, nets |-> {}, given |-> {Private}, ops |-> {}]
Shares == [
    \* Forms of what a user owns are saved while users, groups and the items are deleted.
    access   |-> [OneShare EXCEPT !.kinds = i1 :> "base" @@ i2 :> "medium", !.owner = i1 :> u2 @@ i2 :> u2,
                                  !.given = {Private, Some}, !.ops = {"save", "item_goes", "row_goes"}],
    \* A template that is made, shared and enabled, and a medium.
    lists    |-> [OneShare EXCEPT !.who = Three, !.kinds = i1 :> "template" @@ i2 :> "medium",
                                  !.owner = i1 :> u2 @@ i2 :> u1,
                                  !.given = {Private, Some, ByDefault},
                                  !.ops = {"template", "api_template", "save", "enable", "row_goes"}],
    \* Two interfaces that are shared, and desktops of templates with one.
    hardware |-> [OneShare EXCEPT !.kinds = i1 :> "interface" @@ i2 :> "interface",
                                  !.owner = i1 :> u1 @@ i2 :> u1, !.given = {Private, Everyone},
                                  !.nets = {{i1}, {i2}}, !.ops = {"save", "hardware", "iso"}]]

A(s) == INSTANCE Alloweds WITH
    Users <- DOMAIN Shares[s].who, Items <- DOMAIN Shares[s].kinds, No <- None, Attribute <- Shares[s].who,
    KindOf <- Shares[s].kinds, Owner <- Shares[s].owner, SharesTemplates <- FALSE,
    TemplateNets <- Shares[s].nets, Given <- Shares[s].given, Clients <- {c1}, Ops <- Shares[s].ops,
    MaxTouches <- 1, MaxOps <- 3

ASSUME \A s \in DOMAIN Shares : A(s)!Assumption

----------------------------------------------------------------------------
NoFeeds ==
    /\ table = None /\ row = None /\ secret = None /\ feed = None /\ open = None /\ missed = None
    /\ page = None /\ inbox = None /\ shown = None /\ last = None /\ ram = None /\ breaks = None

NoDesktops ==
    /\ desktop = [d \in Desktops |-> None]
    /\ deployment = [p \in Deployments |-> None]

NoHardware == machine = None /\ medium = None /\ net = None
NoShares == present = None /\ item = None

RunInit ==
    \/ \E s \in DOMAIN Changes : scenario = s /\ H(s)!Init /\ NoDesktops /\ NoFeeds /\ NoShares
    \/ \E s \in DOMAIN Makes : scenario = s /\ D(s)!Init /\ NoHardware /\ NoFeeds /\ NoShares
    \/ \E s \in DOMAIN Watches : scenario = s /\ F(s)!Init /\ NoHardware /\ NoDesktops
                                 /\ NoShares /\ client = None /\ saw = None
    \/ \E s \in DOMAIN Shares : scenario = s /\ A(s)!Init /\ NoHardware /\ NoDesktops /\ NoFeeds
                                /\ saw = None /\ answer = None

RunNext ==
    /\ UNCHANGED scenario
    /\ \/ \E s \in DOMAIN Changes : scenario = s /\ H(s)!Next /\ UNCHANGED <<deployed, feeds, shares>>
       \/ \E s \in DOMAIN Makes : scenario = s /\ D(s)!Next /\ UNCHANGED <<hardware, feeds, shares>>
       \/ \E s \in DOMAIN Watches : scenario = s /\ F(s)!Next
                                    /\ UNCHANGED <<hardware, deployed, client, saw, shares>>
       \/ \E s \in DOMAIN Shares : scenario = s /\ A(s)!Next
                                   /\ UNCHANGED <<hardware, deployed, saw, answer, feeds>>

RunSpec == RunInit /\ [][RunNext]_runVars

\* The tables and the requests are well typed.
RunTypeOK ==
    /\ \A s \in DOMAIN Changes : scenario = s => H(s)!TypeOK
    /\ \A s \in DOMAIN Makes : scenario = s => D(s)!TypeOK
    /\ \A s \in DOMAIN Watches : scenario = s => F(s)!TypeOK
    /\ \A s \in DOMAIN Shares : scenario = s => A(s)!TypeOK

\* Each property of the modules, where it holds.
InterfaceGoneIsUnused == scenario = "nets" => H("nets")!InterfaceGoneIsUnused
NoXmlOfGoneInterface == scenario = "xml" => H("xml")!NoXmlOfGoneInterface
MediaGoneIsUnused == scenario = "media" => H("media")!MediaGoneIsUnused
FileHasOneOwner == scenario = "disks" => H("disks")!FileHasOneOwner

\* Each property of Alloweds, where it holds.  What is offered changes with what is asked for, in all.
SavesKeepAccess == scenario = "access" => A("access")!SavesKeepAccess
OffersKeep == [][\A s \in DOMAIN Shares : scenario = s => A(s)!OffersStep]_shares
HardwareIsLimited == scenario = "hardware" => A("hardware")!HardwareIsLimited

\* Interfaces and media that are gone are in no desktop, and a disk is in one; new desktops have the
\* interfaces that are allowed.
HardwareIsThere ==
    /\ RunTypeOK /\ InterfaceGoneIsUnused /\ NoXmlOfGoneInterface /\ MediaGoneIsUnused
    /\ FileHasOneOwner /\ HardwareIsLimited

\* Each property of Feeds, where it holds.
TablesAreRight == \A s \in {"user", "admins", "system"} : scenario = s => F(s)!TablesAreRight
ListsForget == \A s \in {"hides", "deployment"} : scenario = s => F(s)!ListsForget
ListsAreRight == scenario = "shows" => F("shows")!ListsAreRight
CountsAreRight == scenario = "counts" => F("counts")!CountsAreRight
SecretsAreKnown == scenario = "secrets" => F("secrets")!SecretsAreKnown

\* When nothing is on its way the pages show the tables as they are, and a form changes what it was
\* asked to.
PagesAreRight ==
    /\ TablesAreRight /\ ListsForget /\ ListsAreRight /\ CountsAreRight /\ SecretsAreKnown
    /\ SavesKeepAccess
=============================================================================
