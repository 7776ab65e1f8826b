----------------------------- MODULE Deployments -----------------------------
(***************************************************************************)
(* Desktops that the webapp makes for one user or, as a deployment, for    *)
(* many, and what is asked of them afterwards.                             *)
(*                                                                         *)
(* A deployment is a row of its owner and the desktops of other users that *)
(* carry its id as their tag.  Nothing ties them but the order in which a  *)
(* request writes: the row is made before the first desktop and removed    *)
(* after the last.  A desktop has its name and, as identity, its user with *)
(* the name parsed, which forgets accents and so on.  Every request reads, *)
(* decides and writes later, while other requests, the engine and the      *)
(* guests go on.                                                           *)
(***************************************************************************)
EXTENDS Naturals, FiniteSets

CONSTANTS
    Users, Names, Ids, Deployments,
    None,
    IdOf,       \* what parse_string makes of a name
    Owner,      \* the user that owns a deployment
    Quota,      \* desktops that a user may have
    Clients,    \* requests at once
    Ops,        \* what is done, a subset of AllOps
    Apart,      \* whether desktops are made and deployments deleted one request at a time
    Slow,       \* whether the engine may answer later than a request waits
    MaxOps      \* bound on what is done

ManyAdditions == {"domain_add_admin", "domain_add_advanced", "domain_recreate_advanced"}
Additions == ManyAdditions \cup {"domain_add", "auto_user"}
StatusRequests == {"Starting", "Shutting-down", "Stopping", "Deleting"}
Forms == {"domain_edit", "domain_template_add"}
Requests == Additions \cup StatusRequests \cup Forms \cup {"domain_delete_advanced"}
AllOps == Requests \cup {"guest_off"}

Desktops == Users \X Ids
Statuses == {"Creating", "Stopped", "Failed", "Starting", "Started", "Shutting-down", "Stopping",
             "Updating", "CreatingTemplate", "Deleting"}
Row == [name : Names, tag : Deployments \cup {None}, status : Statuses, followed : BOOLEAN]
Deployed == [name : Names, users : SUBSET Users]

Assumption ==
    /\ IdOf \in [Names -> Ids] /\ Owner \in [Deployments -> Users]
    /\ Quota \in [Users -> Nat] /\ Ops \subseteq AllOps
    /\ Apart \in BOOLEAN /\ Slow \in BOOLEAN /\ MaxOps \in Nat
    /\ IsFiniteSet(Ids)
    /\ None \notin Names \cup Deployments \cup AllOps \cup Desktops \cup Row \cup Deployed

VARIABLES
    desktop,    \* the table "domains": of each user and id
    deployment, \* the table "deployments"
    client,     \* what each request does
    saw,        \* whether the change it waits for came
    answer,     \* what it told last
    ops         \* what was done so far

vars == <<desktop, deployment, client, saw, answer, ops>>

Idle == [pc |-> "idle", op |-> None, dep |-> None, name |-> None, todo |-> {}, now |-> None,
         skipped |-> FALSE, missed |-> {}]

TypeOK ==
    /\ desktop \in [Desktops -> Row \cup {None}]
    /\ deployment \in [Deployments -> Deployed \cup {None}]
    /\ \A c \in Clients : LET r == client[c] IN
        /\ r.pc \in {"idle", "row", "existing", "check", "insert", "write", "list", "delete", "deleted"}
        /\ r.op \in Ops \cup {None}
        /\ r.dep \in Deployments \cup {None} /\ r.name \in Names \cup {None}
        /\ r.todo \subseteq Users \/ r.todo \subseteq Desktops
        /\ r.skipped \in BOOLEAN /\ r.missed \subseteq Users
    /\ saw \in [Clients -> BOOLEAN]
    /\ \A c \in Clients : answer[c] # None => answer[c].ok \in BOOLEAN
    /\ ops \in 0 .. MaxOps

Init ==
    /\ desktop = [d \in Desktops |-> None]
    /\ deployment = [p \in Deployments |-> None]
    /\ client = [c \in Clients |-> Idle]
    /\ saw = [c \in Clients |-> FALSE]
    /\ answer = [c \in Clients |-> None]
    /\ ops = 0

----------------------------------------------------------------------------
(* The table of domains and the engine that follows it.                    *)

\* The changes of status that the engine acts on.
Follows(old, new) ==
    \/ new = "Deleting" /\ old \notin {"Started", "Shutting-down"}
    \/ new \in {"Starting", "Updating"} /\ old \in {"Stopped", "Failed"}
    \/ new = "CreatingTemplate" /\ old = "Stopped"
    \/ new = "Shutting-down" /\ old = "Started"
    \/ new = "Stopping" /\ old \in {"Started", "Shutting-down"}

Put(d, new) ==
    /\ desktop' = [desktop EXCEPT ![d] = new]
    /\ saw' = [c \in Clients |-> saw[c] \/ (new = None /\ client[c].pc = "deleted" /\ client[c].now = d)]

\* A write on a desktop that is gone is skipped, and counts as done.  Writing
\* the status it has is no change, and the engine has what it had.
PutStatus(d, status) ==
    IF desktop[d] = None \/ desktop[d].status = status
    THEN UNCHANGED <<desktop, saw>>
    ELSE Put(d, [desktop[d] EXCEPT !.status = status, !.followed = Follows(desktop[d].status, status)])

Outcomes(status) ==
    CASE status = "Creating"         -> {"Stopped", "Failed"}
      [] status = "Starting"         -> {"Started", "Failed"}
      [] status = "Updating"         -> {"Stopped", "Failed"}
      [] status = "CreatingTemplate" -> {"Stopped"}
      [] status = "Shutting-down"    -> {"Stopped"}
      [] status = "Stopping"         -> {"Stopped"}
      [] OTHER                       -> {}

Engine(d) ==
    /\ desktop[d] # None /\ desktop[d].followed
    /\ \/ \E s \in Outcomes(desktop[d].status) : Put(d, [desktop[d] EXCEPT !.status = s, !.followed = FALSE])
       \/ desktop[d].status = "Deleting" /\ Put(d, None)
    /\ UNCHANGED <<deployment, client, answer, ops>>

Does(op) == op \in Ops /\ ops < MaxOps /\ ops' = ops + 1

\* A guest is powered off from the inside.
GuestOff(d) ==
    /\ desktop[d] # None /\ desktop[d].status = "Started"
    /\ Does("guest_off")
    /\ Put(d, [desktop[d] EXCEPT !.status = "Stopped", !.followed = FALSE])
    /\ UNCHANGED <<deployment, client, answer>>

----------------------------------------------------------------------------
(* Requests.                                                               *)

Exclusive == Additions \cup {"domain_delete_advanced"}

Begins(c, op, r) ==
    /\ client[c].pc = "idle" /\ Does(op)
    /\ Apart /\ op \in Exclusive => \A b \in Clients : client[b].op \notin Exclusive
    /\ client' = [client EXCEPT ![c] = [r EXCEPT !.op = op]]
    /\ answer' = [answer EXCEPT ![c] = None]

AnswersOf(c, ok, missed) ==
    /\ client' = [client EXCEPT ![c] = Idle]
    /\ answer' = [answer EXCEPT ![c] = [op |-> client[c].op, ok |-> ok, missed |-> missed]]
    /\ UNCHANGED ops

Answers(c, ok) == AnswersOf(c, ok, {})

\* An exception ends the request, and nobody is told.
Dies(c) == client' = [client EXCEPT ![c] = Idle] /\ UNCHANGED <<answer, ops>>

Goes(c, r) == client' = [client EXCEPT ![c] = r] /\ UNCHANGED <<answer, ops>>

Of(u) == {d \in Desktops : d[1] = u /\ desktop[d] # None}

\* quotas.check("NewDesktop", u)
WithinQuota(u) == Cardinality(Of(u)) < Quota[u]

Tagged(p) == {d \in Desktops : desktop[d] # None /\ desktop[d].tag = p}

----------------------------------------------------------------------------
(* Desktops from a template: for oneself, for those one selects, as a      *)
(* deployment, and at the log in.                                          *)

\* domain_add of a user, and new_domains_auto_user for one template.
AddBegins(c, u, n) ==
    /\ \E op \in {"domain_add", "auto_user"} :
        /\ op = "domain_add" => WithinQuota(u)
        /\ op = "auto_user" => desktop[<<u, IdOf[n]>>] = None
        /\ Begins(c, op, [Idle EXCEPT !.pc = "check", !.name = n, !.todo = {u}])
    /\ UNCHANGED <<desktop, deployment, saw>>

\* domain_add of an administrator, for the users selected.
AdminAddBegins(c, users, n) ==
    /\ Begins(c, "domain_add_admin", [Idle EXCEPT !.pc = "existing", !.name = n, !.todo = users])
    /\ UNCHANGED <<desktop, deployment, saw>>

\* domain_add_advanced: nothing more is done when the owner has all her desktops.
AdvancedBegins(c, p, users, n) ==
    /\ WithinQuota(Owner[p])
    /\ Begins(c, "domain_add_advanced", [Idle EXCEPT !.pc = "row", !.dep = p, !.name = n, !.todo = users])
    /\ UNCHANGED <<desktop, deployment, saw>>

\* The deployment that exists with that id is made the new one.
WritesRow(c) ==
    /\ client[c].pc = "row"
    /\ deployment' = [deployment EXCEPT ![client[c].dep] = [name |-> client[c].name, users |-> client[c].todo]]
    /\ Goes(c, [client[c] EXCEPT !.pc = "existing"])
    /\ UNCHANGED <<desktop, saw>>

\* domain_recreate_advanced takes what the row says.
RecreateBegins(c, p) ==
    /\ WithinQuota(Owner[p]) /\ deployment[p] # None
    /\ Begins(c, "domain_recreate_advanced",
              [Idle EXCEPT !.pc = "existing", !.dep = p, !.name = deployment[p].name, !.todo = deployment[p].users])
    /\ UNCHANGED <<desktop, deployment, saw>>

\* new_domains_from_tmpl looks for desktops of that name, not of that id.
ReadsExisting(c) ==
    /\ client[c].pc = "existing"
    /\ LET existing == \E d \in Desktops : d[1] \in client[c].todo /\ desktop[d] # None
                                             /\ desktop[d].name = client[c].name
       IN IF existing /\ client[c].op # "domain_recreate_advanced"
          THEN Answers(c, FALSE)
          ELSE Goes(c, [client[c] EXCEPT !.pc = "check", !.skipped = existing])
    /\ UNCHANGED <<desktop, deployment, saw>>

\* What new_domain_from_tmpl returned for each user is told when there is one
\* user, and ignored when there are several.
AdditionEnds(c) ==
    /\ client[c].pc = "check" /\ client[c].todo = {}
    /\ AnswersOf(c, IF client[c].op \in ManyAdditions THEN ~client[c].skipped ELSE client[c].missed = {},
                 client[c].missed)
    /\ UNCHANGED <<desktop, deployment, saw>>

\* Mutant: the quota was checked when the request began.
ChecksNoQuota(c, u) ==
    /\ client[c].pc = "check" /\ u \in client[c].todo
    /\ Goes(c, [client[c] EXCEPT !.pc = "insert", !.now = u, !.todo = @ \ {u}])
    /\ UNCHANGED <<desktop, deployment, saw>>

ChecksQuota(c, u) ==
    /\ client[c].pc = "check" /\ u \in client[c].todo
    /\ Goes(c, IF WithinQuota(u)
               THEN [client[c] EXCEPT !.pc = "insert", !.now = u, !.todo = @ \ {u}]
               ELSE [client[c] EXCEPT !.todo = @ \ {u}, !.missed = @ \cup {u}])
    /\ UNCHANGED <<desktop, deployment, saw>>

\* A row that exists is left as it is.
Inserts(c) ==
    LET d == <<client[c].now, IdOf[client[c].name]>> IN
    /\ client[c].pc = "insert"
    /\ IF desktop[d] = None
       THEN /\ Put(d, [name |-> client[c].name, tag |-> client[c].dep, status |-> "Creating", followed |-> TRUE])
            /\ Goes(c, [client[c] EXCEPT !.pc = "check", !.now = None])
       ELSE /\ Goes(c, [client[c] EXCEPT !.pc = "check", !.now = None, !.missed = @ \cup {client[c].now}])
            /\ UNCHANGED <<desktop, saw>>
    /\ UNCHANGED deployment

----------------------------------------------------------------------------
(* delete_deployment: refused unless all its desktops are at rest, which   *)
(* are deleted one after another, and the row last.                        *)

DeleteBegins(c, p) ==
    /\ deployment[p] # None
    /\ Begins(c, "domain_delete_advanced", [Idle EXCEPT !.pc = "list", !.dep = p])
    /\ UNCHANGED <<desktop, deployment, saw>>

Lists(c) ==
    /\ client[c].pc = "list"
    /\ IF \E d \in Tagged(client[c].dep) : desktop[d].status \notin {"Stopped", "Failed"}
       THEN Answers(c, FALSE)
       ELSE Goes(c, [client[c] EXCEPT !.pc = "delete", !.todo = Tagged(client[c].dep)])
    /\ UNCHANGED <<desktop, deployment, saw>>

\* By what the list said of it, whatever it is now.
DeletesDesktop(c, d) ==
    /\ client[c].pc = "delete" /\ d \in client[c].todo
    /\ desktop' = IF desktop[d] = None \/ desktop[d].status = "Deleting" THEN desktop
                  ELSE [desktop EXCEPT ![d].status = "Deleting",
                                       ![d].followed = Follows(desktop[d].status, "Deleting")]
    /\ saw' = [saw EXCEPT ![c] = FALSE]
    /\ Goes(c, [client[c] EXCEPT !.pc = "deleted", !.now = d, !.todo = @ \ {d}])
    /\ UNCHANGED deployment

DesktopIsDeleted(c) ==
    /\ client[c].pc = "deleted" /\ saw[c]
    /\ Goes(c, [client[c] EXCEPT !.pc = "delete", !.now = None])
    /\ UNCHANGED <<desktop, deployment, saw>>

\* What the request waits for will come, though perhaps late.
IsComing(c) == desktop[client[c].now] # None /\ desktop[client[c].now].followed

\* Mutant: the wait is given up and the next desktop is deleted.
GivesUpThisOne(c) ==
    /\ client[c].pc = "deleted" /\ ~saw[c] /\ (Slow \/ ~IsComing(c))
    /\ Goes(c, [client[c] EXCEPT !.pc = "delete", !.now = None])
    /\ UNCHANGED <<desktop, deployment, saw>>

\* WaitStatus makes DesktopStartTimeout of it, which nobody catches.
TimesOut(c) ==
    /\ client[c].pc = "deleted" /\ ~saw[c] /\ (Slow \/ ~IsComing(c))
    /\ Dies(c)
    /\ UNCHANGED <<desktop, deployment, saw>>

RemovesRow(c) ==
    /\ client[c].pc = "delete" /\ client[c].todo = {}
    /\ deployment' = [deployment EXCEPT ![client[c].dep] = None]
    /\ Answers(c, TRUE)
    /\ UNCHANGED <<desktop, saw>>

----------------------------------------------------------------------------
(* update_table_status, domain_edit and domain_template_add: what a page   *)
(* asks of one desktop, by its user or by the owner of its deployment.     *)

Asks(c, d, op, statuses) ==
    /\ desktop[d] # None /\ desktop[d].status \in statuses
    /\ Begins(c, op, [Idle EXCEPT !.pc = "write", !.now = d])
    /\ UNCHANGED <<desktop, deployment, saw>>

\* The status is read, and refused unless it is right.  A start may be refused
\* for the quota of who asks, too.
StartBegins(c, d) == Asks(c, d, "Starting", {"Stopped", "Failed"})
DeletionBegins(c, d) == Asks(c, d, "Deleting", {"Stopped", "Failed"})
ShutDownBegins(c, d) == Asks(c, d, "Shutting-down", {"Started"})
StopBegins(c, d) == Asks(c, d, "Stopping", {"Shutting-down"})

\* The page opens its form for a desktop at rest.
EditOpens(c, d) == Asks(c, d, "domain_edit", {"Stopped"})
TemplateOpens(c, d) == Asks(c, d, "domain_template_add", {"Stopped"})

\* Each is written whatever the status is by then.
WritesStatus(c) ==
    /\ client[c].pc = "write" /\ client[c].op \in StatusRequests
    /\ PutStatus(client[c].now, client[c].op)
    /\ Answers(c, TRUE)
    /\ UNCHANGED deployment

MakesTemplate(c) ==
    /\ client[c].pc = "write" /\ client[c].op = "domain_template_add"
    /\ PutStatus(client[c].now, "CreatingTemplate")
    /\ Answers(c, TRUE)
    /\ UNCHANGED deployment

\* update_domain, which may rename: the id stays.
Edits(c) ==
    LET d == client[c].now IN
    /\ client[c].pc = "write" /\ client[c].op = "domain_edit"
    /\ IF desktop[d] = None THEN UNCHANGED <<desktop, saw>>
       ELSE \E n \in Names :
            Put(d, [desktop[d] EXCEPT !.name = n, !.status = "Updating",
                                      !.followed = \/ desktop[d].status = "Updating" /\ @
                                                   \/ Follows(desktop[d].status, "Updating")])
    /\ Answers(c, TRUE)
    /\ UNCHANGED deployment

----------------------------------------------------------------------------
RequestBegins(c) ==
    \/ \E u \in Users, n \in Names : AddBegins(c, u, n)
    \/ \E users \in SUBSET Users \ {{}}, n \in Names :
        \/ AdminAddBegins(c, users, n)
        \/ \E p \in Deployments : AdvancedBegins(c, p, users, n)
    \/ \E p \in Deployments : RecreateBegins(c, p) \/ DeleteBegins(c, p)
    \/ \E d \in Desktops : \/ StartBegins(c, d) \/ DeletionBegins(c, d) \/ ShutDownBegins(c, d)
                           \/ StopBegins(c, d) \/ EditOpens(c, d) \/ TemplateOpens(c, d)

RequestGoesOn(c) ==
    \/ WritesRow(c) \/ ReadsExisting(c) \/ Inserts(c) \/ AdditionEnds(c)
    \/ \E u \in Users : ChecksQuota(c, u)
    \/ Lists(c) \/ DesktopIsDeleted(c) \/ TimesOut(c) \/ RemovesRow(c)
    \/ \E d \in Desktops : DeletesDesktop(c, d)
    \/ WritesStatus(c) \/ MakesTemplate(c) \/ Edits(c)

Next ==
    \/ \E c \in Clients : RequestBegins(c) \/ RequestGoesOn(c)
    \/ \E d \in Desktops : Engine(d) \/ GuestOff(d)

Spec == Init /\ [][Next]_vars

----------------------------------------------------------------------------
\* A desktop that carries the id of a deployment is of one that exists: the
\* row is written before its first desktop, and removed only when all of them
\* are gone, however the engine, the guests and other requests interleave.
TaggedHasDeployment ==
    \A d \in Desktops : desktop[d] # None /\ desktop[d].tag # None
                                                       => deployment[desktop[d].tag] # None

\* Nobody has more desktops than the quota, whoever makes them.
DeployedWithinQuota == \A u \in Users : Cardinality(Of(u)) <= Quota[u]

==============================================================================
