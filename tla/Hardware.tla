------------------------------ MODULE Hardware ------------------------------
(***************************************************************************)
(* The hardware of desktops that the webapp edits, and what it is made of: *)
(* interfaces and media.                                                   *)
(*                                                                         *)
(* A desktop lists its interfaces and media in its create_dict, of which   *)
(* the engine makes the XML when it is made or updated and which nothing   *)
(* ties to the tables of interfaces and media.  To delete one, the webapp  *)
(* lists the desktops that have it and rewrites each by what the list said *)
(* of it, while desktops start, stop, are edited and are made.             *)
(***************************************************************************)
EXTENDS Naturals, FiniteSets

CONSTANTS
    Desktops, Media, Nets,
    None,
    Quota,      \* virtual CPUs that a user may give to a desktop
    MaxCpus,    \* bound on what forms ask for
    Clients,    \* requests at once
    Ops,        \* what is done, a subset of AllOps
    Settled,    \* whether an interface is deleted when the engine has no work, users
                \* ask for nothing until it is, and only a medium that is gone fails an XML
    Slow,       \* whether the engine may answer later than a request waits
    MaxOps      \* bound on what is done

Edits == {"domain_edit", "admin_domain_edit"}
Requests == Edits \cup {"media_delete", "interface_delete", "domain_from_media", "domain_from_disk"}
AllOps == Requests \cup {"start", "shut_down", "guest_off", "delete", "webapp_restarts"}

Assumption ==
    /\ None \notin Desktops \cup Media \cup Nets \cup AllOps \cup {"Downloaded"}
    /\ Quota \in Nat /\ MaxCpus \in Nat /\ MaxOps \in Nat
    /\ Ops \subseteq AllOps /\ Settled \in BOOLEAN /\ Slow \in BOOLEAN

VARIABLES
    desktop,    \* the tables "domains", "media" and "interfaces"
    medium,
    net,
    client,     \* what each request does
    saw,        \* whether the change it waits for came
    answer,     \* what it told last
    ops         \* what was done so far

vars == <<desktop, medium, net, client, saw, answer, ops>>
tables == <<desktop, medium, net>>

Statuses == {"CreatingDiskFromScratch", "Stopped", "Failed", "Starting", "Started", "Shutting-down",
             "Stopping", "Updating", "Deleting"}
Row == [status : Statuses, followed : BOOLEAN, cpus : 0 .. MaxCpus, nets : SUBSET Nets,
        isos : SUBSET Media, xml : SUBSET Nets, file : Media \cup {None}]
Listed == [id : Desktops, status : Statuses, nets : SUBSET Nets, isos : SUBSET Media]
Form == [cpus : 0 .. MaxCpus, nets : SUBSET Nets, isos : SUBSET Media]
NoForm == [cpus |-> 0, nets |-> {}, isos |-> {}]
Idle == [pc |-> "idle", op |-> None, id |-> None, of |-> None, form |-> NoForm, todo |-> {}, now |-> None,
         asked |-> FALSE]

TypeOK ==
    /\ desktop \in [Desktops -> Row \cup {None}]
    /\ medium \in [Media -> {"Downloaded", "Deleting", None}]
    /\ net \subseteq Nets
    /\ \A c \in Clients : LET r == client[c] IN
        /\ r.pc \in {"idle", "update", "media", "medium", "stopped", "mark", "nets", "net", "stopping",
                     "updating", "remove", "insert", "take"}
        /\ r.op \in Ops \cup {None} /\ r.id \in Desktops \cup {None}
        /\ r.of \in Media \cup Nets \cup {None}
        /\ r.form \in Form /\ r.todo \subseteq Listed
        /\ r.now # None => r.now \in Listed
        /\ r.asked \in BOOLEAN
    /\ saw \in [Clients -> BOOLEAN]
    /\ answer \in [Clients -> BOOLEAN \cup {None}]
    /\ ops \in 0 .. MaxOps

Init ==
    /\ desktop \in [Desktops -> {None} \cup
                    [status : {"Stopped"}, followed : {FALSE}, cpus : {0}, nets : {Nets}, isos : {{}, Media},
                     xml : {Nets}, file : {None}]]
    /\ medium = [m \in Media |-> "Downloaded"]
    /\ net = Nets
    /\ client = [c \in Clients |-> Idle]
    /\ saw = [c \in Clients |-> FALSE]
    /\ answer = [c \in Clients |-> None]
    /\ ops = 0

----------------------------------------------------------------------------
(* The engine, the guests and the users of the desktops.                   *)

\* The changes of status that the engine acts on.
Follows(old, new) ==
    \/ new = "Deleting" /\ old \notin {"Started", "Shutting-down"}
    \/ new \in {"Starting", "Updating"} /\ old \in {"Stopped", "Failed"}
    \/ new = "Shutting-down" /\ old = "Started"
    \/ new = "Stopping" /\ old \in {"Started", "Shutting-down"}

\* A request that waits sees every change that leaves the desktop Stopped.
Sees(c, d, new) ==
    /\ client[c].pc \in {"stopping", "updating"} /\ client[c].now.id = d
    /\ new # None /\ new.status = "Stopped"

Put(d, new) ==
    /\ desktop' = [desktop EXCEPT ![d] = new]
    /\ saw' = [c \in Clients |-> saw[c] \/ Sees(c, d, new)]

WithStatus(row, status) ==
    IF row.status = status THEN row
    ELSE [row EXCEPT !.status = status, !.followed = Follows(row.status, status)]

\* A write on a desktop that is gone is skipped.
Update(d, row) == IF desktop[d] = None THEN UNCHANGED <<desktop, saw>> ELSE Put(d, row)

Becomes(d, status) == Put(d, [desktop[d] EXCEPT !.status = status, !.followed = FALSE])

\* The XML is made of what the desktop lists then; a medium that is gone fails it.
XmlIsMade(d) ==
    IF \E m \in desktop[d].isos : medium[m] = None
    THEN Becomes(d, "Failed")
    ELSE \/ ~Settled /\ Becomes(d, "Failed")
         \/ Put(d, [desktop[d] EXCEPT !.status = "Stopped", !.followed = FALSE, !.xml = desktop[d].nets])

Engine(d) ==
    /\ desktop[d] # None /\ desktop[d].followed
    /\ \/ desktop[d].status \in {"CreatingDiskFromScratch", "Updating"} /\ XmlIsMade(d)
       \/ desktop[d].status = "Starting" /\ (Becomes(d, "Started") \/ Becomes(d, "Failed"))
       \/ desktop[d].status \in {"Shutting-down", "Stopping"} /\ Becomes(d, "Stopped")
       \/ desktop[d].status = "Deleting" /\ Put(d, None)
    /\ UNCHANGED <<medium, net, client, answer, ops>>

\* The thread of the downloads removes a medium that is to be deleted.
MediumGoes(m) ==
    /\ medium[m] = "Deleting"
    /\ medium' = [medium EXCEPT ![m] = None]
    /\ UNCHANGED <<desktop, net, client, saw, answer, ops>>

Does(op) == op \in Ops /\ ops < MaxOps /\ ops' = ops + 1

UserAsks(d, op, statuses, status) ==
    /\ desktop[d] # None /\ desktop[d].status \in statuses
    /\ Settled => \A c \in Clients : client[c].op # "interface_delete"
    /\ Does(op)
    /\ Put(d, WithStatus(desktop[d], status))
    /\ UNCHANGED <<medium, net, client, answer>>

Starts(d) == UserAsks(d, "start", {"Stopped", "Failed"}, "Starting")
ShutsDown(d) == UserAsks(d, "shut_down", {"Started"}, "Shutting-down")
DeletesDesktop(d) == UserAsks(d, "delete", {"Stopped", "Failed"}, "Deleting")

GuestOff(d) ==
    /\ desktop[d] # None /\ desktop[d].status = "Started"
    /\ Does("guest_off")
    /\ Becomes(d, "Stopped")
    /\ UNCHANGED <<medium, net, client, answer>>

----------------------------------------------------------------------------
Begins(c, op, r) ==
    /\ client[c].pc = "idle" /\ Does(op)
    /\ client' = [client EXCEPT ![c] = [r EXCEPT !.op = op]]
    /\ answer' = [answer EXCEPT ![c] = None]
    /\ UNCHANGED <<tables, saw>>

Goes(c, r) == client' = [client EXCEPT ![c] = r] /\ UNCHANGED <<answer, ops>>

Answers(c, ok) ==
    /\ client' = [client EXCEPT ![c] = Idle]
    /\ answer' = [answer EXCEPT ![c] = ok]
    /\ UNCHANGED ops

\* An exception ends the request, and nobody is told.
Dies(c) == client' = [client EXCEPT ![c] = Idle] /\ UNCHANGED <<answer, ops>>

\* The webapp restarts, and with it all requests end.
WebappRestarts ==
    /\ Does("webapp_restarts")
    /\ client' = [c \in Clients |-> Idle]
    /\ UNCHANGED <<tables, saw, answer>>

----------------------------------------------------------------------------
(* domain_edit: the form is completed from the row, limited to the quota   *)
(* of a user but not of an administrator, and written.                     *)

Limited(op, form) ==
    IF op = "domain_edit" /\ form.cpus > Quota THEN [form EXCEPT !.cpus = Quota] ELSE form

\* The page offers the interfaces and media there are, and edits what is at rest.
EditBegins(c, d, op, form) ==
    /\ desktop[d] # None /\ desktop[d].status = "Stopped"
    /\ form.nets \subseteq net /\ form.isos \subseteq {m \in Media : medium[m] = "Downloaded"}
    /\ Begins(c, op, [Idle EXCEPT !.pc = "update", !.id = d, !.form = Limited(op, form)])

\* parse_media_info raises for a medium that is gone.  The status is not looked at.
Updates(c) ==
    LET r == client[c] IN
    /\ r.pc = "update"
    /\ IF \E m \in r.form.isos : medium[m] = None
       THEN Dies(c) /\ UNCHANGED <<desktop, saw>>
       ELSE /\ IF desktop[r.id] = None THEN UNCHANGED <<desktop, saw>>
               ELSE Put(r.id, [WithStatus(desktop[r.id], "Updating")
                               EXCEPT !.cpus = r.form.cpus, !.nets = r.form.nets, !.isos = r.form.isos])
            /\ Answers(c, TRUE)
    /\ UNCHANGED <<medium, net>>

----------------------------------------------------------------------------
(* media_delete takes the medium out of the desktops that have it, unless  *)
(* they are Started, and then marks it to be deleted.                      *)

ListOf(d) == [id |-> d, status |-> desktop[d].status, nets |-> desktop[d].nets, isos |-> desktop[d].isos]

MediaDeleteBegins(c, m) ==
    /\ medium[m] # None
    /\ Begins(c, "media_delete", [Idle EXCEPT !.pc = "media", !.of = m])

ListsMedia(c) ==
    /\ client[c].pc = "media"
    /\ Goes(c, [client[c] EXCEPT !.pc = "medium",
                                 !.todo = {ListOf(d) : d \in {e \in Desktops : desktop[e] # None
                                                              /\ client[c].of \in desktop[e].isos}}])
    /\ UNCHANGED <<tables, saw>>

\* One that was not Stopped when listed is first said to be.
SaysStopped(c, e) ==
    /\ client[c].pc = "medium" /\ e \in client[c].todo
    /\ IF e.status \in {"Started", "Stopped"}
       THEN UNCHANGED <<desktop, saw>>
       ELSE Update(e.id, WithStatus(desktop[e.id], "Stopped"))
    /\ Goes(c, IF e.status = "Started" THEN [client[c] EXCEPT !.todo = @ \ {e}]
               ELSE [client[c] EXCEPT !.pc = "stopped", !.now = e, !.todo = @ \ {e}])
    /\ UNCHANGED <<medium, net>>

TakesMediumOut(c) ==
    LET d == client[c].now.id IN
    /\ client[c].pc = "stopped"
    /\ Update(d, [WithStatus(desktop[d], "Updating") EXCEPT !.isos = client[c].now.isos \ {client[c].of}])
    /\ Goes(c, [client[c] EXCEPT !.pc = "medium", !.now = None])
    /\ UNCHANGED <<medium, net>>

MarksMedium(c) ==
    /\ client[c].pc = "medium" /\ client[c].todo = {}
    /\ medium' = [medium EXCEPT ![client[c].of] = IF @ = None THEN None ELSE "Deleting"]
    /\ Answers(c, TRUE)
    /\ UNCHANGED <<desktop, net, saw>>

----------------------------------------------------------------------------
(* interface_delete takes the interface out of each desktop that has it,   *)
(* stops it if it was Started and has its XML made again, and removes the  *)
(* row last.                                                               *)

EngineRests == \A d \in Desktops : desktop[d] # None => ~desktop[d].followed

InterfaceDeleteBegins(c, n) ==
    /\ n \in net
    /\ Settled => EngineRests
    /\ Begins(c, "interface_delete", [Idle EXCEPT !.pc = "nets", !.of = n])

ListsNets(c) ==
    /\ client[c].pc = "nets"
    /\ Goes(c, [client[c] EXCEPT !.pc = "net",
                                 !.todo = {ListOf(d) : d \in {e \in Desktops : desktop[e] # None
                                                              /\ client[c].of \in desktop[e].nets}}])
    /\ UNCHANGED <<tables, saw>>

TakesNetOut(c, e) ==
    /\ client[c].pc = "net" /\ e \in client[c].todo
    /\ Update(e.id, [desktop[e.id] EXCEPT !.nets = e.nets \ {client[c].of}])
    /\ Goes(c, [client[c] EXCEPT !.pc = IF e.status = "Started" THEN "stopping"
                                        ELSE IF e.status \in {"Stopped", "Failed"} THEN "updating"
                                        ELSE "net",
                                 !.now = e, !.asked = FALSE, !.todo = @ \ {e}])
    /\ UNCHANGED <<medium, net>>

\* The status is written once the changes are followed, and then waited for.
AsksDesktop(c) ==
    LET d == client[c].now.id IN
    /\ client[c].pc \in {"stopping", "updating"} /\ ~client[c].asked
    /\ LET new == WithStatus(desktop[d], IF client[c].pc = "stopping" THEN "Stopping" ELSE "Updating")
       IN desktop' = IF desktop[d] = None THEN desktop ELSE [desktop EXCEPT ![d] = new]
    /\ saw' = [saw EXCEPT ![c] = FALSE]
    /\ Goes(c, [client[c] EXCEPT !.asked = TRUE])
    /\ UNCHANGED <<medium, net>>

SeesIt(c) ==
    /\ client[c].pc \in {"stopping", "updating"} /\ client[c].asked /\ saw[c]
    /\ Goes(c, IF client[c].pc = "stopping" THEN [client[c] EXCEPT !.pc = "updating", !.asked = FALSE]
               ELSE [client[c] EXCEPT !.pc = "net", !.now = None])
    /\ UNCHANGED <<tables, saw>>

IsComing(d) == desktop[d] # None /\ desktop[d].followed

\* Mutant: what comes late ends the request as if all were done.
RemovesAnyway(c) ==
    /\ client[c].pc \in {"stopping", "updating"} /\ client[c].asked /\ ~saw[c]
    /\ Slow \/ ~IsComing(client[c].now.id)
    /\ net' = net \ {client[c].of}
    /\ Answers(c, TRUE)
    /\ UNCHANGED <<desktop, medium, saw>>

\* WaitStatus makes DesktopStartTimeout of it, which update_desktop does not catch.
TimesOut(c) ==
    /\ client[c].pc \in {"stopping", "updating"} /\ client[c].asked /\ ~saw[c]
    /\ Slow \/ ~IsComing(client[c].now.id)
    /\ Dies(c)
    /\ UNCHANGED <<tables, saw>>

RemovesNet(c) ==
    /\ client[c].pc = "net" /\ client[c].todo = {}
    /\ net' = net \ {client[c].of}
    /\ Answers(c, TRUE)
    /\ UNCHANGED <<desktop, medium, saw>>

----------------------------------------------------------------------------
(* domain_media_add: a desktop that installs from a medium, or whose disk  *)
(* is the file of the medium, which is then no medium any more.            *)

MediaAddBegins(c, d, m, op) ==
    /\ medium[m] = "Downloaded"
    /\ op \in {"domain_from_media", "domain_from_disk"}
    /\ Begins(c, op, [Idle EXCEPT !.pc = "insert", !.id = d, !.of = m])

\* The row that exists stays, and the insertion fails.
InsertsDesktop(c) ==
    LET r == client[c]  disk == client[c].op = "domain_from_disk" IN
    /\ r.pc = "insert"
    /\ IF medium[r.of] = None THEN Dies(c) /\ UNCHANGED <<desktop, saw>>
       ELSE IF desktop[r.id] # None THEN Answers(c, FALSE) /\ UNCHANGED <<desktop, saw>>
       ELSE /\ Put(r.id, [status |-> "CreatingDiskFromScratch", followed |-> TRUE, cpus |-> 0, nets |-> {},
                          isos |-> IF disk THEN {} ELSE {r.of}, xml |-> {},
                          file |-> IF disk THEN r.of ELSE None])
            /\ IF disk THEN Goes(c, [r EXCEPT !.pc = "take"]) ELSE Answers(c, TRUE)
    /\ UNCHANGED <<medium, net>>

TakesMedium(c) ==
    /\ client[c].pc = "take"
    /\ medium' = [medium EXCEPT ![client[c].of] = None]
    /\ Answers(c, TRUE)
    /\ UNCHANGED <<desktop, net, saw>>

----------------------------------------------------------------------------
RequestBegins(c) ==
    \/ \E d \in Desktops, form \in Form, op \in Edits : EditBegins(c, d, op, form)
    \/ \E m \in Media : MediaDeleteBegins(c, m)
    \/ \E n \in Nets : InterfaceDeleteBegins(c, n)
    \/ \E d \in Desktops, m \in Media, op \in Requests : MediaAddBegins(c, d, m, op)

RequestGoesOn(c) ==
    \/ Updates(c)
    \/ ListsMedia(c) \/ TakesMediumOut(c) \/ MarksMedium(c)
    \/ ListsNets(c) \/ AsksDesktop(c) \/ SeesIt(c) \/ TimesOut(c) \/ RemovesNet(c)
    \/ \E e \in client[c].todo : SaysStopped(c, e) \/ TakesNetOut(c, e)
    \/ InsertsDesktop(c) \/ TakesMedium(c)

Next ==
    \/ \E c \in Clients : RequestBegins(c) \/ RequestGoesOn(c)
    \/ \E d \in Desktops : Engine(d) \/ Starts(d) \/ ShutsDown(d) \/ DeletesDesktop(d) \/ GuestOff(d)
    \/ \E m \in Media : MediumGoes(m)
    \/ WebappRestarts

Spec == Init /\ [][Next]_vars

----------------------------------------------------------------------------
\* An interface is removed only after it was taken out of every desktop, even
\* when one of them does not stop in time.
InterfaceGoneIsUnused == \A d \in Desktops : desktop[d] # None => desktop[d].nets \subseteq net

\* Nor does the XML of a desktop at rest have an interface that is gone: the
\* desktops were stopped and updated before.
NoXmlOfGoneInterface ==
    \A d \in Desktops : desktop[d] # None /\ desktop[d].status = "Stopped" => desktop[d].xml \subseteq net

\* No desktop lists a medium that is gone.
MediaGoneIsUnused == \A d \in Desktops : desktop[d] # None => \A m \in desktop[d].isos : medium[m] # None

\* The file of a medium has one owner: the medium or one desktop.  Deleting
\* either would erase what the other has.
FileHasOneOwner ==
    \A m \in Media : LET of == {d \in Desktops : desktop[d] # None /\ desktop[d].file = m} IN
        /\ Cardinality(of) <= 1
        /\ of # {} /\ (\A c \in Clients : client[c].pc = "idle") => medium[m] = None

==============================================================================
