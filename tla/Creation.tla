------------------------------ MODULE Creation ------------------------------
(***************************************************************************)
(* How desktops and templates come to be: the rows that requests insert,   *)
(* the disks that the disk thread of a hypervisor creates or moves, the    *)
(* test of a new desktop and the row of a new template.                    *)
(*                                                                         *)
(* The status of a desktop passes from one actor to the next.  A request   *)
(* writes Creating, CreatingTemplate, Updating or Deleting;                *)
(* DomainsChangesThread follows the changefeed and puts actions on queues; *)
(* a disk thread runs commands over ssh and writes CreatingDomain or       *)
(* TemplateDiskCreated; DomainsChangesThread then tests the desktop on a   *)
(* worker, or inserts the row of the template.  No write looks at the      *)
(* status it replaces.                                                     *)
(*                                                                         *)
(* There is always a worker, whose choice and connection are the matter of *)
(* Orchestrator and Desktop, and one queue of a worker stands for all.     *)
(* What a guest does with its disk is left out: a file holds the work of   *)
(* the desktop it was created for.                                         *)
(***************************************************************************)
EXTENDS Naturals, Sequences, FiniteSets

CONSTANTS
    Desktops,   \* desktop ids, each with the file of its own disk
    Templates,  \* ids of templates to be, each with its file
    Base,       \* a template that was downloaded, with its file
    Shared,     \* the file virtio_testdisk.qcow2, the second disk of some desktops
    None,       \* no file, no template, no desktop
    Hyps,       \* hypervisors with a disk thread
    Users,      \* requests that may run at once
    Ops,        \* what users do, a subset of AllOps
    Faults,     \* what may go wrong, a subset of AllFaults
    Patient,    \* whether users wait until a desktop is at rest, and ask then for
                \* what pages of the webapp offer in its status
    MaxOps,     \* bound on the number of operations of users
    MaxFaults   \* bound on the number of faults

AllOps == {"from_template", "and_start", "media", "virtio", "builder", "template",
           "update", "delete", "delete_template", "force_failed"}

\* mkdir, qemu: the creation of a disk fails, with or without the command
\* before it; refuse, mv, rsync, recreate: the steps of a template fail;
\* builder: virt-builder does; xml, template: the XML of a desktop, of a
\* template cannot be parsed; test: libvirt refuses the guest; rm: the file of
\* a disk is not erased; restart: the engine restarts.
AllFaults == {"mkdir", "qemu", "refuse", "mv", "rsync", "recreate", "builder", "xml", "template",
              "test", "rm", "restart"}

Ids == Desktops \cup Templates
Files == Ids \cup {Base, Shared}

Assumption ==
    /\ Desktops \cap Templates = {}
    /\ {Base, Shared, None} \cap Ids = {}
    /\ Base # Shared /\ None \notin {Base, Shared}
    /\ IsFiniteSet(Files)
    /\ Ops \subseteq AllOps
    /\ Faults \subseteq AllFaults
    /\ Patient \in BOOLEAN
    /\ MaxOps \in Nat /\ MaxFaults \in Nat

VARIABLES
    row,        \* the table "domains"
    feed,       \* changes of each row the changefeed has not delivered yet
    changes,    \* DomainsChangesThread: "off", "on" or "dead"
    making,     \* the template it is inserting, and the desktop it comes from
    diskThread, \* the disk thread of each hypervisor: "on" or "dead"
    diskQueue,  \* its queue
    job,        \* the action it serves
    longQueue,  \* the queue of the long operations thread
    worker,     \* the worker: "on" or "dead"
    workQueue,  \* its queue
    disk,       \* the files
    client,     \* what each request has yet to write
    ops,        \* operations of users so far
    faults      \* faults so far

vars == <<row, feed, changes, making, diskThread, diskQueue, job, longQueue, worker,
          workQueue, disk, client, ops, faults>>
table == <<row, feed>>
queues == <<diskQueue, longQueue, workQueue>>
threads == <<diskThread, job, worker>>
bounds == <<ops, faults>>

\* Statuses that wait for an actor of the engine
InProgress == {"Creating", "CreatingAndStarting", "CreatingDiskFromScratch", "CreatingFromBuilder",
               "CreatingDisk", "RunningVirtBuilder", "CreatingDomainFromBuilder", "CreatingDomain",
               "StartingDomainDisposable", "CreatingTemplate", "CreatingTemplateDisk",
               "TemplateDiskCreated", "CreatingNewTemplateInDB", "Updating", "Deleting",
               "DeletingDomainDisk", "DiskDeleted"}
AtRest == {"none", "Stopped", "Started", "Failed", "FailedCreatingDomain", "Crashed"}
Status == InProgress \cup AtRest

\* hw: the row has the key hardware; two: create_dict has a second disk, the
\* shared one; after: start_after_created; tmpl: the id in create_dict.
\* template_dict; made: disk_template_created; from: create_dict.origin
Row == [status : Status, hw : BOOLEAN, two : BOOLEAN, after : BOOLEAN,
        tmpl : Templates \cup {None}, made : {"no key", "zeros", "ones"},
        from : Templates \cup {Base, None}]
NoRow == [status |-> "none", hw |-> FALSE, two |-> FALSE, after |-> FALSE, tmpl |-> None,
          made |-> "no key", from |-> None]
Change == [old : Status, new : Status]

\* A file: whether it exists, the file it is based on and the desktop whose
\* work it holds
File == [there : BOOLEAN, on : Files \cup {None}, of : Desktops \cup {None}]
NoFile == [there |-> FALSE, on |-> None, of |-> None]

DiskAction == [type : {"create", "scratch", "template"}, id : Desktops,
               t : Templates \cup {Base, None}]
WorkAction == [type : {"test", "start"} , id : Desktops, file : {None}]
                \cup [type : {"erase"}, id : Ids, file : Files]
Write == [id : Ids, status : Status, tmpl : Templates \cup {None}]

Steps == {"idle", "verify", "move", "recreate", "made", "parents", "read", "replace", "status"}
Job == [step : Steps, do : DiskAction, result : Status, saw : Row]
Idle == [step |-> "idle"]

TypeOK ==
    /\ row \in [Ids -> Row]
    /\ feed \in [Ids -> Seq(Change)]
    /\ changes \in {"off", "on", "dead"}
    /\ making = None \/ making \in [d : Desktops, t : Templates, step : {"row", "desktop"}]
    /\ diskThread \in [Hyps -> {"on", "dead"}]
    /\ diskQueue \in [Hyps -> Seq(DiskAction)]
    /\ \A h \in Hyps : job[h] = Idle \/ job[h] \in Job
    /\ longQueue \in Seq(Desktops)
    /\ worker \in {"on", "dead"}
    /\ workQueue \in Seq(WorkAction)
    /\ disk \in [Files -> File]
    /\ client \in [Users -> Seq(Write)]
    /\ ops \in 0 .. MaxOps /\ faults \in 0 .. MaxFaults

----------------------------------------------------------------------------
(* Rows and files.                                                         *)

Present(i) == row[i].status # "none"

\* What the changefeed tells while the thread reads it: a row that leaves the
\* table is nothing to it.
Told(old, new) ==
    IF changes = "on" /\ old.status # new.status /\ new.status # "none"
    THEN <<[old |-> old.status, new |-> new.status]>> ELSE <<>>

\* A write of some rows, by an actor that leaves `rest` of the changefeed
WriteRows(rest, rows) ==
    /\ row' = rows
    /\ feed' = [i \in Ids |-> rest[i] \o Told(row[i], rows[i])]

\* update_domain_status: a row that is not there is not written.
Put(rows, i, status) ==
    IF rows[i].status = "none" THEN rows ELSE [rows EXCEPT ![i].status = status]

PutStatus(i, status) == WriteRows(feed, Put(row, i, status))

\* The backing chain of a file
Chain[n \in 0 .. Cardinality(Files), f \in Files] ==
    IF n = 0 \/ disk[f].on = None THEN {f} ELSE {f} \cup Chain[n - 1, disk[f].on]
ChainOf(f) == Chain[Cardinality(Files), f]
Whole(f) == \A g \in ChainOf(f) : disk[g].there

DisksOf(i) == {i} \cup (IF row[i].two THEN {Shared} ELSE {})

Init ==
    /\ row = [i \in Ids |-> NoRow]
    /\ feed = [i \in Ids |-> <<>>]
    /\ changes = "off"
    /\ making = None
    /\ diskThread = [h \in Hyps |-> "on"]
    /\ diskQueue = [h \in Hyps |-> <<>>]
    /\ job = [h \in Hyps |-> Idle]
    /\ longQueue = <<>>
    /\ worker = "on"
    /\ workQueue = <<>>
    /\ disk = [f \in Files |-> IF f \in {Base, Shared} THEN [NoFile EXCEPT !.there = TRUE] ELSE NoFile]
    /\ client = [u \in Users |-> <<>>]
    /\ ops = 0 /\ faults = 0

Fault(f) == f \in Faults /\ faults < MaxFaults /\ faults' = faults + 1 /\ UNCHANGED ops
Sound == UNCHANGED bounds

----------------------------------------------------------------------------
(* Requests.                                                               *)

\* Nothing about a row is on its way.
Settled(i) ==
    /\ row[i].status \in AtRest /\ feed[i] = <<>>
    /\ \A u \in Users : \A k \in 1 .. Len(client[u]) : client[u][k].id # i
    /\ \A h \in Hyps : /\ job[h].step # "idle" => i \notin {job[h].do.id, job[h].do.t}
                       /\ \A k \in 1 .. Len(diskQueue[h]) :
                            i \notin {diskQueue[h][k].id, diskQueue[h][k].t}
    /\ \A k \in 1 .. Len(workQueue) : workQueue[k].id # i
    /\ \A d \in Desktops : row[d].tmpl # i

NewOp(op, i) ==
    /\ op \in Ops /\ ops < MaxOps /\ ops' = ops + 1
    /\ Patient => Settled(i) /\ changes # "off"
    /\ UNCHANGED <<changes, making, threads, queues, disk, faults>>

\* The templates a desktop may come from: the request reads hardware.disks of
\* their row, and no status.
Origins == {Base} \cup {t \in Templates : Present(t) /\ row[t].hw}

\* A row is inserted unless one with its id is there.
Inserts(d, new) ==
    /\ ~Present(d)
    /\ WriteRows(feed, [row EXCEPT ![d] = new])
    /\ UNCHANGED client

NewFromTemplate(d, t) ==
    /\ NewOp("from_template", d)
    /\ t \in Origins
    /\ Inserts(d, [NoRow EXCEPT !.status = "Creating", !.from = t])

NewAndStart(d, t) ==
    /\ NewOp("and_start", d)
    /\ t \in Origins
    /\ Inserts(d, [NoRow EXCEPT !.status = "CreatingAndStarting", !.from = t])

DomainFromMedia(d) ==
    \E two \in BOOLEAN :
        /\ NewOp(IF two THEN "virtio" ELSE "media", d)
        /\ Inserts(d, [NoRow EXCEPT !.status = "CreatingDiskFromScratch", !.two = two])

DomainFromVirtbuilder(d) ==
    /\ NewOp("builder", d)
    /\ Inserts(d, [NoRow EXCEPT !.status = "CreatingFromBuilder"])

\* What a request reads and writes later: the id of a template must be free,
\* a template comes from a desktop in whatever status.
WritesLater(u, i, status, t) ==
    /\ client[u] = <<>>
    /\ client' = [client EXCEPT ![u] = <<[id |-> i, status |-> status, tmpl |-> t]>>]
    /\ UNCHANGED table

NewTemplate(u, d, t) ==
    /\ NewOp("template", d)
    /\ Present(d) /\ row[d].hw /\ ~Present(t)
    /\ Patient => row[d].status = "Stopped"
    /\ WritesLater(u, d, "CreatingTemplate", t)

\* update_domain writes Updating over any status.
UpdateDomain(d) ==
    /\ NewOp("update", d)
    /\ Present(d)
    /\ Patient => row[d].status \in {"Stopped", "Failed"}
    /\ PutStatus(d, "Updating")
    /\ UNCHANGED client

\* multiple_action reads the statuses and writes Deleting ...
MultipleDelete(u, i) ==
    /\ NewOp(IF i \in Desktops THEN "delete" ELSE "delete_template", i)
    /\ row[i].status \in {"Stopped", "Failed", "Creating", "CreatingDisk", "CreatingAndStarting"}
    /\ WritesLater(u, i, "Deleting", None)

\* ... or removes the row of what is in Deleting already.
MultipleRemove(i) ==
    /\ NewOp(IF i \in Desktops THEN "delete" ELSE "delete_template", i)
    /\ row[i].status = "Deleting"
    /\ WriteRows(feed, [row EXCEPT ![i] = NoRow])
    /\ UNCHANGED client

ForceFailed(u, d) ==
    /\ NewOp("force_failed", d)
    /\ row[d].status \notin {"none", "Stopped", "Started"}
    /\ WritesLater(u, d, "Failed", None)

UserWrites(u) ==
    LET w == Head(client[u]) IN
    /\ client[u] # <<>>
    /\ client' = [client EXCEPT ![u] = Tail(@)]
    /\ WriteRows(feed,
         IF Present(w.id) /\ w.tmpl # None
         THEN [row EXCEPT ![w.id].status = w.status, ![w.id].tmpl = w.tmpl]
         ELSE Put(row, w.id, w.status))
    /\ UNCHANGED <<changes, making, threads, queues, disk, bounds>>

----------------------------------------------------------------------------
(* DomainsChangesThread.                                                   *)

Rest(i) == [feed EXCEPT ![i] = Tail(@)]
Takes(i, old, new) ==
    /\ changes = "on" /\ making = None
    /\ feed[i] # <<>>
    /\ Head(feed[i]).old \in old /\ Head(feed[i]).new \in new

\* What calls UiActions, in the order of the statuses
New == {"none", "FailedCreatingDomain"}
FromScratch(i) == Takes(i, New, {"CreatingDiskFromScratch"})
FromTemplate(i) == Takes(i, New, {"Creating"}) \/ Takes(i, {"none"}, {"CreatingAndStarting"})
FromBuilder(i) == Takes(i, New, {"CreatingFromBuilder"})
\* Mutant: a disk of virt-builder is looked for in its former status.
FromDiskOnly(i) == Takes(i, {"CreatingDisk", "CreatingDiskFromScratch"}, {"CreatingDomain"})

DiskIsThere(i) ==
    \/ Takes(i, {"CreatingDisk", "CreatingDiskFromScratch"}, {"CreatingDomain"})
    \/ Takes(i, {"RunningVirtBuilder"}, {"CreatingDomainFromBuilder"})
ToTemplate(i) == Takes(i, {"Stopped"}, {"CreatingTemplate"})
ToUpdate(i) == Takes(i, {"Stopped", "Failed"}, {"Updating"})
ToDelete(i) == Takes(i, Status \ {"Started"}, {"Deleting"})
DiskIsGone(i) == Takes(i, {"DeletingDomainDisk"}, {"DiskDeleted"})
TemplateDiskIsThere(i) == Takes(i, {"CreatingTemplateDisk"}, {"TemplateDiskCreated"})
Reaction(i) == FromScratch(i) \/ FromTemplate(i) \/ FromBuilder(i) \/ DiskIsThere(i) \/ ToTemplate(i)
               \/ ToUpdate(i) \/ ToDelete(i) \/ DiskIsGone(i) \/ TemplateDiskIsThere(i)

\* An exception ends the thread.
Dies == changes' = "dead" /\ feed' = [i \in Ids |-> <<>>] /\ UNCHANGED <<row, making, queues, threads, disk, client>> /\ Sound

Reacts(i, rows) ==
    /\ WriteRows(Rest(i), rows)
    /\ UNCHANGED <<changes, making, threads, disk, client>>

\* The row has left the table, and the handler indexes what it read.
FindsNoRow(i) ==
    /\ FromScratch(i) \/ FromTemplate(i) \/ FromBuilder(i) \/ DiskIsThere(i) \/ ToTemplate(i)
       \/ ToDelete(i) \/ TemplateDiskIsThere(i)
    /\ ~Present(i)
    /\ Dies

IgnoresChange(i) ==
    /\ changes = "on" /\ making = None /\ feed[i] # <<>> /\ ~Reaction(i)
    /\ Reacts(i, row) /\ UNCHANGED queues /\ Sound

\* update_domain_dict_hardware: the row tells the paths of its disks.
WithHardware(r) == [r EXCEPT !.hw = TRUE]

\* update_xml_from_dict_domain: the XML of the row takes its disks, media,
\* interfaces, boot order and memory, unless it cannot be parsed.
XmlFails == Fault("xml")

\* get_host_disk_operations_from_path: one of the disk threads that run
Hosts == {h \in Hyps : diskThread[h] = "on"}

\* An action for a disk thread, once the row tells it; with no host the key
\* False is not in the dictionary of queues, and the row tells that instead.
AsksDisk(i, r, status, action, failed) ==
    \/ \E h \in Hosts :
        /\ Reacts(i, [row EXCEPT ![i] = [r EXCEPT !.status = status]])
        /\ diskQueue' = [diskQueue EXCEPT ![h] = Append(@, action)]
        /\ UNCHANGED <<longQueue, workQueue>>
    \/ /\ Hosts = {}
       /\ Reacts(i, [row EXCEPT ![i] = [r EXCEPT !.status = failed]])
       /\ UNCHANGED queues

CreatingDiskFromScratch(d) ==
    /\ FromScratch(d) /\ Present(d)
    /\ AsksDisk(d, WithHardware(row[d]), "CreatingDiskFromScratch",
                [type |-> "scratch", id |-> d, t |-> None], "FailedCreatingDomain")
    /\ Sound

CreatingDisksFromTemplate(d) ==
    /\ FromTemplate(d) /\ Present(d)
    /\ AsksDisk(d, [WithHardware(row[d]) EXCEPT
                    !.after = @ \/ Head(feed[d]).new = "CreatingAndStarting"],
                "CreatingDisk", [type |-> "create", id |-> d, t |-> row[d].from],
                "FailedCreatingDomain")
    /\ Sound

CreatingDiskFromVirtbuilder(d) ==
    /\ FromBuilder(d) /\ Present(d)
    /\ Reacts(d, [row EXCEPT ![d] = [WithHardware(@) EXCEPT !.status = "RunningVirtBuilder"]])
    /\ longQueue' = Append(longQueue, d)
    /\ UNCHANGED <<diskQueue, workQueue>>
    /\ Sound

\* recreate_xml_to_start and the queue of a worker
AsksWorker(i, rows, type) ==
    /\ Reacts(i, rows)
    /\ workQueue' = Append(workQueue, [type |-> type, id |-> i, file |-> None])
    /\ UNCHANGED <<diskQueue, longQueue>>

\* The template a desktop comes from is read again for its XML.
OriginIsGone(d) == row[d].from \in Templates /\ ~Present(row[d].from)

CreatingAndTestXmlStart(d) ==
    /\ DiskIsThere(d) /\ Present(d)
    /\ ~OriginIsGone(d)
    /\ \/ /\ IF row[d].after
             THEN AsksWorker(d, Put(row, d, "StartingDomainDisposable"), "start")
             ELSE AsksWorker(d, Put(row, d, "CreatingDomain"), "test")
          /\ Sound
       \/ /\ \E failed \in {"FailedCreatingDomain", "Failed"} : Reacts(d, Put(row, d, failed))
          /\ UNCHANGED queues
          /\ XmlFails

FindsNoOrigin(d) ==
    /\ DiskIsThere(d) /\ Present(d)
    /\ OriginIsGone(d)
    /\ Dies

UpdatingFromCreateDict(d) ==
    /\ ToUpdate(d) /\ Present(d)
    /\ \/ AsksWorker(d, Put(row, d, "CreatingDomain"), "test") /\ Sound
       \/ Reacts(d, Put(row, d, "Failed")) /\ UNCHANGED queues /\ XmlFails

FindsNothingToUpdate(d) ==
    /\ ToUpdate(d) /\ ~Present(d)
    /\ Reacts(d, row) /\ UNCHANGED queues /\ Sound

\* Each disk of the desktop has its disk in the template ...
CreateTemplateDisks(d) ==
    /\ ToTemplate(d) /\ Present(d) /\ row[d].tmpl # None /\ ~row[d].two
    /\ AsksDisk(d, [row[d] EXCEPT !.made = "zeros"], "CreatingTemplateDisk",
                [type |-> "template", id |-> d, t |-> row[d].tmpl], "Stopped")
    /\ Sound

\* ... but requests give a template one disk: the second of a desktop is
\* looked for after the action for the first is on a queue.
FindsNoTemplateDisk(d) ==
    /\ ToTemplate(d) /\ Present(d) /\ row[d].tmpl # None /\ row[d].two
    /\ row' = [row EXCEPT ![d].status = "CreatingTemplateDisk", ![d].made = "zeros"]
    /\ \E h \in Hosts :
        diskQueue' = [diskQueue EXCEPT ![h] =
            Append(@, [type |-> "template", id |-> d, t |-> row[d].tmpl])]
    /\ changes' = "dead"
    /\ feed' = [i \in Ids |-> <<>>]
    /\ UNCHANGED <<making, longQueue, workQueue, threads, disk, client>>
    /\ Sound

FindsNoTemplateDict(d) ==
    /\ ToTemplate(d) /\ Present(d) /\ row[d].tmpl = None
    /\ Dies

\* The actions that erase the disks of a row: every one that hardware names
Erasures(i) ==
    LET own == [type |-> "erase", id |-> i, file |-> i]
    IN  IF row[i].two THEN <<own, [own EXCEPT !.file = Shared]>> ELSE <<own>>

DeletingDisksFromDomain(i) ==
    /\ ToDelete(i) /\ Present(i)
    /\ \/ /\ row[i].hw
          /\ Reacts(i, Put(row, i, "DeletingDomainDisk"))
          /\ workQueue' = workQueue \o Erasures(i)
          /\ UNCHANGED <<diskQueue, longQueue>>
       \/ /\ ~row[i].hw
          /\ Reacts(i, [row EXCEPT ![i] = NoRow]) /\ UNCHANGED queues
    /\ Sound

RemovesDomain(i) ==
    /\ DiskIsGone(i)
    /\ Reacts(i, [row EXCEPT ![i] = NoRow]) /\ UNCHANGED queues
    /\ Sound

\* create_template_in_db begins with the row of the template, unless its id is
\* taken; waiting for more disks is a write of the status.
InsertsTemplate(d) ==
    /\ TemplateDiskIsThere(d) /\ Present(d) /\ row[d].made = "ones" /\ row[d].tmpl # None
    /\ IF Present(row[d].tmpl)
       THEN Reacts(d, row)
       ELSE /\ WriteRows(Rest(d), [row EXCEPT ![row[d].tmpl] =
                    [NoRow EXCEPT !.status = "CreatingNewTemplateInDB", !.from = Base]])
            /\ making' = [d |-> d, t |-> row[d].tmpl, step |-> "row"]
            /\ UNCHANGED <<changes, threads, disk, client>>
    /\ UNCHANGED queues
    /\ Sound

WaitsForDisks(d) ==
    /\ TemplateDiskIsThere(d) /\ Present(d) /\ row[d].made = "zeros"
    /\ Reacts(d, Put(row, d, "CreatingTemplateDisk")) /\ UNCHANGED queues
    /\ Sound

\* force_failed and another template in between have left neither the list nor
\* the template in the row.
FindsNoList(d) ==
    /\ TemplateDiskIsThere(d) /\ Present(d)
    /\ row[d].made = "no key" \/ (row[d].made = "ones" /\ row[d].tmpl = None)
    /\ Dies

\* Then the XML of the template, what the desktop is based on, and its status
FinishesTemplate ==
    /\ changes = "on" /\ making # None /\ making.step = "row"
    /\ LET d == making.d
           t == making.t
           hw == [row EXCEPT ![t].hw = Present(t)]
           cleared == IF Present(d)
                      THEN [hw EXCEPT ![d].made = "no key", ![d].tmpl = None, ![d].from = t] ELSE hw
       IN  \/ /\ WriteRows(feed, Put(cleared, t, "Stopped"))
              /\ making' = [making EXCEPT !.step = "desktop"]
              /\ Sound
           \/ /\ WriteRows(feed, Put(hw, t, "Failed"))
              /\ making' = None
              /\ Fault("template")
    /\ UNCHANGED <<changes, threads, queues, disk, client>>

FinishesDesktop ==
    /\ changes = "on" /\ making # None /\ making.step = "desktop"
    /\ PutStatus(making.d, "Stopped")
    /\ making' = None
    /\ UNCHANGED <<changes, threads, queues, disk, client>>
    /\ Sound

ChangesThread ==
    \/ \E i \in Ids : FindsNoRow(i) \/ IgnoresChange(i) \/ DeletingDisksFromDomain(i) \/ RemovesDomain(i)
    \/ \E d \in Desktops :
        \/ CreatingDiskFromScratch(d) \/ CreatingDisksFromTemplate(d) \/ CreatingDiskFromVirtbuilder(d)
        \/ CreatingAndTestXmlStart(d) \/ FindsNoOrigin(d)
        \/ UpdatingFromCreateDict(d) \/ FindsNothingToUpdate(d)
        \/ CreateTemplateDisks(d) \/ FindsNoTemplateDisk(d) \/ FindsNoTemplateDict(d)
        \/ InsertsTemplate(d) \/ WaitsForDisks(d) \/ FindsNoList(d)
    \/ FinishesTemplate \/ FinishesDesktop

----------------------------------------------------------------------------
(* The disk threads.                                                       *)

ThreadRest == <<changes, making, longQueue, worker, workQueue, client>>

Goes(h, step) == job' = [job EXCEPT ![h].step = step]
Ends(h, result) == job' = [job EXCEPT ![h].step = "status", ![h].result = result]
DiskThreadDies(h) ==
    /\ diskThread' = [diskThread EXCEPT ![h] = "dead"]
    /\ job' = [job EXCEPT ![h] = Idle]

\* What the commands for a new disk leave, and those of virt-builder; and what
\* the first ones for a template look at.
NewDisk(a) == [there |-> TRUE, on |-> IF a.type = "create" THEN a.t ELSE None, of |-> a.id]
BuiltDisk(d) == [there |-> TRUE, on |-> None, of |-> d]
MayMove(a) == disk[a.id].there /\ ~disk[a.t].there

\* An action is taken: for a new disk the commands run at once.  Any command
\* without an error counts as success, and mkdir is one of them.
TakesAction(h) ==
    LET a == Head(diskQueue[h])
        begun == [step |-> "parents", do |-> a, result |-> "CreatingDomain", saw |-> NoRow]
        made == NewDisk(a)
    IN  /\ diskThread[h] = "on" /\ job[h] = Idle /\ diskQueue[h] # <<>>
        /\ diskQueue' = [diskQueue EXCEPT ![h] = Tail(@)]
        /\ \/ /\ a.type = "template"
              /\ job' = [job EXCEPT ![h] = [begun EXCEPT !.step = "verify"]]
              /\ UNCHANGED disk /\ Sound
           \/ /\ a.type # "template"
              /\ job' = [job EXCEPT ![h] =
                    IF a.type = "scratch" THEN [begun EXCEPT !.step = "status"] ELSE begun]
              /\ \/ disk' = (IF made.on # None => Whole(made.on) THEN [disk EXCEPT ![a.id] = made] ELSE disk)
                    /\ Sound
                 \/ UNCHANGED disk /\ Fault("qemu")
           \/ /\ a.type # "template"
              /\ job' = [job EXCEPT ![h] = [begun EXCEPT !.step = "status", !.result = "Failed"]]
              /\ UNCHANGED disk /\ Fault("mkdir")
        /\ UNCHANGED <<table, diskThread, ThreadRest>>

\* Mutant: the file of the template may exist.
UncheckedVerifies(h) ==
    /\ job[h].step = "verify"
    /\ IF disk[job[h].do.id].there THEN Goes(h, "move") ELSE Ends(h, "Stopped")
    /\ UNCHANGED <<table, diskThread, diskQueue, disk, ThreadRest>>
    /\ Sound

\* verify_output_cmds1: the disk of the desktop is there, that of the template
\* is not, and there is room.
Verifies(h) ==
    /\ job[h].step = "verify"
    /\ \/ /\ IF MayMove(job[h].do)
             THEN Goes(h, "move") ELSE Ends(h, "Stopped")
          /\ Sound
       \/ Ends(h, "Stopped") /\ Fault("refuse")
    /\ UNCHANGED <<table, diskThread, diskQueue, disk, ThreadRest>>

\* Mutant: nobody looks at what the move left.
UncheckedMoves(h) ==
    LET d == job[h].do.id
        t == job[h].do.t
    IN  /\ job[h].step = "move"
        /\ \/ /\ disk[d].there
              /\ disk' = [disk EXCEPT ![t] = disk[d], ![d].there = FALSE]
              /\ Sound
           \/ UNCHANGED disk /\ Fault("mv")
        /\ Goes(h, "recreate")
        /\ UNCHANGED <<table, diskThread, diskQueue, ThreadRest>>

\* The disk of the desktop becomes that of the template.  verify_output_cmds2:
\* one of both, and the template's, must be there.
Moves(h) ==
    LET d == job[h].do.id
        t == job[h].do.t
    IN  /\ job[h].step = "move"
        /\ \/ /\ disk[d].there
              /\ disk' = [disk EXCEPT ![t] = disk[d], ![d].there = FALSE]
              /\ Goes(h, "recreate")
              /\ Sound
           \/ /\ UNCHANGED disk
              /\ IF disk[d].there = disk[t].there THEN Ends(h, "Crashed")
                 ELSE IF disk[t].there THEN Goes(h, "recreate") ELSE Ends(h, "Stopped")
              /\ IF disk[d].there THEN Fault("mv") ELSE Sound
           \/ /\ disk[d].there
              /\ disk' = [disk EXCEPT ![t] = [disk[d] EXCEPT !.of = None]]
              /\ Ends(h, "Crashed")
              /\ Fault("rsync")
        /\ UNCHANGED <<table, diskThread, diskQueue, ThreadRest>>

\* The desktop has a new disk that is based on the template's.
Recreates(h) ==
    /\ job[h].step = "recreate"
    /\ \/ /\ disk' = [disk EXCEPT ![job[h].do.id] =
                [there |-> TRUE, on |-> job[h].do.t, of |-> None]]
          /\ Goes(h, "made") /\ Sound
       \/ UNCHANGED disk /\ Ends(h, "Crashed") /\ Fault("recreate")
    /\ UNCHANGED <<table, diskThread, diskQueue, ThreadRest>>

\* update_disk_template_created, update_domain_parents: a row, or a key, that
\* is not there raises an exception, which ends the thread.
WritesMade(h) ==
    LET d == job[h].do.id IN
    /\ job[h].step \in {"made", "parents"}
    /\ IF Present(d) /\ (job[h].step = "made" => row[d].made # "no key")
       THEN /\ row' = (IF job[h].step = "made" THEN [row EXCEPT ![d].made = "ones"] ELSE row)
            /\ Goes(h, "read")
            /\ UNCHANGED diskThread
       ELSE UNCHANGED row /\ DiskThreadDies(h)
    /\ UNCHANGED <<feed, diskQueue, disk, ThreadRest>>
    /\ Sound

\* update_disk_backing_chain reads the whole row ...
ReadsRow(h) ==
    LET d == job[h].do.id IN
    /\ job[h].step = "read"
    /\ IF Present(d) /\ (job[h].do.type = "template" => row[d].tmpl # None)
       THEN job' = [job EXCEPT ![h].step = "replace", ![h].saw = row[d]] /\ UNCHANGED diskThread
       ELSE DiskThreadDies(h)
    /\ UNCHANGED <<table, diskQueue, disk, ThreadRest>>
    /\ Sound

\* ... and replaces the whole row, its status too.
ReplacesRow(h) ==
    LET d == job[h].do.id IN
    /\ job[h].step = "replace"
    /\ WriteRows(feed, IF Present(d) THEN [row EXCEPT ![d] = job[h].saw] ELSE row)
    /\ Ends(h, IF job[h].do.type = "template" THEN "TemplateDiskCreated" ELSE "CreatingDomain")
    /\ UNCHANGED <<diskThread, diskQueue, disk, ThreadRest>>
    /\ Sound

WritesStatus(h) ==
    /\ job[h].step = "status"
    /\ PutStatus(job[h].do.id, job[h].result)
    /\ job' = [job EXCEPT ![h] = Idle]
    /\ UNCHANGED <<diskThread, diskQueue, disk, ThreadRest>>
    /\ Sound

DiskThread(h) ==
    \/ TakesAction(h) \/ Verifies(h) \/ Moves(h) \/ Recreates(h) \/ WritesMade(h)
    \/ ReadsRow(h) \/ ReplacesRow(h) \/ WritesStatus(h)

\* The long operations thread runs virt-builder; one failed command of its
\* several does not count.
VirtBuilder ==
    /\ longQueue # <<>>
    /\ longQueue' = Tail(longQueue)
    /\ LET d == Head(longQueue)
           made == [disk EXCEPT ![d] = BuiltDisk(d)]
       IN  \/ disk' = made /\ PutStatus(d, "CreatingDomainFromBuilder") /\ Sound
           \/ UNCHANGED disk /\ Fault("builder")
              /\ \E s \in {"CreatingDomainFromBuilder", "Failed"} : PutStatus(d, s)
    /\ UNCHANGED <<changes, making, threads, diskQueue, workQueue, client>>

----------------------------------------------------------------------------
(* The worker.                                                             *)

WorkerTakes(types) ==
    /\ worker = "on" /\ workQueue # <<>> /\ Head(workQueue).type \in types
    /\ workQueue' = Tail(workQueue)
    /\ UNCHANGED <<changes, making, diskThread, job, diskQueue, longQueue, client>>

Runs(d) == \A f \in DisksOf(d) : Whole(f)

\* libvirt creates the guest, paused for a test, if all of its disks are there.
WorkerTests ==
    /\ WorkerTakes({"test", "start"})
    /\ LET d == Head(workQueue).id
           good == IF Head(workQueue).type = "test" THEN "Stopped" ELSE "Started"
       IN  \/ PutStatus(d, IF Runs(d) THEN good ELSE "Failed") /\ Sound
           \/ PutStatus(d, "Failed") /\ Fault("test")
    /\ UNCHANGED <<disk, worker>>

\* A disk is erased.  When there was one, its backing chain is cleared in the
\* row, and a row that has left the table ends the worker.
WorkerErases ==
    /\ WorkerTakes({"erase"})
    /\ LET a == Head(workQueue)
       IN  \/ /\ disk' = [disk EXCEPT ![a.file].there = FALSE]
              /\ IF disk[a.file].there /\ ~Present(a.id)
                 THEN worker' = "dead" /\ UNCHANGED table
                 ELSE UNCHANGED worker /\ PutStatus(a.id, "DiskDeleted")
              /\ Sound
           \/ /\ UNCHANGED <<disk, worker>>
              /\ PutStatus(a.id, "DiskDeleted")
              /\ Fault("rm")

Worker == WorkerTests \/ WorkerErases

----------------------------------------------------------------------------
(* The engine restarts: its threads and queues begin anew, commands end    *)
(* where they were, and statuses it knows of are cleaned.                  *)

Cleaned(r) ==
    IF r.status \in {"Creating", "CreatingAndStarting", "CreatingDiskFromScratch", "CreatingFromBuilder"}
    THEN NoRow
    ELSE IF r.status \in {"Updating", "Deleting"} THEN [r EXCEPT !.status = "Failed"]
    ELSE r

EngineRestarts ==
    /\ Fault("restart")
    /\ row' = [i \in Ids |-> Cleaned(row[i])]
    /\ feed' = [i \in Ids |-> <<>>]
    /\ changes' = "off"
    /\ making' = None
    /\ diskThread' = [h \in Hyps |-> "on"]
    /\ diskQueue' = [h \in Hyps |-> <<>>]
    /\ job' = [h \in Hyps |-> Idle]
    /\ longQueue' = <<>>
    /\ worker' = "on"
    /\ workQueue' = <<>>
    /\ UNCHANGED <<disk, client>>

ChangesThreadStarts ==
    /\ changes = "off"
    /\ changes' = "on"
    /\ UNCHANGED <<table, making, threads, queues, disk, client, bounds>>

----------------------------------------------------------------------------
Requests ==
    \/ \E d \in Desktops :
        \/ \E t \in Templates \cup {Base} : NewFromTemplate(d, t) \/ NewAndStart(d, t)
        \/ DomainFromMedia(d) \/ DomainFromVirtbuilder(d) \/ UpdateDomain(d)
        \/ \E u \in Users : ForceFailed(u, d) \/ \E t \in Templates : NewTemplate(u, d, t)
    \/ \E i \in Ids : MultipleRemove(i) \/ \E u \in Users : MultipleDelete(u, i)
    \/ \E u \in Users : UserWrites(u)

Next ==
    \/ Requests
    \/ ChangesThread \/ ChangesThreadStarts
    \/ \E h \in Hyps : DiskThread(h)
    \/ VirtBuilder
    \/ Worker
    \/ EngineRestarts

Spec == Init /\ [][Next]_vars

----------------------------------------------------------------------------
(* Properties.                                                             *)

\* The threads that create: no row that is missing, no key and no second disk
\* ends one of them, which would serve no desktop any more.
ThreadsGoOn == changes # "dead" /\ worker = "on" /\ \A h \in Hyps : diskThread[h] = "on"

\* "Domain created and test OK", "Template created, ready to create domains":
\* what is Stopped has its disk, with all it is based on.
StoppedIsWhole == \A i \in Ids : row[i].status = "Stopped" => \A f \in DisksOf(i) : Whole(f)

\* The work of a desktop stays in the chain of its disk, whatever is made of
\* it and whatever fails on the way.
KeepsWork ==
    \A d \in Desktops : row[d].status = "Stopped" => \E f \in ChainOf(d) : disk[f].of = d

\* Even when the tasks of two disk threads cross, a template is told to be ready
\* only with its file and all it is based on.
TemplateIsWhole == \A t \in Templates : row[t].status = "Stopped" => Whole(t)

\* However requests cross each other, one disk thread never bases a file on
\* itself.
BackingChainsEnd == \A f \in Files : disk[f].on # None => f \notin ChainOf(disk[f].on)

\* When nothing is on its way, what is not in the table has no file.
RemovedWithItsDisk ==
    \A d \in Desktops : row[d].status = "none" /\ Settled(d) => ~disk[d].there

\* A desktop or a template is created, updated or deleted.
Working(i) == row[i].status \in InProgress
=============================================================================
