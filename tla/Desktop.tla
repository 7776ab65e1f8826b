------------------------------ MODULE Desktop ------------------------------
(***************************************************************************)
(* The power life cycle of desktops: starting, shutting down, stopping and *)
(* deleting them.                                                          *)
(*                                                                         *)
(* A user or an administrator reads the status of a desktop in the table   *)
(* "domains" and writes the status wanted.  DomainsChangesThread follows   *)
(* the changefeed of the table and turns a pair (old status, new status)   *)
(* into an action on the queue of the worker of a hypervisor.  The worker  *)
(* calls libvirt and writes the outcome; the thread of events writes what  *)
(* libvirt tells about the guests.  No write looks at the status it        *)
(* replaces, and nothing but the table ties these actors together.         *)
(*                                                                         *)
(* The orchestrator, which launches and forgets workers, is modelled in    *)
(* Orchestrator; of it this module keeps what the workers and their queues *)
(* mean to the desktops.  Every desktop has one disk, is not paused, and   *)
(* may run on every hypervisor.                                            *)
(***************************************************************************)
EXTENDS Naturals, Sequences

CONSTANTS
    Desktops,   \* desktop ids
    Servers,    \* the desktops with create_dict.server, which the engine keeps running
    Hyps,       \* hypervisor ids
    NoHyp,      \* what hyp_started holds when it names no hypervisor: "" or False
    Users,      \* requests to the API and the webapp that may run at once
    Ops,        \* what users do, a subset of AllOps
    Faults,     \* what may go wrong, a subset of AllFaults
    Patient,    \* whether users wait until the engine has come to rest
    MaxOps,     \* bound on the number of operations of users
    MaxFaults   \* bound on the number of faults

AllOps == {"start", "stop", "shutdown", "stopping", "delete", "api_delete",
           "mdelete", "force_failed", "bulk", "restart"}

\* power_off: a guest ends by itself; early: it does before its worker wrote
\* that it started; unheard: it does while nobody listens; bad_xml, start,
\* describe, destroy: a call fails; net: the connection to libvirt breaks;
\* host: the hypervisor reboots; lost: a broken connection cannot be made
\* again.
AllFaults == {"power_off", "early", "unheard", "bad_xml", "start", "describe", "destroy",
              "net", "host", "lost"}

ASSUME ConstantsAssumption ==
    /\ Servers \subseteq Desktops
    /\ NoHyp \notin Hyps
    /\ Ops \subseteq AllOps
    /\ Faults \subseteq AllFaults
    /\ Patient \in BOOLEAN
    /\ MaxOps \in Nat
    /\ MaxFaults \in Nat

VARIABLES
    row,        \* the table "domains"
    feed,       \* changes of each desktop the changefeed has not delivered yet
    changes,    \* the thread DomainsChangesThread: "off", "on" or "dead"
    worker,     \* the worker of each hypervisor: "none", "online", "dying", or
                \* "silent" when it ended and nobody was told
    last,       \* what dom_id is in each worker: the desktop it started last
    broken,     \* hypervisors whose connection to libvirt is broken
    listens,    \* whether the thread of events listens: "no", "asked" or "yes"
    queue,      \* the queue of each worker
    doing,      \* what each worker has yet to write about the action it serves
    guests,     \* what runs on each hypervisor
    events,     \* events of each hypervisor not handled yet
    erased,     \* desktops whose disk was erased
    client,     \* what each request has yet to write or to wait for
    polled,     \* servers the orchestrator found stopped and has yet to start
    ops,        \* operations of users so far
    faults      \* faults so far

vars == <<row, feed, changes, worker, last, broken, listens, queue, doing, guests,
          events, erased, client, polled, ops, faults>>
tableVars == <<row, feed, client>>
workerVars == <<worker, last, broken, listens, queue, doing, polled>>
libvirtVars == <<guests, events, erased>>
bounds == <<ops, faults>>

Status == {"Stopped", "Starting", "Started", "Shutting-down", "Stopping", "Unknown",
           "Failed", "Maintenance", "Deleting", "DeletingDomainDisk", "DiskDeleted"}

HypStarted == Hyps \cup {NoHyp}
DomainRow == [present : BOOLEAN, status : Status, hyp : HypStarted]
Change == [old : Status, new : Status]
ActionTypes == {"start_domain", "shutdown_domain", "stop_domain", "delete_disk"}
Action == [type : ActionTypes, d : Desktops]
Outcome == [d : Desktops, status : Status, hyp : HypStarted]
Event == [d : Desktops, event : {"Started", "Stopped"}]

TypeOK ==
    /\ row \in [Desktops -> DomainRow]
    /\ feed \in [Desktops -> Seq(Change)]
    /\ changes \in {"off", "on", "dead"}
    /\ worker \in [Hyps -> {"none", "online", "silent", "dying"}]
    /\ last \in [Hyps -> SUBSET Desktops]
    /\ broken \in SUBSET Hyps
    /\ listens \in [Hyps -> {"no", "asked", "yes"}]
    /\ queue \in [Hyps -> Seq(Action)]
    /\ doing \in [Hyps -> Seq(Outcome)]
    /\ guests \in [Hyps -> SUBSET Desktops]
    /\ events \in [Hyps -> Seq(Event)]
    /\ erased \in SUBSET Desktops
    /\ client \in [Users -> [d : Desktops, todo : Seq(Status \cup {"wait", "tidy"})]]
    /\ polled \in SUBSET Servers
    /\ ops \in 0 .. MaxOps
    /\ faults \in 0 .. MaxFaults

\* The hypervisors whose status is Online
Online == {h \in Hyps : worker[h] \in {"online", "silent"}}
Running(d) == {h \in Hyps : d \in guests[h]}

\* Nothing is on its way between the actors.
Quiet ==
    /\ changes = "on"
    /\ broken = {} /\ polled = {}
    /\ \A h \in Hyps : listens[h] # "asked"
    /\ \A d \in Desktops : feed[d] = <<>>
    /\ \A h \in Hyps : worker[h] # "dying" /\ queue[h] = <<>> /\ doing[h] = <<>> /\ events[h] = <<>>
    /\ \A u \in Users : client[u].todo = <<>>

----------------------------------------------------------------------------
(* The table "domains".                                                    *)

\* Mutant: the row is written whether it is there or not.
PutAnyway(r, status, hyp) ==
    [r EXCEPT !.present = TRUE, !.status = status, !.hyp = hyp]

\* update_domain_status writes the row if there is one, and what it replaces
\* is not looked at; every status but a kept one comes with its hyp_started.
Put(r, status, hyp) ==
    IF r.present THEN [r EXCEPT !.status = status, !.hyp = hyp] ELSE r

PutStatus(r, status) == Put(r, status, r.hyp)

\* What the changefeed tells about a row: the thread does nothing about a row
\* that leaves the table or a change of the detail alone.
Changed(old, new) ==
    IF old.present /\ new.present /\ old.status # new.status
    THEN <<[old |-> old.status, new |-> new.status]>> ELSE <<>>

\* A request that waits for the status Stopped sees every change to it.
Notified(requests, rows) ==
    [u \in Users |->
        LET q == requests[u]
        IN  IF /\ q.todo # <<>> /\ Head(q.todo) = "wait"
               /\ rows[q.d].status = "Stopped" /\ row[q.d].status # "Stopped"
            THEN [q EXCEPT !.todo = Tail(@)] ELSE q]

\* The rows are written; the changes go after what is left of the feed.
WriteAll(rest, requests, rows) ==
    /\ row' = rows
    /\ feed' = IF changes = "on"
               THEN [d \in Desktops |-> rest[d] \o Changed(row[d], rows[d])] ELSE rest
    /\ client' = Notified(requests, rows)

WriteRow(d, r) == WriteAll(feed, client, [row EXCEPT ![d] = r])

----------------------------------------------------------------------------
(* The engine starts with every desktop stopped, and no worker yet.        *)

Init ==
    /\ row = [d \in Desktops |-> [present |-> TRUE, status |-> "Stopped", hyp |-> NoHyp]]
    /\ feed = [d \in Desktops |-> <<>>]
    /\ changes = "off"
    /\ worker = [h \in Hyps |-> "none"]
    /\ last = [h \in Hyps |-> {}]
    /\ broken = {}
    /\ listens = [h \in Hyps |-> "no"]
    /\ queue = [h \in Hyps |-> <<>>]
    /\ doing = [h \in Hyps |-> <<>>]
    /\ guests = [h \in Hyps |-> {}]
    /\ events = [h \in Hyps |-> <<>>]
    /\ erased = {}
    /\ client \in [Users -> [d : Desktops, todo : {<<>>}]]
    /\ polled = {} /\ ops = 0 /\ faults = 0

----------------------------------------------------------------------------
(* Users and administrators.                                               *)

\* The status an operation needs to find
From(op) ==
    CASE op = "start" -> {"Stopped", "Failed"}
      [] op = "stop" -> {"Started"}
      [] op = "shutdown" -> {"Started"}
      [] op = "stopping" -> {"Started", "Shutting-down"}
      [] op = "delete" -> {"Stopped", "Failed", "Shutting-down"}
      [] op = "api_delete" -> Status
      [] op = "mdelete" -> Status
      [] op = "force_failed" -> Status \ {"Stopped", "Started"}
      [] op = "bulk" -> {"Unknown"}
      [] OTHER -> {}

\* What it then does: the statuses it writes, one after the other
Todo(op, status) ==
    CASE op = "start" -> <<"Starting">>
      [] op \in {"stop", "stopping", "bulk"} -> <<"Stopping">>
      [] op = "shutdown" -> <<"Shutting-down">>
      [] op = "delete" -> <<"Deleting">>
      [] op = "force_failed" -> <<"Failed">>
      [] op = "api_delete" /\ status = "Started" -> <<"Stopping", "wait", "Deleting">>
      [] op = "api_delete" /\ status \in {"Stopped", "Failed"} -> <<"Deleting">>
      [] op = "api_delete" /\ status \notin {"Started", "Stopped", "Failed"} -> <<"Failed", "Deleting">>
      [] op = "mdelete" /\ status = "Started" -> <<"Stopping", "tidy", "Stopped", "Deleting">>
      [] OTHER -> <<"Maintenance", "Stopped", "Deleting">>

NewOp(op) ==
    /\ op \in Ops
    /\ Patient => Quiet
    /\ ops < MaxOps
    /\ ops' = ops + 1
    /\ UNCHANGED <<changes, workerVars, libvirtVars, faults>>

\* An operation reads the status of a desktop ...
UserReads(u, d, op) ==
    /\ NewOp(op)
    /\ client[u].todo = <<>>
    /\ row[d].present
    /\ row[d].status \in From(op)
    /\ client' = [client EXCEPT ![u] = [d |-> d, todo |-> Todo(op, row[d].status)]]
    /\ UNCHANGED <<row, feed>>

\* ... and writes another one, later and whatever it is by then; only the
\* loop of domains_mdelete looks again and puts Stopped in Maintenance.
UserWrites(u) ==
    LET q == client[u]
        r == row[q.d]
        w == Head(q.todo)
    IN  /\ q.todo # <<>> /\ w # "wait"
        /\ WriteAll(feed, [client EXCEPT ![u].todo = Tail(@)],
             [row EXCEPT ![q.d] =
                IF w # "tidy" THEN PutStatus(r, w)
                ELSE IF r.status = "Stopped" THEN PutStatus(r, "Maintenance") ELSE r])
        /\ UNCHANGED <<changes, workerVars, libvirtVars, bounds>>

\* WaitStatus gives up after some seconds: delete_desktop ends with an error.
UserGivesUp(u) ==
    /\ client[u].todo # <<>> /\ Head(client[u].todo) = "wait"
    /\ client' = [client EXCEPT ![u].todo = <<>>]
    /\ UNCHANGED <<row, feed, changes, workerVars, libvirtVars, bounds>>

\* multiple_action removes the row of a desktop that is in Deleting already.
UserRemovesRow(d) ==
    /\ NewOp("delete")
    /\ row[d].status = "Deleting" /\ row[d].present
    /\ WriteRow(d, [row[d] EXCEPT !.present = FALSE])

----------------------------------------------------------------------------
(* The engine restarts.                                                    *)

\* clean_intermediate_status, clean_started_without_hyp and
\* domain_status_from_started_to_unknown, one after the other
Cleaned(r) ==
    IF r.status = "Deleting" THEN Put(r, "Failed", NoHyp)
    ELSE IF r.status = "Starting" THEN Put(r, "Stopped", NoHyp)
    ELSE IF r.status \in {"Stopping", "Shutting-down", "Started"}
    THEN IF r.hyp = NoHyp THEN Put(r, "Failed", NoHyp) ELSE PutStatus(r, "Unknown")
    ELSE r

EngineRestart ==
    /\ "restart" \in Ops /\ ops < MaxOps /\ ops' = ops + 1
    /\ row' = [d \in Desktops |-> Cleaned(row[d])]
    /\ feed' = [d \in Desktops |-> <<>>]
    /\ client' = Notified(client, row')
    /\ changes' = "off"
    /\ worker' = [h \in Hyps |-> "none"]
    /\ last' = [h \in Hyps |-> {}]
    /\ broken' = {}
    /\ listens' = [h \in Hyps |-> "no"]
    /\ queue' = [h \in Hyps |-> <<>>]
    /\ doing' = [h \in Hyps |-> <<>>]
    /\ events' = [h \in Hyps |-> <<>>]
    /\ polled' = {}
    /\ UNCHANGED <<guests, erased, faults>>

----------------------------------------------------------------------------
(* DomainsChangesThread.                                                   *)

Fault(f) == f \in Faults /\ faults < MaxFaults /\ faults' = faults + 1
Sound == UNCHANGED faults

ChangesThreadStarts ==
    /\ changes = "off"
    /\ changes' = "on"
    /\ Sound /\ UNCHANGED <<tableVars, workerVars, libvirtVars, ops>>

\* check_actions_domains_enabled
ActionsEnabled == \E h \in Hyps : worker[h] # "none"

\* Mutant: a desktop that was asked to shut down is not stopped.
ReactionStopsStarted(c) ==
    IF c.old \in {"Stopped", "Failed"} /\ c.new = "Starting" THEN "start_domain"
    ELSE IF c.old = "Started" /\ c.new = "Shutting-down" THEN "shutdown_domain"
    ELSE IF c.old = "Started" /\ c.new = "Stopping" THEN "stop_domain"
    ELSE "nothing"

\* Mutant: the disk of a desktop is deleted whatever its status was.
ReactionDeletesAnything(c) ==
    IF c.old \in {"Stopped", "Failed"} /\ c.new = "Starting" THEN "start_domain"
    ELSE IF c.old = "Started" /\ c.new = "Shutting-down" THEN "shutdown_domain"
    ELSE IF c.new = "Deleting" THEN "delete_disk"
    ELSE "nothing"

\* What the thread does about a pair of statuses
Reaction(c) ==
    IF ~ActionsEnabled
    THEN IF c.new \in {"Starting", "Stopping", "Deleting"} THEN "revert" ELSE "nothing"
    ELSE IF c.old \in {"Stopped", "Failed"} /\ c.new = "Starting" THEN "start_domain"
    ELSE IF c.old = "Started" /\ c.new = "Shutting-down" THEN "shutdown_domain"
    ELSE IF c.old \in {"Started", "Shutting-down"} /\ c.new = "Stopping" THEN "stop_domain"
    ELSE IF c.old \notin {"Started", "Shutting-down"} /\ c.new = "Deleting" THEN "delete_disk"
    ELSE IF c.old = "DeletingDomainDisk" /\ c.new = "DiskDeleted" THEN "remove"
    ELSE "nothing"

Rest(d) == [feed EXCEPT ![d] = Tail(@)]

TakeChange(d, reactions) ==
    /\ changes = "on"
    /\ feed[d] # <<>>
    /\ Reaction(Head(feed[d])) \in reactions
    /\ UNCHANGED <<worker, last, broken, listens, doing, polled, libvirtVars, ops>>

\* The change is consumed and r is the row of d afterwards.
Handled(d, r) == WriteAll(Rest(d), client, [row EXCEPT ![d] = r])

Enqueue(h, type, d) == queue' = [queue EXCEPT ![h] = Append(@, [type |-> type, d |-> d])]

\* An exception ends the thread: nothing catches one in its loop.
ChangesThreadDies ==
    /\ changes' = "dead"
    /\ feed' = [d \in Desktops |-> <<>>]
    /\ Sound /\ UNCHANGED <<row, client, queue>>

IgnoresChange(d) ==
    /\ TakeChange(d, {"nothing"})
    /\ Handled(d, row[d])
    /\ Sound /\ UNCHANGED <<queue, changes>>

\* Without workers the old status is written again, and hyp_started is lost.
RevertsStatus(d) ==
    /\ TakeChange(d, {"revert"})
    /\ Handled(d, Put(row[d], Head(feed[d]).old, NoHyp))
    /\ Sound /\ UNCHANGED <<queue, changes>>

\* start_domain_from_id: the status stays Starting while the action waits.
StartsDomain(d) ==
    /\ TakeChange(d, {"start_domain"})
    /\ UNCHANGED changes
    /\ \/ /\ row[d].present
          /\ \E h \in Online : Enqueue(h, "start_domain", d)
          /\ Handled(d, row[d]) /\ Sound
       \/ /\ ~row[d].present \/ Online = {}
          /\ Handled(d, Put(row[d], "Failed", NoHyp))
          /\ Sound /\ UNCHANGED queue
       \/ /\ Handled(d, Put(row[d], "Failed", NoHyp))
          /\ Fault("bad_xml") /\ UNCHANGED queue

\* shutdown_domain and stop_domain: on the queue of the hypervisor that
\* hyp_started names by now.  Reading it from a row that left the table, and
\* the queue of a worker that was forgotten, are exceptions.
StopsDomain(d) ==
    LET h == row[d].hyp
    IN  /\ TakeChange(d, {"shutdown_domain", "stop_domain"})
        /\ IF ~row[d].present \/ (h # NoHyp /\ worker[h] = "none")
           THEN ChangesThreadDies
           ELSE /\ IF h = NoHyp THEN UNCHANGED queue
                   ELSE Enqueue(h, Reaction(Head(feed[d])), d)
                /\ Handled(d, row[d])
                /\ Sound /\ UNCHANGED changes

\* deleting_disks_from_domain: the status is DeletingDomainDisk, and Stopped
\* right after that when no hypervisor is Online.
DeletesDisks(d) ==
    /\ TakeChange(d, {"delete_disk"})
    /\ IF ~row[d].present THEN ChangesThreadDies
       ELSE /\ Sound /\ UNCHANGED changes
            /\ \/ /\ \E h \in Online : Enqueue(h, "delete_disk", d)
                  /\ Handled(d, Put(row[d], "DeletingDomainDisk", NoHyp))
               \/ /\ Online = {}
                  /\ Handled(d, Put(row[d], "Stopped", NoHyp))
                  /\ UNCHANGED queue

\* remove_domain
RemovesDomain(d) ==
    /\ TakeChange(d, {"remove"})
    /\ Handled(d, [row[d] EXCEPT !.present = FALSE])
    /\ Sound /\ UNCHANGED <<queue, changes>>

ChangesThread ==
    \/ ChangesThreadStarts
    \/ \E d \in Desktops :
         \/ IgnoresChange(d) \/ RevertsStatus(d) \/ StartsDomain(d)
         \/ StopsDomain(d) \/ DeletesDisks(d) \/ RemovesDomain(d)

----------------------------------------------------------------------------
(* libvirt.                                                                *)

\* libvirt tells the engine when it listens.
Tell(h, d, event) ==
    events' = IF listens[h] = "yes"
              THEN [events EXCEPT ![h] = Append(@, [d |-> d, event |-> event])] ELSE events

Boots(h, d) ==
    /\ guests' = [guests EXCEPT ![h] = @ \cup {d}]
    /\ Tell(h, d, "Started")

Ends(h, d) ==
    /\ guests' = [guests EXCEPT ![h] = @ \ {d}]
    /\ Tell(h, d, "Stopped")

\* A guest powers off, by itself or because it was asked to; unless that is
\* a fault, not before the worker that started it wrote so.
GuestPowersOff(h, d) ==
    /\ "power_off" \in Faults
    /\ d \in guests[h]
    /\ "early" \notin Faults => \A i \in DOMAIN doing[h] : doing[h][i].d # d
    /\ worker[h] = "online" /\ h \notin broken => listens[h] = "yes" \/ "unheard" \in Faults
    /\ Ends(h, d)
    /\ Sound /\ UNCHANGED <<tableVars, changes, workerVars, erased, ops>>

\* The connections to a hypervisor break, the one for events as well.
Breaks(h) ==
    /\ broken' = broken \cup {h}
    /\ listens' = [listens EXCEPT ![h] = IF @ = "yes" THEN "no" ELSE @]
    /\ events' = [events EXCEPT ![h] = <<>>]
    /\ UNCHANGED <<tableVars, changes, worker, last, queue, doing, erased, polled, ops>>

ConnectionBreaks(h) ==
    /\ worker[h] = "online"
    /\ Breaks(h)
    /\ Fault("net") /\ UNCHANGED guests

HypervisorReboots(h) ==
    /\ Breaks(h)
    /\ guests' = [guests EXCEPT ![h] = {}]
    /\ Fault("host")

----------------------------------------------------------------------------
(* Workers.                                                                *)

\* An action is taken from the queue, libvirt is called, and the outcome is
\* written afterwards.
Serve(h, type) ==
    /\ worker[h] = "online"
    /\ doing[h] = <<>>
    /\ queue[h] # <<>> /\ Head(queue[h]).type = type
    /\ queue' = [queue EXCEPT ![h] = Tail(@)]
    /\ UNCHANGED <<tableVars, changes, broken, listens, polled, ops>>

Desktop(h) == Head(queue[h]).d

ToWrite(h, status, hyp) ==
    doing' = [doing EXCEPT ![h] = <<[d |-> Desktop(h), status |-> status, hyp |-> hyp]>>]

\* createXML, and XMLDesc of the guest that was created
WorkerStarts(h) ==
    LET d == Desktop(h)
    IN  /\ Serve(h, "start_domain")
        /\ h \in broken \/ d \notin guests[h]
        /\ UNCHANGED <<worker, erased>>
        /\ \/ /\ h \notin broken
              /\ Boots(h, d) /\ ToWrite(h, "Started", h)
              /\ last' = [last EXCEPT ![h] = {d}]
              /\ Sound
           \/ /\ h \notin broken
              /\ Boots(h, d) /\ ToWrite(h, "Failed", h)
              /\ Fault("describe") /\ UNCHANGED last
           \/ /\ ToWrite(h, "Failed", h)
              /\ IF h \in broken THEN Sound ELSE Fault("start")
              /\ UNCHANGED <<guests, events, last>>

\* createXML tells that the domain is already active: dom_id is written, the
\* desktop the worker started last; if there is none, the exception ends the
\* worker.
WorkerFindsActive(h) ==
    /\ Serve(h, "start_domain")
    /\ h \notin broken /\ Desktop(h) \in guests[h]
    /\ Sound /\ UNCHANGED <<last, libvirtVars>>
    /\ \/ \E d \in last[h] :
            /\ doing' = [doing EXCEPT ![h] = <<[d |-> d, status |-> "Started", hyp |-> h]>>]
            /\ UNCHANGED worker
       \/ /\ last[h] = {}
          /\ worker' = [worker EXCEPT ![h] = "silent"]
          /\ UNCHANGED doing

\* shutdownFlags: the guest is asked to power off
WorkerShutsDown(h) ==
    /\ Serve(h, "shutdown_domain")
    /\ IF h \notin broken /\ Desktop(h) \in guests[h]
       THEN ToWrite(h, "Shutting-down", h) ELSE UNCHANGED doing
    /\ Sound /\ UNCHANGED <<worker, last, libvirtVars>>

\* lookupByName and destroy
WorkerStops(h) ==
    /\ Serve(h, "stop_domain")
    /\ UNCHANGED <<worker, last, erased>>
    /\ LET d == Desktop(h)
       IN  \/ /\ h \notin broken /\ d \in guests[h]
              /\ Ends(h, d) /\ ToWrite(h, "Stopped", NoHyp) /\ Sound
           \/ /\ h \in broken \/ d \notin guests[h]
              /\ ToWrite(h, "Failed", h)
              /\ Sound /\ UNCHANGED <<guests, events>>
           \/ ToWrite(h, "Failed", h) /\ Fault("destroy") /\ UNCHANGED <<guests, events>>

\* launch_action_disk: DiskDeleted also when the disk could not be erased
WorkerDeletesDisk(h) ==
    /\ Serve(h, "delete_disk")
    /\ erased' = erased \cup {Desktop(h)}
    /\ ToWrite(h, "DiskDeleted", NoHyp)
    /\ Sound /\ UNCHANGED <<worker, last, guests, events>>

WorkerWrites(h) ==
    /\ doing[h] # <<>>
    /\ LET o == Head(doing[h]) IN WriteRow(o.d, Put(row[o.d], o.status, o.hyp))
    /\ doing' = [doing EXCEPT ![h] = Tail(@)]
    /\ Sound /\ UNCHANGED <<changes, worker, last, broken, listens, queue, libvirtVars, polled, ops>>

\* Mutant: the desktops the table has at the hypervisor are left as they are.
CoherentWithGuests(h) ==
    [d \in Desktops |-> IF d \in guests[h] THEN Put(row[d], "Started", h) ELSE row[d]]

\* update_domain_coherence_in_db: what runs on h is Started, and what the
\* table has at h and does not run is Stopped
Coherent(h) ==
    [d \in Desktops |->
        IF d \in guests[h] THEN Put(row[d], "Started", h)
        ELSE IF row[d].hyp = h THEN Put(row[d], "Stopped", NoHyp)
        ELSE row[d]]

\* A worker connects to its hypervisor and asks for its events.
WorkerConnects(h) ==
    /\ changes # "off"
    /\ worker[h] = "none"
    /\ worker' = [worker EXCEPT ![h] = "online"]
    /\ last' = [last EXCEPT ![h] = {}]
    /\ broken' = broken \ {h}
    /\ listens' = [listens EXCEPT ![h] = "asked"]
    /\ WriteAll(feed, client, Coherent(h))
    /\ Sound /\ UNCHANGED <<changes, queue, doing, libvirtVars, polled, ops>>

\* add_hyp_to_receive_events, with a connection of its own
EventsRegister(h) ==
    /\ listens[h] = "asked"
    /\ listens' = [listens EXCEPT ![h] = IF h \in broken THEN "no" ELSE "yes"]
    /\ Sound
    /\ UNCHANGED <<tableVars, changes, worker, last, broken, queue, doing, libvirtVars, polled, ops>>

\* Mutant: the connection is looked at when there is something to do.
FindsBrokenServing(h) ==
    /\ worker[h] = "online"
    /\ h \in broken
    /\ queue[h] # <<>> /\ doing[h] = <<>>
    /\ UNCHANGED <<changes, last, queue, doing, libvirtVars, polled, ops>>

\* The queue is empty and the connection does not answer any more.
FindsBroken(h) ==
    /\ worker[h] = "online"
    /\ h \in broken
    /\ queue[h] = <<>> /\ doing[h] = <<>>
    /\ UNCHANGED <<changes, last, queue, doing, libvirtVars, polled, ops>>

\* The worker connects again; nobody asks for the events again.
WorkerReconnects(h) ==
    /\ FindsBroken(h)
    /\ broken' = broken \ {h}
    /\ WriteAll(feed, client, Coherent(h))
    /\ Sound /\ UNCHANGED <<worker, listens>>

\* update_domains_started_in_hyp_to_unknown
WorkerLeaves(h) ==
    /\ FindsBroken(h)
    /\ worker' = [worker EXCEPT ![h] = "dying"]
    /\ WriteAll(feed, client,
         [d \in Desktops |-> IF row[d].hyp = h THEN PutStatus(row[d], "Unknown") ELSE row[d]])
    /\ listens' = [listens EXCEPT ![h] = "no"]
    /\ Fault("lost") /\ UNCHANGED broken

\* clean_intermediate_status for one desktop
CleanedOne(r) ==
    IF r.status = "Deleting" THEN Put(r, "Failed", NoHyp)
    ELSE IF r.status = "Starting" THEN Put(r, "Stopped", NoHyp)
    ELSE IF r.status \in {"Stopping", "Shutting-down"} THEN PutStatus(r, "Started")
    ELSE r

\* move_actions_to_others_hypers, one action of the queue
OrchestratorMoves(h) ==
    /\ worker[h] = "dying" /\ queue[h] # <<>> /\ polled = {}
    /\ LET a == Head(queue[h])
           rest == [queue EXCEPT ![h] = Tail(@)]
       IN  IF a.type \in {"start_domain", "delete_disk"} /\ Online # {}
           THEN /\ \E g \in Online : queue' = [rest EXCEPT ![g] = Append(@, a)]
                /\ UNCHANGED tableVars
           ELSE /\ queue' = rest
                /\ WriteRow(a.d, CleanedOne(row[a.d]))
    /\ Sound /\ UNCHANGED <<changes, worker, last, broken, listens, doing, libvirtVars, polled, ops>>

OrchestratorForgets(h) ==
    /\ worker[h] = "dying" /\ queue[h] = <<>> /\ polled = {}
    /\ worker' = [worker EXCEPT ![h] = "none"]
    /\ Sound
    /\ UNCHANGED <<tableVars, changes, last, broken, listens, queue, doing, libvirtVars, polled, ops>>

\* Mutant: a server that failed is not started again.
ServersFromStopped == {d \in Servers : row[d].present /\ row[d].status = "Stopped"}

\* get_domains_flag_server_to_starting
ServersToStart ==
    {d \in Servers : row[d].present /\ row[d].status \in {"Stopped", "Failed"}}

\* A poll reads which servers do not run, and then writes Starting into each,
\* whatever its status is by then.
OrchestratorFindsServers ==
    /\ changes # "off"
    /\ polled = {} /\ ServersToStart # {}
    /\ polled' = ServersToStart
    /\ Sound
    /\ UNCHANGED <<tableVars, changes, worker, last, broken, listens, queue, doing,
                    libvirtVars, ops>>

OrchestratorStartsServer(d) ==
    /\ d \in polled
    /\ polled' = polled \ {d}
    /\ WriteRow(d, Put(row[d], "Starting", NoHyp))
    /\ Sound
    /\ UNCHANGED <<changes, worker, last, broken, listens, queue, doing, libvirtVars, ops>>

ServersNext ==
    OrchestratorFindsServers \/ \E d \in Desktops : OrchestratorStartsServer(d)

----------------------------------------------------------------------------
(* The thread of events.                                                   *)

\* Mutant: the name of the event is the status.
AfterEventVerbatim(r, h, event) ==
    IF event = "Started" THEN Put(r, "Started", h) ELSE Put(r, "Shutdown", NoHyp)

\* myDomainEventCallbackRethink: the hypervisor the event comes from is not
\* compared with the one the table has for the desktop.
AfterEvent(r, h, event) ==
    IF event = "Started" THEN Put(r, "Started", h)
    ELSE IF r.status # "Stopped" THEN Put(r, "Stopped", NoHyp)
    ELSE r

HandlesEvent(h) ==
    /\ events[h] # <<>>
    /\ events' = [events EXCEPT ![h] = Tail(@)]
    /\ LET e == Head(events[h]) IN WriteRow(e.d, AfterEvent(row[e.d], h, e.event))
    /\ Sound /\ UNCHANGED <<changes, workerVars, guests, erased, ops>>

----------------------------------------------------------------------------

UsersNext ==
    \/ \E u \in Users, d \in Desktops, op \in Ops : UserReads(u, d, op)
    \/ \E u \in Users : UserWrites(u) \/ UserGivesUp(u)
    \/ \E d \in Desktops : UserRemovesRow(d)
    \/ EngineRestart

LibvirtNext ==
    \E h \in Hyps :
        \/ \E d \in Desktops : GuestPowersOff(h, d)
        \/ ConnectionBreaks(h) \/ HypervisorReboots(h)

WorkerNext(h) ==
    \/ WorkerStarts(h) \/ WorkerFindsActive(h) \/ WorkerShutsDown(h) \/ WorkerStops(h) \/ WorkerDeletesDisk(h)
    \/ WorkerWrites(h) \/ WorkerConnects(h) \/ WorkerReconnects(h)
    \/ OrchestratorMoves(h) \/ OrchestratorForgets(h)

EventsNext(h) == EventsRegister(h) \/ HandlesEvent(h)

Next ==
    \/ UsersNext
    \/ ChangesThread
    \/ LibvirtNext
    \/ ServersNext
    \/ \E h \in Hyps : WorkerNext(h) \/ WorkerLeaves(h) \/ EventsNext(h)

Spec == Init /\ [][Next]_vars

----------------------------------------------------------------------------
(* Properties.                                                             *)

\* When everything has come to rest the table tells where a desktop runs.
TruthAtRest ==
    Quiet /\ Online = Hyps =>
        \A d \in Desktops : row[d].present =>
            /\ row[d].status = "Started" => Running(d) = {row[d].hyp}
            /\ row[d].status \in {"Stopped", "Failed"} => Running(d) = {}

\* clean_started_without_hyp: the status Started is not permitted without a
\* hypervisor in hyp_started.
StartedHasHyp ==
    \A d \in Desktops : row[d].present /\ row[d].status = "Started" => row[d].hyp # NoHyp

\* A row that left the table does not come back: what workers, events and
\* requests write late about a desktop is not written any more.
RowsDoNotReturn == [][\A d \in Desktops : row'[d].present => row[d].present]_vars

\* The thread of the changes never ends.
ChangesThreadRuns == changes # "dead"

\* What libvirt runs, whatever the table tells, goes by DesktopPlace: no
\* desktop runs twice, or without a disk, or loses its disk while it runs.
Places ==
    INSTANCE DesktopPlace WITH at <- [d \in Desktops |-> Running(d)]
KeepsPlaces == Places!Spec
=============================================================================
