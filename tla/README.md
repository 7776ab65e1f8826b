# A verification project for IsardVDI

IsardVDI runs virtual desktops with KVM.  Its *engine* is a Python process of
many threads that keeps no lock and no transaction: everything the threads, the
API and the webapp share is a row of RethinkDB, a dictionary of the process or a
queue, and everyone writes rows without looking at what they replace.  The
specifications in this directory model that part of the system, the part where
an order nobody tested decides whether a desktop runs once, twice or nowhere,
whose disk it has, and what is left of it when its user is deleted.

Paths below are relative to the repository; `engine/` stands for
`src/engine/engine/engine/`, `api/` for `src/api/src/api/libv2/` and `webapp/`
for `src/webapp/webapp/webapp/lib/`.

## 1. Inventory

### The parts, their state and their operations

| Part | State | Operations |
|---|---|---|
| Hypervisor orchestrator (`engine/models/hypervisor_orchestrator.py`) | queue of actions; the dictionaries `t_workers`, `t_disk_operations`, `t_long_operations` and `q.*` of the engine | poll the table, enable, disable, collect a death; `HypervisorChangesThread` turns changes of the table into actions |
| Threads of a hypervisor (`engine/services/threads/`) | `stop`, own queue, connection to libvirt or ssh | connect, test, serve actions, reconnect, stop, report the own death |
| Table `hypervisors` (`engine/services/db/hypervisors.py`) | `enabled`, `status`, `thread_status` | rows rewritten by the engine, the API and the webapp |
| Changes of domains (`engine/models/engine.py`, `DomainsChangesThread`) | none but the changefeed | a pair (old status, new status) becomes an action, a status or nothing |
| Actions (`engine/controllers/ui_actions.py`) | none | choose a hypervisor, put an action on the queue of its worker |
| Worker (`engine/services/threads/hyp_worker_thread.py`) | `dom_id`, connection | `createXML`, `shutdownFlags`, `destroy`, and the status that results |
| Events (`engine/controllers/events_recolector.py`) | one connection for each hypervisor | libvirt's Started and Stopped become statuses |
| Table `domains` (`engine/services/db/domains.py`) | `status`, `hyp_started` | written by all of the above, the API and the webapp |
| Cleaning (`engine/services/lib/functions.py`, `engine/models/hyp.py`) | none | what a start of the engine, a connection or a dead worker makes of the statuses |
| Creation, disks and templates (`ui_actions.py`, `engine/services/threads/threads.py`, `engine/services/lib/qcow.py`) | files, queues of the disk threads | create a disk, move it to a template, test the new desktop, insert the row of the template |
| GPU profiles and personal VLANs (`engine/models/pool_hypervisors.py`, `domains.py`, `domain_xml.py`) | `nvidia_uids` of a hypervisor, the VLAN in the row of a desktop | choose, reserve, start, release |
| Downloads (`engine/services/threads/download_thread.py`) | `download_threads`, curl in a hypervisor, files | download, abort, retry, delete |
| Creation and upgrade of the database (`engine/initdb/`) | all tables, and the version in `config` | Populate, Upgrade with a handler for each table and version; the API and the webapp wait |
| Desktop requests and quotas of the API (`api/`) | the feed of `WaitStatus` | create volatile and persistent desktops, start, stop, delete, each behind a quota |
| Users, groups and categories (`webapp/admin_api.py`, `api/api_users.py`) | their tables, with quotas and limits | add, limit, disable, and delete with everything that is theirs |
| Desktops and deployments of the webapp (`webapp/api.py`, `webapp/isardSocketio.py`) | the table `deployments` and the tag of a desktop | make desktops for one user or many, delete and recreate a deployment |
| Hardware and media (`webapp/`) | `create_dict` of a desktop, the tables `media` and `interfaces` | edit, delete a medium or an interface from every desktop that has it, make a desktop of a medium |
| Sharing (`webapp/api.py`, `static/js/snippets/alloweds.js`, `api/api_templates.py`, `api/src/api/views/decorators.py`) | the key `allowed` of templates, media and interfaces | a form that is read, touched and saved as a whole; new templates; the lists of both services; the interfaces of a new desktop |
| Socket.io feeds and pages (`webapp/isardSocketio.py`, `api/api_socketio_*.py`, `src/frontend/`) | a changefeed for each thread, what a page shows | tell changes, open a page, apply events |
| Administration of the webapp, evaluators, broom, viewers, VPN ... | rows of their own | see section 8 |

`PROJECT.json` lists every component of the repository, with those that are not
modelled and the reason.

### How they interact

```
 API, webapp --write--> [hypervisors] --changefeed--> HypervisorChangesThread
                             ^                               | queue
                             |                               v
        thread status, death |  <---launch, stop, forget-- Orchestrator
                             |                               |
 API, webapp --write--> [domains] --changefeed--> DomainsChangesThread
      ^                   ^   |                              | queue of a worker,
      | wait, pages       |   +--> feeds of API and webapp   | or of a disk thread
      +-------------------+                                  v
     Started, Stopped ... +-------------------------------- Worker ---> libvirt
                          +---- thread of events <-------------------- |
```

Four things tie the actors together, and none of them is atomic: the
changefeeds, the queues, the fields `thread_status` and `hyp_started`, and the
ids that rows of one table hold of another (user, tag, parents, interfaces,
media).

### What is hard, and what makes it correct

* **Orchestrator.**  An action carries the row as it was when it changed; a
  death is reported through a queue while a successor may be launched; a launch
  relies on a thread status in the table, which four actors write.  Correct
  means: one thread of a kind for each hypervisor, an Online hypervisor has a
  queue, a dead thread is collected and started again, only a
  disabled hypervisor leaves the table, and but for one path (section 4) when
  nothing of it runs; and no exception ends the thread of the orchestrator.
* **Threads.**  A request to stop races with the worker's own reset of `stop`,
  with the loss of the row and with actions on the queue.  Correct means: a
  thread that was told to stop stops, and what was on its queue is not
  forgotten.
* **Desktops.**  A status is checked and another one written later; the event
  of an earlier run is delivered during the next one; a connection breaks
  between `createXML` and the write of Started.  Correct means: at rest the
  table says where a desktop runs; a desktop never runs twice, without its disk
  or loses its disk while it runs; a row that was deleted does not come back; no
  status is a dead end; and DomainsChangesThread never ends.
* **What a desktop takes.**  A GPU uid is free in the row that is read, and taken
  in another step; whoever learns that the guest has gone gives it back, once or
  twice.  Correct means: no uid has two guests, none stays held by nobody.
* **Creation and downloads.**  The status passes from thread to thread, and a
  command may fail at each of them.  Correct means: what is Stopped or
  Downloaded has its file, one process writes a file, no work is lost, no file is
  based on itself.
* **The database.**  The version is written once, at the very end of an upgrade
  whose handlers are interrupted between any two writes.  Correct means: what a
  release was to change is there, or is done again at the next start.
* **Accounts, deployments, hardware.**  To delete a thing is to list what has
  it, and then to go through the list while users go on.  Correct means: nothing
  is left that names what is gone, and quotas and limits hold at the end.
* **Sharing.**  A form is filled from one row, saved over a later one, and drops the
  ids whose rows are gone; each list has its own copy of the selection.  Correct
  means: saving and deleting change nobody's access to what was not touched,
  and a desktop gets only what its user is allowed.
* **Feeds.**  A page is a list from one request and events from another thread.
  Correct means: when nothing is on its way, it shows what the table has.

The hazards, each with its line and the properties about it, are in
`PROJECT.json`.

## 2. Plan

| Order | Module | State |
|---|---|---|
| 1 | `HypervisorRow`, `Orchestrator`, `ThreadSupervisor` | done; every safety property and the refinement proved |
| 2 | `Desktop`, `DesktopPlace` | done; its safety properties and the refinement proved |
| 3 | `StartResources` | done; its safety properties proved for users who wait |
| | `Download`, `Creation` | done; model-checked |
| 4 | `Quotas`, `DesktopRequests` | done; quotas of desktops proved for one request at a time |
| 5 | `Initdb` | done; out of the prover's reach (section 7) |
| 6 | `Accounts`, `Deployments`, `Hardware` | done; their safety properties proved |
| 7 | `Feeds` | done; model-checked |
| 8 | `Alloweds` | done; its three properties proved |
| 9 | viewers, VPN, the administration of hypervisors in the webapp | later |
| 10 | proofs: `OneWriter` of `Download`; `CreatedByOne` and `RunningWithinQuota` of `DesktopRequests` | later |

The modules are not composed into one state machine.  Each takes from another
what a value of its state says.  `Desktop` needs of the orchestrator that a
worker appears, dies and is forgotten, and the three values of `worker[h]` say
that; `OnlineHasWorkerQueue` of `Orchestrator` is what lets `Desktop` put an
action on the queue of any Online hypervisor, and `ActionsLeaveTheQueue` is
`OrchestratorMoves`.  The modules of the API and the webapp have an engine of
one action, which does what a status asks for, or fails to, early or late; that
every status is answered is what `RequestsResolve` and `CreationResolves` say of
`Desktop`, `StartResources` and `Creation`.

## 3. The modules

The comments of a module name the code of every variable and action; these are
the correspondences that need more than a line.

### `HypervisorRow` - a row of the table `hypervisors`

Pure operators on a row: `update_hyp_status`, `update_hyp_thread_status` (split
into `ThreadStarted` and `ThreadNotStarted`), `initialize_db_status_hyps` and the
two tests a launch makes.  A thread status may be missing (`"none"`), as it is in
a row that was inserted while the engine runs.

### `Orchestrator` - who runs which thread

| In the model | In the code |
|---|---|
| `hyp` | the table `hypervisors` |
| `feed` | changes HypervisorChangesThread has yet to read, as the actions they become |
| `qActions`, `orch` | `q.orchestrator` and the thread that serves it |
| `reg` | `t_workers`, `t_disk_operations`, `t_long_operations` |
| `pc`, `stop`, `queue` | every thread, registered or not; its attribute `stop`; what is on its queue |

Actions: one for each operation of an administrator (`EnableHyper`,
`DisableHyper`, `RemoveHyper`, `InsertHyper`, `ApiEnableHyper`, `RegisterHyper`,
`EngineRestart`); `ChangesThread`; `OrchestratorPoll`, `OrchestratorEnable`,
`OrchestratorDisable`, `OrchestratorThreadDead`, each the whole handler of the
code with the exceptions that end it; and the life of a thread from
`WorkerConnects` or `DiskStarts` to `ThreadReportsDeath`.  A thread that raises
is `"crashed"`: it stays in the dictionaries and tells nobody.  Actions on a
queue are all the same to this module, so a queue is a set.

### `ThreadSupervisor` - what the orchestrator promises

One slot for each kind of thread of each hypervisor: a slot holds one thread at
most, is emptied only after its thread reported, and only an empty slot is
filled.  `Orchestrator!Supervises` is the refinement.

### `Desktop` - the power life cycle

| In the model | In the code |
|---|---|
| `row` | `status` and `hyp_started` of each domain |
| `feed`, `changes` | the changefeed and DomainsChangesThread |
| `worker`, `broken`, `queue`, `last` | the worker of a hypervisor, its connection, its queue and its local `dom_id` |
| `doing` | the status a worker has yet to write after the call of libvirt |
| `guests` | what libvirt really runs |
| `listens`, `events` | the thread of events and what it has not handled |
| `client` | the statuses a request has yet to write, after it read one |
| `polled` | servers (`create_dict.server`) that a poll of the orchestrator found stopped and has yet to start |
| `erased` | disks that are gone |

A request is two steps or more: it reads (`UserReads`) and writes later
(`UserWrites`), whatever the status is by then.  A worker is two steps: libvirt
is called, then the status is written, and anything may happen in between.
`Coherent` is `update_domain_coherence_in_db`, `Cleaned` the three cleanings of
a start of the engine, `CleanedOne` what the orchestrator does to an action it
cannot move.

### `DesktopPlace` - what the life cycle promises

A desktop runs on one hypervisor at most, never without its disk, and its disk is
erased only while it runs nowhere.  `Desktop!KeepsPlaces` is the refinement; the
mapping looks at what libvirt runs and not at what the table tells.

### `StartResources` - what a start takes

`held` is `nvidia_uids` in the rows of the hypervisors, `device` the mediated
devices that exist.  `engine` is DomainsChangesThread between the reading of free
uids and the reservation; `worker` and `listener` are the two that give a uid
back, each in the two writes of the code (the desktop that has it, then the
desktop it is reserved for).  A personal VLAN is chosen among those no started
desktop has, and is in the row of the desktop.

### `Download` - media and disks that are fetched

A DownloadThread is a number, in the order of their start; `current` is
`download_threads`, which keeps the last of each file.  `curl` goes on in the
hypervisor when its thread is told to stop, and `erasing` is the action
`delete_media` on the queue of a worker, which may be served after a retry.

### `Creation` - desktops, disks and templates

One action for each step by which a status goes from actor to actor.  `disk` maps
a file to what it is based on and whose work it holds, so that a lost disk, a
disk that is based on itself and a disk that two rows share are values of it.
The commands are modelled by what they do to `disk` and by which failures the
code notices.

### `Initdb` - creation and upgrade of the database

A state of the tables is, per table, the set of things a release needs of it;
`Plan(t, v)` is the sequence of writes of one handler of
`engine/initdb/upgrade.py`, each a step that may be the last of the process.
`api` and `web` are the two services that look for `config` meanwhile.

### `Quotas`, `DesktopRequests` - what the API is asked for

`Quotas` is `WebappQuotas` as operators: how use is counted, the rounded
percentage that is compared with 100, which of user, group and category refuses.
`DesktopRequests` has a record for each request (`req`), with the step it is at
and what it read; a wait is a clock of seconds and the set of changes its feed
has seen.

### `Accounts` - users, groups and categories

A request (`client`) holds the sequence of sets it goes through: what it listed
of each kind, deleted item by item.  A desktop is deleted by writing Stopping and
Deleting and waiting for the change (`saw`).  Limits and quotas are numbers of
users; other kinds of limits go the same way.  `NewRow` is what the webapp and the
API insert: rows of the API may have a limit from the start.

### `Deployments` - desktops of many users

`desktop` is a function of the pair (user, parsed name), which is how the code
makes an id; a request goes through users (`todo`), and for each the row of the
deployment, the test of the name, the quota and the insertion are steps.

### `Hardware` - what desktops are made of

A row has the interfaces and media of its `create_dict` and, apart, those of its
XML, which the engine makes of them later.  To delete a medium or an interface a
request lists the desktops that have it, with their lists (`todo`), and rewrites
each from that listing.

### `Alloweds` - what is shared with whom

`item` maps a template, medium or interface to its row: per kind of who (`Kinds`)
a set of ids, of which the empty one stands for everybody, or `No` for False.
`present` are the ids that still have a row.  A page (`client`) has a form open, or
makes a desktop; `Select2` is what the form shows of a row, `Merged` what the
webapp writes over the row it reads again.  Each list is an operator of its own
(`Templates` and `Media` of the API, `AllTemplates`, `SelectMedia`, `AllowedTable`
and `PublicTemplates` of the webapp, `HardwareAllowed`); the test of the
four kinds, of which every list has a copy, is the same in all of them and is one
operator, `Matches`.  `AllowedTemplate` is the decorator of the API that lets a
desktop be made.

### `Feeds` - what pages show

A thread reads its changefeed (`feed`) and emits into the inboxes of pages; a
page opens with a list (`answer`) that is on its way while events are.  `missed`
are the ids of which something happened while the feed was closed.

### `MC...` modules

Model values and scenarios for TLC.  A module with scenarios has one record for
each in a table, instantiates the specification with it and chooses one in the
initial state; a property says in which scenarios it holds, or the run chooses them
(`Chosen` of `MCDesktopRuns`).  `MCRequests` and `MCWebapp` extend `Accounts` and
`Deployments`, whose properties are then checked by their own names, and
instantiate the others with variables of their own.
Definitions marked *Mutant* next to a definition change it the way a plausible
bug would; `PROJECT.json` names for every property the mutant it catches.

### Proof modules

`OrchestratorProofs`, `DesktopProofs`, `StartProofs` (about `StartResources`),
`RequestProofs` (about `Quotas` and `DesktopRequests`), `AccountProofs`,
`DeploymentProofs`, `HardwareProofs`, `AllowedProofs`: section 6.

## 4. The runs

### Runs that pass

A run has scenarios where the constants of one instance would not do: each is an
instance of its own, and the run covers them all.  The names are those in the
table at the head of the `MC` module.

| Run | Scenarios | What it shows |
|---|---|---|
| `orch_single` | - | Unless a hypervisor is enabled while the engine runs there is never a second thread of a kind, an Online hypervisor without a queue, or an enabled hypervisor whose row leaves the table; collecting a death removes a row only when nothing of it runs, which `HypervisorChangesThread` does not look at; and the orchestrator implements `ThreadSupervisor`. |
| `orch_enabling` | - | Enabled at run time too, where duplicate workers do appear: a status Started in the table is the status of a thread, and the death of a registered thread is on the queue, also with stale actions. |
| `orchestrator` | `recovers`, `stops` | An enabled hypervisor comes back, actions survive the worker they were queued for, what is stopped stops, a removed hypervisor leaves, deaths are collected, and none of it ends the orchestrator. |
| `desk_patient` | `patient` | Two desktops, users who wait, guests that end, starts that fail, connections that break, hypervisors that reboot: the table tells the truth at rest, and what libvirt runs goes by `DesktopPlace`. |
| `desktop` | `types`, `faulty`, `lost`, `resolves`, `stopping`, `servers` | Whatever happens no late write brings back a row that was deleted; all actors come to rest; Starting, Stopping and the statuses of deletion are left; a server runs again where the table says, and at one place. |
| `resources` | `waits`, `gpu`, `fails`, `forced`; `settles`, `aborts`, `scans` | A guest with a GPU holds its uid, a uid is held for nobody else, and a reservation takes a free one, also when workers fail (`fails`); VLANs go by user; what is Downloaded has its file, which one curl wrote; a row that records a path leaves after the file there; and what was asked for ends. |
| `initdb` | `upgrades`, `fresh`, `denied`, `crashes`, `refused`, `again` | From each of the 25 versions and from nothing every table gets what its release needs, also after one interruption or refused write of the kinds that are survived, and the engine, the API and the webapp come up. |
| `requests` | `alone`, `deletes`, `patient`, `pair`, `all`; `limits`, `toggle`, `rows`, `whole`; `users`, `late`, `ends`, `meet`; `percent` | Quotas hold, guests have rows, two requests do not claim one desktop; users are added within limits, deletions leave nothing behind, disabled users have what they had; every request is answered; a quota refuses exactly at its limit. |
| `creation` | `alone`, `works`, `ends`, `chains`, `races`, `two` | Threads go on whatever command fails, what is Stopped has its disk, templates are whole, no work is lost, chains of files end, and what is begun comes to rest. |
| `webapp` | `nets`, `xml`, `media`, `disks`, `two`; `tags`, `quota`, `names`; `user`, `admins`, `system`, `hides`, `deployment`, `shows`, `counts`, `secrets`, `opens`; `access`, `lists`, `hardware` | No desktop is left with an interface or a medium that is gone, a disk is in one desktop, a tag has its deployment, quotas hold; pages show the tables when nothing is on its way; a saved form keeps the access nobody changed, every list offers what it did until somebody asks for another (`OffersKeep`), desktops get only interfaces that are allowed. |

Where a property holds only in some scenarios, the others are there for what they
do: `types`, `faulty`, `lost`, `scans`, `forced`, `all`, `meet`, `two` and `opens` let
everything happen at once and check that the state stays well typed.

### Runs that show a disagreement

| Run | What TLC finds |
|---|---|
| `orch_only_one_online` | Moving the actions of the only Online hypervisor evaluates `len(balancer.hyps == 1)` (`pool_hypervisors.py:53`): TypeError, and the orchestrator ends. The log line of that branch says it is meant to be handled. |
| `desk_delete_twice` | Two requests to delete a desktop: the second removes the row, `deleting_disks_from_domain` subscripts `None`, and DomainsChangesThread, which must always run, ends. |

### Where the passing properties end

The passing runs state their limits in their constants.  Outside of them these
counterexamples were found.

*Orchestrator.*

* **Enabling at run time** (`orch_single` with `"enable"`).  The action holds a
  stale row, the poll has launched the threads meanwhile, and `enable_hyper`
  launches a second worker over the first: `SingleThread` fails.  Hence the
  hypothesis of the theorems.
* **The orchestrator ends** (`orch_single` with `OrchestratorSurvives`).  A hypervisor is
  disabled and removed: the action is handled when the row is gone, and the
  status Offline cannot be written.  A hypervisor is removed twice: the second change
  deletes the row over the report of a death.  Or a worker reconnects while another
  thread of its hypervisor ends, and the row is Online when the death is collected.
  Hence `Peaceful`.
* **Disk threads** (`recovers` with `CapsBoth` and the fault `"ssh"`).  Disk threads are
  started only when both are Stopped (`hypervisor_orchestrator.py:368`): when
  one fails its test of ssh and the other does not, the hypervisor never comes
  Online: `EnabledComesOnline` fails.

* **A row is removed over its threads** (`orch_single` with `RemovalsAreDue` but for
  its last disjunct).  A hypervisor that is Online is disabled, and is
  Offline as soon as that is handled; then it is removed: `HypervisorChangesThread`
  (`hypervisor_orchestrator.py:524-530`) deletes the row of one that was Error or
  Offline and does not look at its threads, which are still stopping; each then ends
  with an exception when it needs the row.  One that was still starting when it was
  disabled is never told to stop, and if it got through before, it serves on without a row.  The
  property holds of this path only that the hypervisor is a disabled one.

*Desktop.*

* **Restart of the engine** (`desk_patient` with `"restart"`).  Between
  `createXML` and the write of Started, a restart turns Starting into Stopped;
  the desktop is started again elsewhere and runs twice: `KeepsPlaces` fails.
* **Impatient users** (`desk_patient` without waiting, four operations).  The Stopped event
  of an earlier run is handled during the next; or a start and a deletion both
  read Stopped: `KeepsPlaces` fails.
* **Early or unheard endings** (`desk_patient` with `"early"` or `"unheard"`).
  A guest that ends before its worker wrote Started is written Started
  afterwards; after a reconnection nobody registers for events again, so that
  an ending goes unnoticed: `TruthAtRest` fails.  So it does with `"describe"`
  and `"destroy"`, where the code writes Failed over a desktop that runs.
* **A guest that is active already.**  After a failed `XMLDesc` the desktop is
  Failed and runs.  Starting it again on its hypervisor reaches a branch that
  writes `dom_id`, which a worker assigns only when it starts a desktop
  (`hyp_worker_thread.py:329`): a fresh worker ends with UnboundLocalError and
  its hypervisor stays Online (`WorkerFindsActive`, worker `"silent"`).
* **Servers** (`servers` with `"describe"`, `"lost"`, or an operation
  `"delete"`).  The poll starts a Failed server that runs a second time; it
  writes Starting over Unknown, which nothing leaves; it starts a server whose
  disk is being erased.
* **Workers that are gone** (`"net"`, `"lost"`, three faults).  Without any worker
  the old status is written again and forgets `hyp_started`
  (`engine.py:452`): `StartedHasHyp` fails.  With one that was forgotten,
  `stop_domain` raises KeyError (`ui_actions.py:311`): `ChangesThreadRuns` fails.
* **Deleting a template's dependants** (`desk_patient` with `"mdelete"`).
  `domains_mdelete` compares a cursor with `None` (`admin_api.py:1331`), gives up
  waiting and deletes: a disk is erased under its guest.
* **A guest that ends by itself** (`stopping` with `"power_off"`).  Stopping
  is written over Stopped, a pair DomainsChangesThread does not know:
  `StoppingResolves` fails.  The broom does not help (section 8).
* **Deleting a desktop in Shutting-down** (`resolves` with `"shutdown"`).
  The engine ignores the pair: `DeletingResolves` fails.
* **Statuses nobody cleans.**  A status written while no changefeed is open is
  never delivered, and DeletingDomainDisk is not among the statuses a start of
  the engine cleans: with `"restart"` the desktop stays in it.

*What a start takes, and downloads.*

* **No hypervisor Online.**  The start of a desktop with a GPU compares with a
  hypervisor that is not there (`pool_hypervisors.py:213`) and ends
  DomainsChangesThread, although `start_domain_from_xml` has a message for it.
* **Personal VLANs** (`waits`).  Only desktops that are Started count as those that use
  a VLAN (`domains.py:1301`): that of a desktop in Shutting-down goes to another user
  (with `"shutdown"`, `UsersApart` fails).  A desktop that is up without a VLAN lends
  none, and the one taken instead is a second one of its user (with `Personal` of two
  of three desktops of one user, `UserTogether` fails).
* **Abort** of a download: a deletion written over DownloadAborting reaches
  `delete_media` with no row and ends DownloadChangesThread
  (`ChangesAreFollowed`), and the row may go before its file.
* **A whole download is told as failed**: at the end of the output of curl `poll()`
  answers None when ssh has not ended (`download_thread.py:271`), which is not 0
  (`:301`).  Its path is never recorded, and a deletion from DownloadFailed removes
  the row and leaves the full file behind: `RemovesWithoutFile` speaks of media
  whose path is recorded.
* **Restart**, **two directories** with an abort that fails, or **two requests
  at once**: a late `delete_media` erases the file of a retry, or two curls write
  one file (`OneWriter`).  DownloadAborting and a deletion that failed are dead
  ends.

*Creation.*

* **Deleting many** while they are Creating or CreatingDisk: threads find no row
  and die.  A template that is deleted while a desktop derives from it ends
  DomainsChangesThread.
* **Backing chains**: `update_disk_backing_chain` writes a whole row that was
  read before; a template made again under its name while that is late is based
  on itself.
* **One shared second disk**: the deletion of a virtio desktop erases the file
  for all, and the next deletion ends the worker.
* **Templates with an id that is taken** stay in TemplateDiskCreated; **templates
  of two disks** never finish (`ui_actions.py:578`); two disk threads with one
  template id overwrite each other.
* **Failed commands**: any command without error counts as success
  (`threads.py:214`), a failed `rm` is told as DiskDeleted, `virt-builder` tolerates
  one failure.

*Database.*

* One interruption up to version 7, after `HypervisorsUpgraded`, or at version 0
  within `config`, is not survived; the upgrade to 21, interrupted, never ends
  (`upgrade.py:547` names an unbound exception); `deployments()` deletes before it
  inserts (`upgrade.py:837`).
* A desktop whose `forced_hyp` is the text "false", which release 20 is there for, ends
  as `["false"]`: `upgrade.py:780` tests the row as it was read before `:777` put the
  text into a list, so that the desktop is forced to a hypervisor that does not exist.
  `ForcedAreLists` holds with that exception, for the desktops of `Texts`; only an
  upgrade that is interrupted in between puts it right.
* A refused write loses indexes; a crash in a fresh install leaves empty `users`
  or `config`, with which the engine never starts.
* The webapp finds `config` before its row (`webapp/load_config.py:98`), the API no
  secrets (`api/load_config.py:62`) when they start during an upgrade.
* Without its default administrator release 13 raises for ever; from version 1 the
  paths of media are those of groups (`upgrade.py:571`).

*Quotas and requests for desktops.*

* **A desktop that is made again** while the engine creates it: it is deleted while
  Creating, and one is made under its name and started; the first creation then writes
  Stopped over Started, and a deletion removes the row over the guest (`GuestHasRow`
  fails).  Hence `Patient`.
* A slow engine: what is still Starting is not counted, and **two requests** at
  once exceed any quota; a volatile desktop that Failed is replaced without a
  look at the quota (`api_desktops_nonpersistent.py:112`), and two of one template
  survive `DeleteOthers` (`:102`).
* Refusals of a group are answered 500 (`QuotaGroupNewConcurrentExceeded` is not
  defined), and so are waits that time out (`ds.py:133`).
* A desktop from scratch checks no quota and ignores the outcome of its insertion;
  without an XML the view passes False, not None, so that `virt_install` is never
  used (`api_desktops_persistent.py:199`); and a boot order is refused just when it
  is one of the allowed strings (`views/DesktopsPersistentView.py:700`);
  the memory of groups and categories lacks the factor 100; a user's templates
  count only if they are `user_template`; a changefeed that opens after the
  insertion may miss Started; at a limit of 200 rounding refuses one too early.

*Accounts.*

* **Two requests at once** exceed limits, break `LimitsNest` and leave a user
  enabled with disabled desktops; a desktop made during the deletion of its user
  stays without one.  Hence `OneClient` and `OneByOne`.
* **Refusals**: a group's deletion that was refused answers "deleted" when it is
  repeated; a category's rows are gone before it is refused
  (`isardSocketio.py:1255`); `users_add` tells that all were created though some were
  skipped (`admin_api.py:597`, `isardSocketio.py:1349`); `except UserExists` never
  matches `UserError`.
* **Limits**: of a category, lowered without propagating, leaves groups above it
  (`admin_api.py:949`); those checked are of the group of who adds (hence
  `OneManager`); `Registrations` check none.
* The API's deletion of groups and categories leaves desktops; its creation of a
  user stores the password as it came; a toggle writes Disabled over Started.

*Deployments.*

* **Two requests at once** leave desktops without a row and exceed quotas: hence
  `Apart`.
* Deletion goes by statuses read once (`isardSocketio.py:1882`); all are told to be
  created (`webapp/api.py:1770`, `isardSocketio.py:1697`); an addition that is refused
  leaves its row; a recreation without row or quota raises and tells nobody; an
  edition may rename, and writes over any status.

*Hardware.*

* `media_delete` skips desktops that are Started (`webapp/api.py:311`), whose next
  start fails: hence `NothingStarts` in the theorem.  A failed update leaves the
  old XML with an interface that is gone; desktops in other statuses keep it too.
* **Two requests** with one medium make two desktops of one disk; a restart
  between insertion and removal leaves the medium and the desktop; a list that is
  late overwrites an edition.  `media_delete` writes Stopped over any status.
* `domain_bulkedit` is commented as not used.

*Sharing.*

* **A list that names nobody any more.**  The form drops ids whose rows are gone.
  When all of a kind are, saving it untouched writes an empty list, which shares
  the item with everybody: `SavesKeepAccess` without `NamesNobody` fails in `access`.
* **Owners of media.**  `ownsidortag` looks for the item among the domains, so the
  owner of a medium, unless an administrator or its manager, is shown an empty form
  and saves that: `SavesKeepAccess` fails without `OwnsIdOrTag`.
* **Two forms** of one item, or a form and a template that is made again under its
  id: the last one saved wins.  Hence `OneClient` and `NoneMadeAnew`.
* **Templates of the API**: a kind that is not given becomes an empty list, which is
  everybody; and their rows have no `enabled`, so that no list has them before it is
  written.
* **Several interfaces.**  `limit_user_hardware_allowed`, which is to limit the
  resources to the ones allowed, looks at the first interface only:
  `HardwareIsLimited` fails with a template of two.  Hence `OneNet`.

*Feeds.*

* What changes while a feed is closed is told to nobody, and secrets deleted then
  stay in memory; a page that opens while things change keeps duplicates and
  stale lines.
* A desktop that becomes visible is told with an "update" that the frontend drops;
  one inserted in a status the API does not tell appears only after a reload;
  `desktops.js` raises when it becomes visible while Started; a medium that leaves
  the index is told as removed.

## 5. Bounds and fairness

| Constant | Values | Why they are enough |
|---|---|---|
| `Hyps` | 1 or 2 | One hypervisor shows everything about its own threads; two are needed to move actions and to run a desktop twice. |
| `Slots` | 1 or 2 | Numbers of the threads of one kind. Two where a second thread may exist or where a run says that none does. `stops` and `recovers` have one: without an API that enables a hypervisor twice a second is never launched. |
| `MaxAdmin`, `MaxFaults`, `MaxCrashes`, `MaxFails`, `MaxBreaks` | 0 to 3 | The counterexamples above need three or fewer of both together; the passing runs allow up to four. |
| `Users`, `Clients`, `Requests` | 1 to 3 | Requests at once. Every race above is between two, and a third finds what one of them left. |
| `MaxOps` | 0 to 8 | A desktop is created stopped; start, stop, start again and delete are four. `waits` and `gpu` have eight, because three desktops start and stop. |
| `Desktops`, `Domains`, `Media`, `Nets` | 1 to 3 | Two show that what is done to one does not disturb the other, a third that a chain (a template, a desktop of it, a template of that) is followed. |
| uids, VLANs | 1 or 2 | One fewer than the desktops that want one. |
| `MaxLimit` | 199 | Percentages are rounded; from 200 on a quota refuses one too early. |
| `Numbers` | as many as a download may be started | so that no start is refused for want of a number |

Queues and changefeeds have no bound of their own: the operations and faults bound
what is written.  No run uses symmetry, since most check liveness.

*Fairness.*  Every thread of the engine is scheduled again and again: weak
fairness of the changefeed threads, of the orchestrator, and of each thread of a
hypervisor; of curl, which ends; of `start.py`, the API and the webapp, which
docker starts again.  A request of a user goes on or gives up (`WaitStatus` and
the waits of the webapp have a timeout).  `WorkerReconnects` has strong fairness:
a worker looks at its connection when its queue was empty for 2 seconds
(`timeout_queues`), and the only thing that comes again and again by itself, the
start of a server that cannot start, comes with the polls, 10 seconds apart.
Users, administrators, guests and faults are never fair, and actions need never
arrive.  `ThreadLeavesLoop` has weak fairness of its own, because a thread tests
`stop` after every action and takes its queue in order: no stream of actions
keeps it in its loop.

`CHECK_DEADLOCK FALSE` stands in every cfg because a model whose operations and
faults are bounded stops when the bounds are used up; `ComesToRest` says for
desktops that what it stops in is rest.

## 6. What is proved

Every theorem holds for all values of the constants that satisfy the named
assumption of the module (`ConstantsAssumption` or `Assumption`, evaluated by TLC
in every run of it) and the hypotheses given here.  Each follows the same way: an
inductive invariant, a lemma for each action or kind of action, and a short
temporal step.

### `Orchestrator`

| Theorem | Hypothesis | States |
|---|---|---|
| `OrchestratorProofs!TypeCorrect` | - | `[]TypeOK` |
| `LaunchInvariant` | `NoEnabling` | `[]LaunchInv` |
| `NoDuplicateThreads` | `NoEnabling` | `[]SingleThread` |
| `OnlineHypervisorHasQueue` | `NoEnabling` | `[]OnlineHasWorkerQueue` |
| `ImplementsSupervisor` | `NoEnabling` | `Supervises` |
| `StartedThreads` | - | `[]StartedIsAThread` |
| `DeathsAreReported` | - | `[]RegisteredDeathIsReported` |
| `HypervisorsLeaveWhenDue` | `NoEnabling` | `RemovalsAreDue` |
| `OrchestratorGoesOn` | `Peaceful` | `[]OrchestratorSurvives` |

`NoEnabling`: no hypervisor is enabled in the running engine,
`AdminOps \cap {"enable", "insert_enabled"} = {}`.  The API's own way to enable
one, which restarts the engine, is allowed.

`SingleThread` is not inductive: the orchestrator launches a thread because the
*table* says Stopped.  `LaunchInv` adds what makes that true:

1. `StoppedIsForgotten` - when an enabled hypervisor's thread status is Stopped
   or missing, the dictionaries hold no thread of that kind;
2. `RunningIsRegistered` and `OneRegistered` - what runs is in the dictionaries,
   which hold one of a kind;
3. `ReportsAreTrue` - a report of death on the queue is the only one of its
   slot, and the thread in the dictionaries is the one that sent it, so that
   collecting it cannot remove a successor;
4. `StartedIsRegistered` - a Started worker, or an Online hypervisor, has a
   worker that got through its start;
5. `NothingEnables` - no action on any queue carries a stale row to launch from.

Each action has a lemma; actions that write no row share `QuietStep`.
`SingleThread` follows from 2, `OnlineHasWorkerQueue` from 4, and
`RemovalsAreDue`, a property of steps, from 2 with the tests that
`OrchestratorThreadDead` makes before it deletes the row, and from
`DeletingIsDisabled` and `RemovalsOfDisabled`: only a disabled hypervisor is in
Deleting or in a change `delete` that waits, since whatever else writes a row
neither enables it nor asks for its removal (`Tame`).

The refinement rests on the same invariant.  A slot of `ThreadSupervisor` is what
the dictionaries hold of a hypervisor and a kind (`Slot`), so a thread that runs
fills its slot (2).  The poll launches into empty slots only (1).  Collecting a
death empties a slot whose thread reported (3).  A start of the engine is a new
engine of `ThreadSupervisor`; a step of a thread loses it, reports it, or is a
stutter.

`StartedIsAThread` and `RegisteredDeathIsReported` need none of it: they are
inductive with `TypeOK`, also where two threads of a kind run, because a status
Started is written only by a thread that got through, every end of a thread takes
it back, and a death is put on the queue in the step that makes it.

`OrchestratorSurvives` says that none of the exceptions that end the
orchestrator's thread is raised: for a key of `thread_status` that is missing, a
row that left the table, an entry of the dictionaries that was popped already, or
the `len()` of a boolean.  `Peaceful` is `NoEnabling`, no `"reconnect"` in `Faults`,
and `MaxAdmin` at most 1 when a hypervisor may be removed; without either, the
exceptions are raised (section 4).
The invariant adds to `LaunchInv`, in `SurvivalParts`:

1. `RegisteredIsKnown` - the dictionaries hold only threads of rows that are in the
   table, of kinds that the row has and that are not Stopped there;
2. `EnabledIsWhole` - an enabled hypervisor has its row and all keys of it;
3. `DeletedIsIdle`, `ActionsHaveRows` - a change `delete` waits only for a row
   without threads, and the row an action `disable_hyper` carries has all
   keys, and Online only if the row stays;
4. `Untouched` - before the first operation nothing of the kind waits;
5. `OnlineIsStarted`, `ReportIsStopping` - an Online row has all its threads
   Started, so a row with a report of death on the queue is there and not
   Online, which is what collecting the death relies on.

All steps but those of administrators keep 1 to 4 in the same way: threads are
forgotten, or launched for enabled hypervisors, and changes are delivered
(`RegistryKeeps`).  What keeps 5 is that every report follows the write of
Stopping (`LaunchInv`, 3) and only a Started thread writes Online.

### `Desktop`

| Theorem | Hypothesis | States |
|---|---|---|
| `DesktopProofs!TypeCorrect` | - | `[]TypeOK` |
| `StartedNamesHyp` | `"lost" \notin Faults` | `[]StartedHasHyp` |
| `NoRowReturns` | - | `RowsDoNotReturn` |
| `TableTellsTheTruth` | `Waiting` | `[]TruthAtRest` |
| `DesktopsKeepPlaces` | `Waiting` | `KeepsPlaces` |
| `ChangesThreadGoesOn` | `Waiting` | `[]ChangesThreadRuns` |

The code writes Started in five places.  The outcome of a worker, the coherence of
a connection and an event of libvirt name the hypervisor.  Taking a change back
when no worker is left writes the old status and clears the hypervisor.
`StartedHasHyp` is kept because that old status is never Started, and `HypInv` says
why: while there is no worker (`SilentWithoutWorkers`), no row is Started, no
change that waits in a changefeed began at Started, and no outcome and no event is
left that could write it.  A first worker ends the silence, and without `"lost"`
only a restart of the engine takes the last worker away; a restart closes the
changefeeds and leaves no row Started (`CleanedNotStarted`).  `NamesHyps` is the
rest: an outcome with the status Started names its hypervisor, and no request of a
user writes Started.  The fifth writer, `CleanedOne`, runs only for a worker that
left.  Section 4 has the counterexample that shows why `"lost"` is excluded.

`NoRowReturns` is about every writer at once: all of them update, and
RethinkDB's update of a row that is gone does nothing (`Put` keeps `present`).

`Waiting` is the constants of `desk_patient`, without its bounds: users wait for the
engine between two operations, the engine does not restart, no hypervisor is lost for
good, there are no servers, and of the other faults all but those of section 4 happen.
That includes guests that end while an action for them is queued or being done,
connections that break at any point, and hypervisors that reboot under their guests.

Neither property is inductive, because a status a user writes reaches the guest by a
changefeed, a queue, the worker and its outcome, in five steps of three threads, and
an end of the guest comes back by a queue of its own.  `PlaceInv` says what is true in
between.

1. `OneIsBusy` - everything is at rest, or one desktop is busy and all others are
   `Idle`: the engine ignores every change of them that waits (`Ignored`), and the
   table tells the truth about them (`Truth`).
2. `Stage` - the busy one is `Asked` for by a user who read a status and is to write
   one, `Told` to the engine by a change, `Queued` as an action, or a worker is
   `Working`, with an outcome that is `Due`.  Each stage says what the next relies
   on: what is asked to start, or be deleted, is `Gone`, nowhere and without news on
   their way; what is to be written Started runs, or its hypervisor rebooted and the
   worker has not found out.
3. `EndsAreLast`, `StartsAreTrue` - an end that waits to be told is the last news of
   its desktop, and is not told twice, so that no desktop that runs again is written
   Stopped; a start is followed by an end unless the desktop runs.
4. `WorkersListen`, `RowsNameWorkers`, `RunOnce` - a worker that is gone left no guests,
   queue or news; a hypervisor that a row names has its worker.

`Truth` of a row lets a guest that has ended be Started as long as somebody will find
out: its end waits to be told, or the connection is broken, and then coherence reads
what runs.  At rest neither is so, which is `TruthAtRest`.  Steps that nobody asks for
(guests, hypervisors, connections, events) keep the stage; the others lead from one
to the next, or back to rest.  Steps of `DesktopPlace` are then the
starts and ends of guests and the erasing of disks: a start is an action of a desktop
that is `Gone`, so runs nowhere else and has its disk; a disk is erased for one that is
`BeingDeleted`.  `ChangesThreadRuns` is part of `WorkersListen`: the engine raises for a
change that it does not ignore of a row that is gone, or for a worker that is gone;
the busy desktop has its row, and a hypervisor its row names has its worker.

### `StartResources`

| Theorem | Hypothesis | States |
|---|---|---|
| `StartProofs!TypeCorrect` | - | `[]TypeOK` |
| `UidsGoWithGuests` | `Patient` | `[]UidsAreHeld` |
| `UidsAreNotTaken` | `Patient` | `NoTakeover` |
| `UsersStayApart` | `Patient`, no `"shutdown"` | `[]UsersApart` |
| `VlansFollowUsers` | `Patient`, no `"shutdown"`, `EnoughVlans` | `[]VlansGoByUser` |

`Patient`: users wait until what they asked for is done, nothing fails, and no id of
a desktop is a part of that of another one (`Inside`).  Guests end by themselves at
any time, and the worker and the thread of events go on in any order.
`EnoughVlans`: all desktops want a VLAN, and there is one for each user.  Section 4
has what happens otherwise.

Neither property of uids is inductive: the engine chooses a uid in one step and
reserves it in another, a guest has its uid before the hypervisor's row says Started,
and two threads give it back, each in two writes.  `OneAtATime` says what is true in
between.  Either all desktops are `Settled`, `Up` with a guest that holds its uid or
`Down` with neither, and nothing waits anywhere; or one desktop is in flight and all
others are settled.  What the one in flight is at is one of the phases from
`StartAsked` over `Choosing`, `Reserving`, `StartQueued`, `Creating` and `Rising` to
`Failing`, `StopQueued` and `Winding`, each of which gives its row, its guest, the
uids it holds and what is left in queues, threads and changefeeds.  Every action
belongs to one phase and leads to the next (`Advances`); it touches the row, the guest
and the uids of that desktop only (`Concerns`), so that the others stay settled.
`Winding` is the one phase with two threads: the worker and the thread of events
give back what only this desktop can hold, so the second of them finds nothing of
another one.

For VLANs, `Apart` and `Together` say of rows what the properties say of guests.
They are kept because a VLAN is chosen when nobody else is starting, and what is not
active then belongs to nobody who is up; that one is free when there is one for each
user is the pigeonhole principle (`SomeVlanIsFree`).

### `Quotas` and `DesktopRequests`

| Theorem | Hypothesis | States |
|---|---|---|
| `QuotasAreExact` | - | a quota is refused when less than half a percent of it is left; below 200, when all of it is used |
| `RequestsTyped` | - | `[]TypeOK` |
| `OneVolatileDesktop` | `OneAtATime` | `[]OneVolatile` |
| `DesktopsKeepToQuota` | `OneAtATime`, `NoScratch` | `[]DesktopsWithinQuota` |

`OneAtATime`: requests are served one at a time.  `NoScratch`: nobody asks for a desktop
from scratch, which checks no quota.  The engine may be slow and fail, waits end at
any time, and desktops are asked for as often as one likes.

`QuotasAreExact` is the arithmetic of `WebappQuotas`: the percentage is rounded, half
to even, and compared with 100.  In `RequestInv`, `OwnGoes` says that a request which
is about to make a volatile desktop has all that the user has of the template on its
list, or waits for it to go; the list is empty when it inserts (`ToGo`).  `HasRoom`
says that once the quota was checked there is less than the quota until the insertion,
not counting what the request replaces: whatever the engine does meanwhile takes
desktops away and adds none.  The quota is read with `Full`, so that `DesktopsKeepToQuota`
uses that rounding never grants one too many (`CreateBelow`, `StartBelow`).

### `Accounts`

| Theorem | Hypothesis | States |
|---|---|---|
| `AccountTypes` | - | `[]Types` |
| `AddedWithinLimits` | `Users` finite, `OneClient`, `OneManager`, `Registrations \cap Ops = {}` | `UsersWithinLimits` |
| `DomainsKeepUsers` | `OneByOne` | `[]DomainsHaveUsers` |
| `UsersAndDesktopsAgree` | `OneByOne`, `OneClient` | `[]UsersAgree` |
| `LimitsStayNested` | `OneClient`, `"category_limit" \notin Ops` | `[]LimitsNest` |
| `RowsKeepOwners` | `OneClient` | `[]RowsHaveOwners` |
| `TemplatesStay` | `OneClient`, `Undisturbed` | `[]ParentsExist` |
| `UsersGoWithAll` | `OneClient`, `Undisturbed`, `DesktopsGoToo` | `[]DomainsHaveUsers` |
| `AccountsStay` | the same and `"category_limit" \notin Ops` | `[]AccountsAgree` |

`OneClient`: one request at a time.  `OneManager`: who adds users in the webapp is
of one group of managers (the code checks the limits of that group, not of the
groups it adds to).  `OneByOne`: no group or category is deleted, and nobody makes
a desktop or a template while something is.  `Undisturbed`: the engine is not late
and has no work when a deletion begins, and users leave desktops alone until it ends.
`DesktopsGoToo`: the API's deletions of groups and categories are left out, which
delete the users and leave their desktops.

* `AddedWithinLimits` is a property of steps.  What makes it true is
  `AdditionsChecked`: a request that checked still fits, `Checked(todo)`, in the
  limits as they are, because nobody else adds or lowers a limit in between.
* `DomainsKeepUsers` allows any number of requests, and an engine that answers
  late.  `ListsHold` is its invariant: a request that deletes a user still has, in
  one of the sets it goes through, every desktop and template the user has
  (`ListsAll`); it stays on its list until the row is gone (`SawGone`); and what it
  lists besides are no users (`OnlyDomains`).  The row of the user is deleted last,
  when the lists are empty.
* `UsersAndDesktopsAgree` adds `TogglesAgree`: a desktop is Disabled when its user
  is, or a request is between the two writes of a toggle; and who is about to be
  enabled has none.
* `LimitsStayNested`.  `NestInv`: the limit of a category is written before those of
  its groups, and a request between the two has the groups still to do
  (`Propagated`); one that is to write the limit of a group compared it with that of
  the category, which nobody else changes (`Fitting`).  A category that is added may
  come with a limit in the API; that it has no groups then is of `RowsInv`.
* `RowsKeepOwners`.  A user without a group is of a deletion that has the user on its
  list: `RowsInv`.  What is listed is closed downward, with every user of a group and
  every group of a category (`RowsClosed`), and rows go before desktops
  (`RowsFirst`), which are what a deletion gives up at, so that none is left then.  A
  group without a category is that of a category the webapp adds next.
* `TemplatesStay`.  The code waits for one desktop at a time, and gives up when it does
  not come.  `ParentsInv`: everything that is based on what is gone or listed is
  listed too (`ListsClosed`), is still there until its turn (`ListStands`), has one
  turn (`ListsOnce`), and what the request waits for comes (`WaitHolds`), so that no
  wait ends with the rest of the list left.

* `UsersGoWithAll` is the same question for groups and categories, whose users' rows
  go before the desktops.  `UsersInv`: a deletion lists the users it covers and no
  others (`ListsUsers`), and all that they have (`ListsTheirs`); who has something
  and is gone is covered by a deletion that goes on (`HaveUsersOrGo`), which by
  `ParentsInv` ends only when its list is empty.

The run `requests` checks `AccountsAgree` and `UsersAgree` in `limits`, `toggle`,
`rows` and `whole`, with an engine that is not late; that users go with their desktops,
and toggles agree, when it is late is part of `DesktopsHaveRows` (`users`, `late`).

### `Deployments`

| Theorem | Hypothesis | States |
|---|---|---|
| `DeploymentTypes` | - | `[]Types` |
| `NoOrphanedDesktop` | `Apart` | `[]TaggedHasDeployment` |
| `QuotaHolds` | `Apart` | `[]DeployedWithinQuota` |

`Apart`: one request at a time makes desktops or deletes a deployment; starts,
stops, editions, single deletions, the engine and guests go on meanwhile.
`DeploymentInv` says that an insertion still fits the quota (`InsertFits`), that an
addition has the row of its deployment (`AdditionHasRow`), that a deletion knows
every desktop that still has the tag (`DeletionCovers`), and that what was seen to
go is gone (`SeenIsGone`).

### `Hardware`

| Theorem | Hypothesis | States |
|---|---|---|
| `HardwareTypes` | - | `[]Types` |
| `InterfacesInUseExist` | `OneClient` | `[]InterfaceGoneIsUnused` |
| `MediaInUseExist` | `OneClient`, `NothingStarts` | `[]MediaGoneIsUnused` |
| `FilesHaveOneOwner` | `OneClient`, no restart of the webapp | `[]FileHasOneOwner` |

`NothingStarts`: nothing is started, and no disk is made of a medium.  The
invariants say what a request knows: a form that is about to be saved has
interfaces (media) that are there; the deletion of one has every desktop that has
it still on its list, and the lists it writes back name only what is there
(`NetsClient`, `MediaClient`); a file that a desktop took is no medium any more, or
is being taken (`FilesTaken`), so that no second one takes it.

The runs check these properties as parts of `HardwareIsThere`, each in the
scenario whose constants satisfy the hypotheses, or weaker ones.

### `Alloweds`

| Theorem | Hypothesis | States |
|---|---|---|
| `AllowedTypes` | - | `[]TypeOK` |
| `FormsKeepAccess` | `OneClient`, `NoneMadeAnew` | `[]SavesKeepAccess` |
| `InterfacesAreLimited` | `OneClient`, `OneNet`, no item is deleted | `[]HardwareIsLimited` |
| `OffersStay` | `OneClient`, `NoneMadeAnew` | `OffersKeep` |

`OneClient`: one page at a time.  `NoneMadeAnew`: where items are deleted no
templates are made.  `OneNet`: templates have one interface.

* `FormsKeepAccess`.  The form and the row may differ from the moment the form is
  opened, because users, groups and categories are deleted: what they still agree on
  is `FormsKeep`, that of an untouched kind the form has, of those who are there, what
  the row has (`Keeps`).  It survives deletions because `Keeps` speaks of fewer ids
  then, and the second reading because it is transitive.  `PresentCloses`, that who is
  there has its group, category and role, makes ids into users (`KeptIsGranted`).
* `InterfacesAreLimited`.  `NetsAreAllowed`: what a page may give, and what it gives,
  is allowed now.  What is allowed depends on the rows of interfaces only
  (`SameIsGiven`), which nobody but a form changes while the page is open.
* `OffersStay`.  The same invariant, at the step that writes: what the form has is
  granted to the same users as what the row had (`StaysGranted`), and every list goes
  by that, by what the row says besides, and by who has a row (`StaysOffered`).

Two exceptions are the code's.  A list of ids that name nobody any more is shown, and
saved, as the empty list, which stands for everybody; and to who owns a medium, and
is neither its manager nor an administrator, the form shows nothing, because
`OwnsIdOrTag` looks for the medium among the domains.

The run `webapp` checks the first two in `access` and `hardware`, as parts of
`PagesAreRight` and `HardwareIsThere`, and `OffersKeep` in all three scenarios.

## 7. What is only model-checked

* **Liveness**, which needs fairness and ENABLED, is out of the prover's reach:
  `EnabledComesOnline`, `ActionsLeaveTheQueue`, `StopsEnd`, `ComesToRest`,
  `ServersRun`, `ComesUp`, `RepliesCome`, `CreationResolves` and the two
  `RequestsResolve`.
* **`Initdb`** builds its sequences of writes with folds over tables and with
  operators as arguments, which none of the provers expands.
* **`Quotas`** counts memory and processors with `MapThenSumSet`; what a fold
  computes needs induction over the set.  Of `WithinQuota` the number of desktops is
  proved (section 6); `RunningWithinQuota`, `GuestHasRow` and `CreatedByOne` of
  `DesktopRequests` are checked only.
* **`Feeds`** and **`Creation`** are checked only: their properties compare what is
  left of sequences (the inboxes of a page, the chain of files) with a table,
  which again is induction over data.
* So far also the properties of `Download`, and those of `StartResources` when workers
  fail or desktops are shut down (`ResourcesAreTold`); and of `Desktop`, that a server
  keeps its place while it is started again and again (`ServersRun`).

## 8. What is not modelled

* **Broom** (`engine/controllers/broom.py`).  It has no effect on the statuses
  modelled here: it selects rows *without* the key `hyp_started` (`broom.py:60`),
  and every write of `update_domain_status` puts the key; and it compares a
  dictionary with the type `str` (`broom.py:74`).
* **Paused and suspended guests** and the events of graphics: they add statuses
  and no new order of the actors.
* **The choice of a hypervisor** is any Online one: the balancer's weights are
  data, and a property that held only for one choice would not be worth much.
  `StartResources` has the part that depends on free uids and forced hypervisors.
* **Viewers**, **VPN**, backups and the webapp's forms for
  hypervisors, resources and users: in the plan where they have state, else
  single writes of documents.
* Of `Deployments`: refusals by the quota of running desktops.  Of `Feeds`: the feed
  of the table `deployments`, the events `user_quota` and the deletion of cards.  Of
  `Alloweds`: other tables that are shared the same way, and the terms of a form,
  which are what is in the category.  Of `Accounts`: names, passwords, vouchers and log in.
* **XML, certificates, statistics**: transformations without state.
  **Authentication, websockify, images and scripts**: other programs, without
  shared state with the engine but the tables.
* **What libvirt, curl, qemu-img and RethinkDB do** is modelled from how the code
  uses them: a guest boots, ends, and libvirt tells those who listen; a changefeed
  delivers in order what is written while it is open.

## 9. Running

    tlc -config orch_single.cfg MCOrchestrator
    tlc -config orchestrator.cfg MCOrchestratorRuns
    tlc -config desktop.cfg MCDesktopRuns
    tlc -config requests.cfg MCRequests
    tlapm OrchestratorProofs.tla
    tlapm DesktopProofs.tla
    tlapm AccountProofs.tla

and so on; `PROJECT.json` has the module of every run.  The longest run,
`webapp`, has 1.4 million states and takes two to four minutes with two workers.
