--------------------------- MODULE Orchestrator ---------------------------
(***************************************************************************)
(* The hypervisor orchestrator of the engine.                              *)
(*                                                                         *)
(* The table "hypervisors" is shared by the administrator (API and webapp),*)
(* by the orchestrator thread and by the threads of every hypervisor.      *)
(* HypervisorChangesThread follows the changefeed of the table and turns a *)
(* change into an action on the queue of the orchestrator; the action      *)
(* carries a copy of the row as it was when it changed.  The orchestrator  *)
(* launches and registers the threads, stops them, and forgets them when   *)
(* they report their own death.                                            *)
(*                                                                         *)
(* A thread is identified by its kind, its hypervisor and a number: several*)
(* threads of one kind may exist for one hypervisor, and only the one in   *)
(* the dictionaries t_workers / t_disk_operations / t_long_operations (and *)
(* its queue) is reachable by the rest of the engine.                      *)
(***************************************************************************)
EXTENDS HypervisorRow, Naturals, Sequences

CONSTANTS
    Hyps,       \* hypervisor ids
    Slots,      \* numbers that tell apart the threads of one kind of one hypervisor
    Caps,       \* capabilities: [Hyps -> SUBSET {"hypervisor", "disk_operations"}]
    AdminOps,   \* what administrators do, a subset of AllAdminOps
    Faults,     \* what may go wrong, a subset of AllFaults
    MaxAdmin,   \* bound on the number of operations of administrators
    MaxFaults   \* bound on the number of faults

AllAdminOps == {"enable", "disable", "remove", "insert", "insert_enabled",
                "register", "api_enable", "restart"}

AllFaults == {"connect", "ssh", "kvm", "lost", "reconnect", "crash"}

ASSUME ConstantsAssumption ==
    /\ Caps \in [Hyps -> SUBSET {"hypervisor", "disk_operations"}]
    /\ AdminOps \subseteq AllAdminOps
    /\ Faults \subseteq AllFaults
    /\ MaxAdmin \in Nat
    /\ MaxFaults \in Nat

VARIABLES
    hyp,        \* the table "hypervisors": [Hyps -> HypRow]
    feed,       \* changes the changefeed has not delivered yet
    qActions,   \* the queue of the orchestrator
    orch,       \* where the orchestrator thread is: "first", "loop" or "dead"
    reg,        \* the threads in the dictionaries of the engine
    pc,         \* where each thread is
    stop,       \* the attribute stop of each thread
    queue,      \* what the queue of each thread holds
    admin,      \* operations of administrators so far
    faults      \* faults so far

vars == <<hyp, feed, qActions, orch, reg, pc, stop, queue, admin, faults>>
threadVars == <<pc, stop, queue>>

Thread == [kind: Kinds, hyp: Hyps, n: Slots]

\* "connecting": before its thread status is written; "kvm": a worker that is
\* Started and looks at the hardware of the hypervisor; "loop": serving its
\* queue; "tail": the loop was left and the last statements remain; "done":
\* it reported its death; "crashed": an exception ended it without a report.
PC == {"connecting", "kvm", "loop", "tail", "done", "crashed"}
Alive == {"connecting", "kvm", "loop", "tail"}

\* What a queue of a thread may hold: the request to stop, and any number of
\* actions on desktops and disks, which are all the same to this module.
Messages == {"stop_thread", "action"}

\* Mutant: the long operations thread reports like the disk operations thread.
DeadTypeCopied == [k \in Kinds |->
    IF k = "worker" THEN "thread_hyp_worker_dead" ELSE "thread_disk_operations_dead"]

DeadType == [k \in Kinds |->
    IF k = "worker" THEN "thread_hyp_worker_dead"
    ELSE IF k = "disk_operations" THEN "thread_disk_operations_dead"
    ELSE "thread_long_operations_dead"]

Action == [type: {DeadType[k] : k \in Kinds} \cup {"enable_hyper", "disable_hyper", "delete"},
           hyp: Hyps, row: HypRow]

NewAction(type, h, row) == [type |-> type, hyp |-> h, row |-> row]

TypeOK ==
    /\ hyp \in [Hyps -> HypRow]
    /\ feed \in Seq(Action)
    /\ qActions \in Seq(Action)
    /\ orch \in {"first", "loop", "dead"}
    /\ reg \in SUBSET Thread
    /\ pc \in [Thread -> PC]
    /\ stop \in [Thread -> BOOLEAN]
    /\ queue \in [Thread -> SUBSET Messages]
    /\ admin \in 0 .. MaxAdmin
    /\ faults \in 0 .. MaxFaults

Threads(k, h) == {t \in Thread : t.kind = k /\ t.hyp = h}
Registered(k, h) == reg \cap Threads(k, h)
OnlineHyps == {h \in Hyps : hyp[h].present /\ hyp[h].status = "Online"}

----------------------------------------------------------------------------
(* The engine has just been constructed: no thread runs yet.               *)

Init ==
    /\ hyp \in [Hyps -> {NoRow} \cup
                {[present |-> TRUE, enabled |-> e, status |-> "Offline",
                  ts |-> [k \in Kinds |-> "Stopped"]] : e \in BOOLEAN}]
    /\ feed = <<>>
    /\ qActions = <<>>
    /\ orch = "first"
    /\ reg = {}
    /\ pc = [t \in Thread |-> "done"]
    /\ stop = [t \in Thread |-> FALSE]
    /\ queue = [t \in Thread |-> {}]
    /\ admin = 0
    /\ faults = 0

----------------------------------------------------------------------------
(* Administrators.  Each operation writes one row; the changefeed records  *)
(* what HypervisorChangesThread will do about the change.                  *)

Administrator(op) ==
    /\ op \in AdminOps
    /\ admin < MaxAdmin
    /\ admin' = admin + 1

\* What HypervisorChangesThread does about a change of row h from old to new.
Reaction(h, old, new) ==
    IF ~old.present
    THEN IF new.status = "Offline" /\ new.enabled
         THEN <<NewAction("enable_hyper", h, new)>> ELSE <<>>
    ELSE IF ~old.enabled /\ new.enabled THEN <<NewAction("enable_hyper", h, new)>>
    ELSE IF old.enabled /\ ~new.enabled THEN <<NewAction("disable_hyper", h, new)>>
    ELSE IF ~old.enabled /\ new.status = "Deleting" /\ old.status \in {"Error", "Offline"}
    THEN <<NewAction("delete", h, new)>>
    ELSE <<>>

\* The changefeed is opened at about the time of the first poll: a change
\* made before that is not seen.
Write(h, new) ==
    /\ hyp' = [hyp EXCEPT ![h] = new]
    /\ \/ feed' = feed \o Reaction(h, hyp[h], new)
       \/ orch = "first" /\ UNCHANGED feed
    /\ UNCHANGED <<qActions, orch, reg, threadVars, faults>>

\* hypervisor_toggle_enabled of the webapp, on a hypervisor that is disabled
\* and on one that is enabled
EnableHyper(h) ==
    /\ Administrator("enable")
    /\ hyp[h].present /\ ~hyp[h].enabled
    /\ Write(h, [hyp[h] EXCEPT !.enabled = TRUE])

DisableHyper(h) ==
    /\ Administrator("disable")
    /\ hyp[h].present /\ hyp[h].enabled
    /\ Write(h, [hyp[h] EXCEPT !.enabled = FALSE])

\* remove_hyper of the API and hypervisor_delete of the webapp
RemoveHyper(h) ==
    /\ Administrator("remove")
    /\ hyp[h].present
    /\ Write(h, [hyp[h] EXCEPT !.enabled = FALSE, !.status = "Deleting"])

\* add_hyper of the API inserts a disabled row, hypervisor_add of the webapp
\* an enabled one; neither writes thread_status
InsertHyper(h, isEnabled) ==
    /\ Administrator(IF isEnabled THEN "insert_enabled" ELSE "insert")
    /\ ~hyp[h].present
    /\ Write(h, [NoRow EXCEPT !.present = TRUE, !.enabled = isEnabled])

\* engine_restart: the process ends with all its threads, and a new engine
\* is constructed
FreshEngine(rows) ==
    /\ hyp' = [h \in Hyps |-> RowAfterEngineStart(rows[h])]
    /\ feed' = <<>>
    /\ qActions' = <<>>
    /\ orch' = "first"
    /\ reg' = {}
    /\ pc' = [t \in Thread |-> "done"]
    /\ stop' = [t \in Thread |-> FALSE]
    /\ queue' = [t \in Thread |-> {}]
    /\ UNCHANGED faults

EngineRestart == Administrator("restart") /\ FreshEngine(hyp)

\* enable_hyper of the API restarts the engine after the write
ApiEnableHyper(h) ==
    /\ Administrator("api_enable")
    /\ hyp[h].present
    /\ FreshEngine([hyp EXCEPT ![h].enabled = TRUE])

\* hyper of the API, for a hypervisor that is in the table already: the row
\* is written again with status Offline.  Unless nothing changed, the engine
\* is restarted when the hypervisor is enabled; add_hyper returns False, and
\* hyper gives up before the restart, for one without disk operations.
RegisterHyper(h) ==
    /\ Administrator("register")
    /\ hyp[h].present
    /\ LET written == [hyp EXCEPT ![h].status = "Offline"]
           restarts == hyp[h].enabled /\ "disk_operations" \in Caps[h]
       IN  \/ restarts /\ FreshEngine(written)
           \/ ~restarts /\ Write(h, written[h])
           \/ hyp[h] = written[h] /\ Write(h, hyp[h])

----------------------------------------------------------------------------
(* HypervisorChangesThread.                                                *)

ChangesThread ==
    /\ feed # <<>>
    /\ feed' = Tail(feed)
    /\ LET c == Head(feed)
       IN  IF c.type = "delete"
           THEN /\ hyp' = [hyp EXCEPT ![c.hyp] = NoRow]
                /\ UNCHANGED qActions
           ELSE /\ qActions' = Append(qActions, c)
                /\ UNCHANGED hyp
    /\ UNCHANGED <<orch, reg, threadVars, admin, faults>>

----------------------------------------------------------------------------
(* Launching threads.                                                      *)

\* Threads that may be used for a launch: not running and not registered.
Spare(k, h) == {t \in Threads(k, h) : pc[t] \notin Alive /\ t \notin reg}
Fresh(k, h) == CHOOSE t \in Spare(k, h) : TRUE

\* Mutant: a thread is launched whatever its status is.
ToLaunchAgain(h, ts) == KindsOf(Caps[h])

\* start_hyper_threads: the kinds it launches for h when it is given the
\* thread_status ts.  The worker is launched whether one is registered or
\* not, a disk thread only when the registered one is not alive.
ToLaunch(h, ts) ==
    {k \in KindsOf(Caps[h]) :
        IF k = "worker" THEN MayLaunch(ts, k)
        ELSE /\ MayLaunch(ts, "disk_operations")
             /\ MayLaunch(ts, "long_operations")
             /\ \A t \in Registered(k, h) : pc[t] \notin Alive}

Starting(row, kinds) ==
    [row EXCEPT !.ts = [k \in Kinds |-> IF k \in kinds THEN "Starting" ELSE @[k]],
                !.status = IF @ = "Online" /\ kinds # {} THEN "Offline" ELSE @]

\* Launch the kinds launch[h] of every hypervisor h.
Launch(launch) ==
    LET fresh == {t \in Thread : t.kind \in launch[t.hyp] /\ t = Fresh(t.kind, t.hyp)}
    IN  /\ \A h \in Hyps : \A k \in launch[h] : Spare(k, h) # {}
        /\ hyp' = [h \in Hyps |-> Starting(hyp[h], launch[h])]
        /\ reg' = {t \in reg : t.kind \notin launch[t.hyp]} \cup fresh
        /\ pc' = [t \in Thread |-> IF t \in fresh THEN "connecting" ELSE pc[t]]
        /\ stop' = [t \in Thread |-> IF t \in fresh THEN FALSE ELSE stop[t]]
        /\ queue' = [t \in Thread |-> IF t \in fresh THEN {} ELSE queue[t]]

OrchestratorDies ==
    /\ orch' = "dead"
    /\ UNCHANGED <<reg, threadVars>>

\* check_hyps_from_database, first of all and then whenever no action came
\* within polling_interval
OrchestratorPoll ==
    /\ orch = "first" \/ (orch = "loop" /\ qActions = <<>>)
    /\ orch' = "loop"
    /\ Launch([h \in Hyps |->
         IF hyp[h].present /\ hyp[h].enabled /\ Startable(hyp[h])
         THEN ToLaunch(h, hyp[h].ts) ELSE {}])
    /\ UNCHANGED <<feed, qActions, admin, faults>>

\* The orchestrator takes the next action a, of one of the types in T.
Take(T) ==
    /\ orch = "loop"
    /\ qActions # <<>>
    /\ Head(qActions).type \in T
    /\ qActions' = Tail(qActions)
    /\ UNCHANGED <<feed, admin, faults>>

\* enable_hyper: everything is decided on the copy of the row in the action.
\* Writing the status of a thread of a hypervisor that left the table raises
\* ReqlNonExistenceError, which ends the thread of the orchestrator.
OrchestratorEnable ==
    /\ Take({"enable_hyper"})
    /\ LET a == Head(qActions)
           kinds == IF Startable(a.row) THEN ToLaunch(a.hyp, a.row.ts) ELSE {}
       IN  IF kinds # {} /\ ~hyp[a.hyp].present
           THEN OrchestratorDies /\ UNCHANGED hyp
           ELSE /\ Launch([h \in Hyps |-> IF h = a.hyp THEN kinds ELSE {}])
                /\ UNCHANGED orch

\* The kinds of thread in the order disable_hyper visits them.
Before(k) ==
    IF k = "worker" THEN {}
    ELSE IF k = "disk_operations" THEN {"worker"} ELSE {"worker", "disk_operations"}

\* Mutant: the attribute is set and nothing is put on the queue.
TellToStopSilently(told) ==
    /\ stop' = [t \in Thread |-> IF t \in told THEN TRUE ELSE stop[t]]
    /\ UNCHANGED queue

\* disable_hyper sets the attribute stop of a thread and puts stop_thread on
\* its queue.
TellToStop(told) ==
    /\ stop' = [t \in Thread |-> IF t \in told THEN TRUE ELSE stop[t]]
    /\ queue' = [t \in Thread |->
         IF t \in told THEN queue[t] \cup {"stop_thread"} ELSE queue[t]]

\* The row after the threads of kinds were told to stop.
Stopping(row, kinds, wasOnline) ==
    LET off == IF wasOnline THEN UpdateHypStatus(row, "Offline") ELSE row
    IN  [off EXCEPT !.ts = [k \in Kinds |-> IF k \in kinds THEN "Stopping" ELSE @[k]],
                    !.status = IF @ = "Online" /\ kinds # {} THEN "Offline" ELSE @]

\* disable_hyper: status and thread_status are those of the action.  A thread
\* that was not Started when the row changed is not told to stop; a key that
\* is missing in thread_status is a KeyError, and a row that left the table a
\* ReqlNonExistenceError: the kinds visited before were told to stop, and the
\* orchestrator ends.
OrchestratorDisable ==
    /\ Take({"disable_hyper"})
    /\ LET a == Head(qActions)
           h == a.hyp
           wasOnline == a.row.status = "Online"
           visited == {k \in Kinds : Registered(k, h) # {}}
           toStop  == {k \in visited : a.row.ts[k] = "Started"}
           raises  == {k \in visited : a.row.ts[k] = "none"}
           reached == {k \in toStop : raises \cap Before(k) = {}}
       IN  IF ~hyp[h].present
           THEN /\ UNCHANGED <<hyp, reg, threadVars>>
                /\ orch' = IF wasOnline \/ toStop # {} \/ raises # {} THEN "dead" ELSE orch
           ELSE /\ hyp' = [hyp EXCEPT ![h] = Stopping(@, reached, wasOnline)]
                /\ TellToStop(UNION {Registered(k, h) : k \in reached})
                /\ UNCHANGED <<reg, pc>>
                /\ orch' = IF raises # {} THEN "dead" ELSE orch

----------------------------------------------------------------------------
(* A thread reported its death.                                            *)

\* Mutant: the queues are left as they are.
MovedNothing(kinds, h, target) == queue

\* move_actions_to_others_hypers on the queues of h of these kinds: requests
\* to stop stay, actions go to the same kind of queue of another Online
\* hypervisor when there is one and are cleaned otherwise
Moved(kinds, h, target) ==
    [t \in Thread |->
        IF t \in reg /\ t.kind \in kinds /\ t.hyp = h THEN queue[t] \ {"action"}
        ELSE IF t \in reg /\ t.kind \in kinds /\ target # h /\ t.hyp = target
                /\ \E s \in Registered(t.kind, h) : "action" \in queue[s]
        THEN queue[t] \cup {"action"}
        ELSE queue[t]]

\* The kinds whose queues the death of a thread of kind k makes it move
MovedKinds(k) == IF k = "worker" THEN Kinds ELSE {k}

\* thread_*_dead.  Three things end the orchestrator here: when a queue to
\* move is not empty and this hypervisor is Online, the test that it is the
\* only one takes len() of a boolean; the entry may have been popped for
\* another thread already; and the row may have left the table.
OrchestratorThreadDead(k) ==
    /\ Take({DeadType[k]})
    /\ LET h == Head(qActions).hyp
           toMove == UNION {Registered(j, h) : j \in MovedKinds(k)}
           others == OnlineHyps \ {h}
       IN  IF h \in OnlineHyps /\ \E t \in toMove : queue[t] # {}
           THEN OrchestratorDies /\ UNCHANGED hyp
           ELSE /\ \E target \in IF others = {} THEN {h} ELSE others :
                     queue' = Moved(MovedKinds(k), h, target)
                /\ reg' = reg \ Registered(k, h)
                /\ IF hyp[h].present /\ Registered(k, h) # {}
                   THEN /\ hyp' = [hyp EXCEPT ![h] = ThreadNotStarted(@, Caps[h], k, "Stopped")]
                        /\ UNCHANGED orch
                   ELSE /\ orch' = "dead"
                        /\ UNCHANGED hyp
                /\ UNCHANGED <<pc, stop>>

----------------------------------------------------------------------------
(* The threads of a hypervisor.                                            *)

Fault(f) == f \in Faults /\ faults < MaxFaults /\ faults' = faults + 1
Sound == UNCHANGED faults

Step(t, from, to) == pc[t] = from /\ pc' = [pc EXCEPT ![t] = to]
OnlyThread == UNCHANGED <<feed, qActions, orch, reg, admin>>
Present(t) == hyp[t.hyp].present

\* Any statement that needs the row of the hypervisor raises once the row has
\* left the table; no handler catches it and the thread ends without a word.
ThreadLosesRow(t) ==
    /\ ~Present(t)
    /\ pc[t] \in {"connecting", "kvm", "tail"}
    /\ pc' = [pc EXCEPT ![t] = "crashed"]
    /\ Sound /\ OnlyThread /\ UNCHANGED <<hyp, stop, queue>>

\* HypWorkerThread.run, up to the thread status: connected to libvirt, a
\* command ran through ssh, the desktops of the hypervisor are put in order
WorkerConnects(t) ==
    /\ t.kind = "worker" /\ Present(t)
    /\ Step(t, "connecting", "kvm")
    /\ hyp' = [hyp EXCEPT ![t.hyp] = ThreadStarted(@, Caps[t.hyp], "worker")]
    /\ Sound /\ OnlyThread /\ UNCHANGED <<stop, queue>>

WorkerCannotConnect(t) ==
    /\ t.kind = "worker" /\ Present(t)
    /\ Step(t, "connecting", "tail")
    /\ hyp' = [hyp EXCEPT ![t.hyp] = UpdateHypStatus(@, "Error")]
    /\ Fault("connect") /\ OnlyThread /\ UNCHANGED <<stop, queue>>

\* The hardware is looked at unless stop was set before; with kvm the
\* attribute stop is set to False again, also if it had just been set
WorkerChecksKvm(t) ==
    /\ t.kind = "worker" /\ Present(t)
    /\ Step(t, "kvm", "loop")
    /\ stop' = [stop EXCEPT ![t] = FALSE]
    /\ Sound /\ OnlyThread /\ UNCHANGED <<hyp, queue>>

WorkerSkipsKvm(t) ==
    /\ t.kind = "worker" /\ stop[t]
    /\ Step(t, "kvm", "tail")
    /\ Sound /\ OnlyThread /\ UNCHANGED <<hyp, stop, queue>>

WorkerHasNoKvm(t) ==
    /\ t.kind = "worker" /\ Present(t)
    /\ Step(t, "kvm", "tail")
    /\ hyp' = [hyp EXCEPT ![t.hyp] = UpdateHypStatus(@, "Error")]
    /\ Fault("kvm") /\ OnlyThread /\ UNCHANGED <<stop, queue>>

\* Nothing came through the queue, the connection does not answer any more
\* and connecting again works or not
WorkerReconnects(t) ==
    /\ t.kind = "worker" /\ Present(t)
    /\ pc[t] = "loop" /\ queue[t] = {}
    /\ hyp' = [hyp EXCEPT ![t.hyp] = UpdateHypStatus(@, "Online")]
    /\ Fault("reconnect") /\ OnlyThread /\ UNCHANGED threadVars

WorkerLosesHyp(t) ==
    /\ t.kind = "worker"
    /\ queue[t] = {}
    /\ Step(t, "loop", "tail")
    /\ hyp' = [hyp EXCEPT ![t.hyp] =
                 IF @.status = "Online" THEN UpdateHypStatus(@, "Error") ELSE @]
    /\ Fault("lost") /\ OnlyThread /\ UNCHANGED <<stop, queue>>

\* disk_operations_thread and long_operations_thread: the test of ssh
DiskStarts(t) ==
    /\ t.kind # "worker" /\ Present(t) /\ ~stop[t]
    /\ Step(t, "connecting", "loop")
    /\ hyp' = [hyp EXCEPT ![t.hyp] = ThreadStarted(@, Caps[t.hyp], t.kind)]
    /\ Sound /\ OnlyThread /\ UNCHANGED <<stop, queue>>

DiskIsToldToStop(t) ==
    /\ t.kind # "worker" /\ stop[t]
    /\ Step(t, "connecting", "tail")
    /\ Sound /\ OnlyThread /\ UNCHANGED <<hyp, stop, queue>>

DiskCannotStart(t) ==
    /\ t.kind # "worker"
    /\ Step(t, "connecting", "tail")
    /\ stop' = [stop EXCEPT ![t] = TRUE]
    /\ Fault("ssh") /\ OnlyThread /\ UNCHANGED <<hyp, queue>>

\* One turn of the loop that serves an action
ThreadServes(t) ==
    /\ pc[t] = "loop" /\ "action" \in queue[t]
    /\ \E more \in BOOLEAN :
         queue' = [queue EXCEPT ![t] = IF more THEN @ ELSE @ \ {"action"}]
    /\ Sound /\ OnlyThread /\ UNCHANGED <<hyp, pc, stop>>

\* An exception nobody catches while an action is served
ThreadCrashes(t) ==
    /\ Step(t, "loop", "crashed")
    /\ Fault("crash") /\ OnlyThread /\ UNCHANGED <<hyp, stop, queue>>

\* The loop is left: the attribute stop was seen, with the request to stop
\* taken from the queue or not, or the request was taken
ThreadLeavesLoop(t) ==
    /\ Step(t, "loop", "tail")
    /\ \/ stop[t] /\ UNCHANGED queue
       \/ "stop_thread" \in queue[t] /\ queue' = [queue EXCEPT ![t] = @ \ {"stop_thread"}]
    /\ stop' = [stop EXCEPT ![t] = TRUE]
    /\ Sound /\ OnlyThread /\ UNCHANGED hyp

\* The last statements of a thread: its status, then the report of its death
ThreadReportsDeath(t) ==
    /\ Present(t)
    /\ Step(t, "tail", "done")
    /\ hyp' = [hyp EXCEPT ![t.hyp] = ThreadNotStarted(@, Caps[t.hyp], t.kind, "Stopping")]
    /\ qActions' = Append(qActions, NewAction(DeadType[t.kind], t.hyp, NoRow))
    /\ Sound /\ UNCHANGED <<feed, orch, reg, admin, stop, queue>>

\* Another thread of the engine puts an action on the queue of a thread of an
\* Online hypervisor; without an entry that is a KeyError in that other thread
ActionIsQueued(t) ==
    /\ t \in reg /\ t.hyp \in OnlineHyps
    /\ "action" \notin queue[t]
    /\ queue' = [queue EXCEPT ![t] = @ \cup {"action"}]
    /\ Sound /\ OnlyThread /\ UNCHANGED <<hyp, pc, stop>>

----------------------------------------------------------------------------

AdministratorNext ==
    \/ \E h \in Hyps :
         \/ EnableHyper(h) \/ DisableHyper(h) \/ RemoveHyper(h)
         \/ \E e \in BOOLEAN : InsertHyper(h, e)
         \/ ApiEnableHyper(h) \/ RegisterHyper(h)
    \/ EngineRestart

OrchestratorNext ==
    \/ OrchestratorPoll \/ OrchestratorEnable \/ OrchestratorDisable
    \/ \E k \in Kinds : OrchestratorThreadDead(k)

\* What a thread does by itself when nothing fails
ThreadRuns(t) ==
    \/ WorkerConnects(t) \/ WorkerChecksKvm(t) \/ WorkerSkipsKvm(t)
    \/ DiskStarts(t) \/ DiskIsToldToStop(t)
    \/ ThreadServes(t) \/ ThreadLeavesLoop(t) \/ ThreadReportsDeath(t)
    \/ ThreadLosesRow(t)

ThreadFails(t) ==
    \/ WorkerCannotConnect(t) \/ WorkerHasNoKvm(t)
    \/ WorkerReconnects(t) \/ WorkerLosesHyp(t)
    \/ DiskCannotStart(t) \/ ThreadCrashes(t)

Next ==
    \/ AdministratorNext
    \/ ChangesThread
    \/ OrchestratorNext
    \/ \E t \in Thread : ThreadRuns(t) \/ ThreadFails(t) \/ ActionIsQueued(t)

Spec == Init /\ [][Next]_vars

----------------------------------------------------------------------------
(* Safety.                                                                 *)

\* A thread that reported its death and is still in the dictionaries has its
\* report on the queue of the orchestrator: it will be collected, and its
\* hypervisor can be started again.
RegisteredDeathIsReported ==
    orch # "dead" =>
        \A t \in reg : pc[t] = "done" =>
            \E i \in DOMAIN qActions :
                /\ qActions[i].type = DeadType[t.kind]
                /\ qActions[i].hyp = t.hyp

\* A thread status Started in the table is the status of a thread that got
\* through its start and has not left a report since.
StartedIsAThread ==
    \A h \in Hyps, k \in Kinds :
        hyp[h].ts[k] = "Started" =>
            \E t \in Threads(k, h) : pc[t] \in {"kvm", "loop", "tail", "crashed"}

\* The inductive invariant behind SingleThread and OnlineHasWorkerQueue, for
\* an engine in which no hypervisor is enabled while it runs.

IsDead(a, k, h) == a.type = DeadType[k] /\ a.hyp = h

NothingEnables ==
    /\ \A i \in DOMAIN feed : feed[i].type \in {"disable_hyper", "delete"}
    /\ \A i \in DOMAIN qActions :
         qActions[i].type \in {DeadType[k] : k \in Kinds} \cup {"disable_hyper"}

RunningIsRegistered == \A t \in Thread : pc[t] \in Alive => t \in reg

OneRegistered == \A t, u \in reg : t.kind = u.kind /\ t.hyp = u.hyp => t = u

\* What a launch relies on: the thread status in the table tells that the
\* dictionaries hold nothing.
StoppedIsForgotten ==
    \A h \in Hyps, k \in Kinds :
        hyp[h].present /\ hyp[h].enabled /\ MayLaunch(hyp[h].ts, k) => Registered(k, h) = {}

\* What collecting a death relies on: the report is the only one, and the
\* thread that is registered is the one that sent it.
ReportsAreTrue ==
    /\ \A i \in DOMAIN qActions, k \in Kinds, h \in Hyps :
         IsDead(qActions[i], k, h) => \E t \in Registered(k, h) : pc[t] = "done"
    /\ \A i, j \in DOMAIN qActions, k \in Kinds, h \in Hyps :
         IsDead(qActions[i], k, h) /\ IsDead(qActions[j], k, h) => i = j

HasStartedWorker(h) ==
    \E t \in Registered("worker", h) : pc[t] \in {"kvm", "loop", "tail", "crashed"}

StartedIsRegistered ==
    \A h \in Hyps :
        /\ hyp[h].present
        /\ hyp[h].ts["worker"] = "Started" \/ (hyp[h].status = "Online" /\ "hypervisor" \in Caps[h])
        => HasStartedWorker(h)

LaunchInv ==
    /\ TypeOK
    /\ NothingEnables
    /\ RunningIsRegistered
    /\ OneRegistered
    /\ StoppedIsForgotten
    /\ ReportsAreTrue
    /\ StartedIsRegistered

\* No two threads of the same kind run for one hypervisor.
SingleThread ==
    \A t, u \in Thread :
        (pc[t] \in Alive /\ pc[u] \in Alive /\ t.kind = u.kind /\ t.hyp = u.hyp) => t = u

\* The balancer picks among the Online hypervisors and ui_actions puts the
\* action on q.workers of the one it picked: an Online hypervisor has a queue.
OnlineHasWorkerQueue ==
    \A h \in OnlineHyps :
        "hypervisor" \in Caps[h] => Registered("worker", h) # {}

\* The thread of the orchestrator never ends.
OrchestratorSurvives == orch # "dead"

\* While the queues of a hypervisor whose worker died are moved, it may be
\* the only one Online: then there is nowhere to move to, and the
\* orchestrator goes on.
MovesNowhereAndGoesOn ==
    [][\A h \in Hyps :
          /\ orch = "loop" /\ qActions # <<>> /\ orch' # "first"
          /\ Head(qActions).type \in {DeadType[k] : k \in Kinds}
          /\ Head(qActions).hyp = h
          /\ qActions' = Tail(qActions)
          /\ OnlineHyps = {h}
          /\ \A k \in Kinds : Head(qActions).type = DeadType[k] => Registered(k, h) # {}
          => orch' = "loop"]_vars

\* A row leaves the table of the running engine in two ways, and in both the
\* hypervisor is a disabled one.  When the death of a thread of a hypervisor in
\* Deleting is collected, nothing of it runs any more, of whatever kind.
\* HypervisorChangesThread removes the row of a hypervisor that was Error or
\* Offline when somebody asked for the removal without looking at its threads:
\* some may still run, or never have been told to stop.  Even then nobody
\* enabled it since.
RemovalsAreDue ==
    [][\A h \in Hyps :
          hyp[h].present /\ ~hyp'[h].present /\ orch' # "first" =>
            /\ ~hyp[h].enabled
            /\ \/ \A t \in Thread : t.hyp = h => pc[t] \notin Alive
               \/ /\ feed # <<>> /\ feed' = Tail(feed)
                  /\ Head(feed).type = "delete" /\ Head(feed).hyp = h]_vars

----------------------------------------------------------------------------
(* Refinement: a slot of the supervisor is what the dictionaries hold for  *)
(* one kind of thread of one hypervisor.                                   *)

Slot(k, h) ==
    IF Registered(k, h) = {} THEN "empty"
    ELSE IF \E t \in Registered(k, h) : pc[t] \in Alive THEN "running"
    ELSE IF \E t \in Registered(k, h) : pc[t] = "crashed" THEN "lost"
    ELSE "reported"

Supervisor == INSTANCE ThreadSupervisor
    WITH Keys <- Kinds \X Hyps,
         slot <- [kh \in Kinds \X Hyps |-> Slot(kh[1], kh[2])]

\* The orchestrator implements the supervisor as long as no hypervisor is
\* enabled while the engine runs.
Supervises == Supervisor!Spec
=============================================================================
