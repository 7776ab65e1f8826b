------------------------ MODULE OrchestratorProofs ------------------------
(***************************************************************************)
(* Theorems about Orchestrator for every set of hypervisors, every         *)
(* assignment of capabilities, every bound and every set of faults.        *)
(***************************************************************************)
EXTENDS Orchestrator, SequenceTheorems, TLAPS

----------------------------------------------------------------------------
(* The rewriting of rows.                                                  *)

LEMMA RowTypes ==
    ASSUME NEW row \in HypRow, NEW caps
    PROVE  /\ NoRow \in HypRow
           /\ \A status \in HypStatus : UpdateHypStatus(row, status) \in HypRow
           /\ \A k \in Kinds : ThreadStarted(row, caps, k) \in HypRow
           /\ \A k \in Kinds, s \in ThreadStatus : ThreadNotStarted(row, caps, k, s) \in HypRow
           /\ RowAfterEngineStart(row) \in HypRow
<1>1. NoRow \in HypRow
  BY DEF NoRow, HypRow, HypStatus, ThreadStatus, Kinds
<1>2. \A r \in HypRow, status \in HypStatus : UpdateHypStatus(r, status) \in HypRow
  BY DEF UpdateHypStatus, HypRow
<1>3. \A k \in Kinds, s \in ThreadStatus : [row EXCEPT !.ts[k] = s] \in HypRow
  BY DEF HypRow
<1>4. "Started" \in ThreadStatus /\ {"Online", "Offline"} \subseteq HypStatus
  BY DEF ThreadStatus, HypStatus
<1>5. \A k \in Kinds : ThreadStarted(row, caps, k) \in HypRow
  BY <1>2, <1>3, <1>4 DEF ThreadStarted
<1>6. \A k \in Kinds, s \in ThreadStatus : ThreadNotStarted(row, caps, k, s) \in HypRow
  BY <1>1, <1>2, <1>3, <1>4 DEF ThreadNotStarted
<1>7. RowAfterEngineStart(row) \in HypRow
  BY <1>1 DEF RowAfterEngineStart, HypRow, HypStatus, ThreadStatus
<1> QED
  BY <1>1, <1>2, <1>5, <1>6, <1>7

LEMMA DeadTypes ==
    /\ \A k \in Kinds : DeadType[k] \notin {"enable_hyper", "disable_hyper", "delete"}
    /\ \A j, k \in Kinds : DeadType[j] = DeadType[k] => j = k
<1>1. /\ DeadType["worker"] = "thread_hyp_worker_dead"
      /\ DeadType["disk_operations"] = "thread_disk_operations_dead"
      /\ DeadType["long_operations"] = "thread_long_operations_dead"
  BY DEF DeadType, Kinds
<1>2. \A k \in Kinds : k = "worker" \/ k = "disk_operations" \/ k = "long_operations"
  BY DEF Kinds
<1>3. \A k \in Kinds : DeadType[k] \notin {"enable_hyper", "disable_hyper", "delete"}
  BY <1>1, <1>2
<1>4. \A j, k \in Kinds : DeadType[j] = DeadType[k] => j = k
  BY <1>1, <1>2
<1> QED
  BY <1>3, <1>4

LEMMA ActionTypes ==
    ASSUME NEW h \in Hyps, NEW row \in HypRow,
           NEW type \in {DeadType[k] : k \in Kinds} \cup {"enable_hyper", "disable_hyper", "delete"}
    PROVE  NewAction(type, h, row) \in Action
BY DEF NewAction, Action

----------------------------------------------------------------------------
(* Type correctness.                                                       *)

LEMMA TypeInit == Init => TypeOK
<1> SUFFICES ASSUME Init PROVE TypeOK
  OBVIOUS
<1>1. hyp \in [Hyps -> HypRow]
  <2> DEFINE row(e) == [present |-> TRUE, enabled |-> e, status |-> "Offline",
                        ts |-> [k \in Kinds |-> "Stopped"]]
  <2>1. NoRow \in HypRow /\ \A e \in BOOLEAN : row(e) \in HypRow
    BY DEF NoRow, HypRow, HypStatus, ThreadStatus
  <2> HIDE DEF row
  <2>2. {NoRow} \cup {row(e) : e \in BOOLEAN} \subseteq HypRow
    BY <2>1
  <2>3. hyp \in [Hyps -> {NoRow} \cup {row(e) : e \in BOOLEAN}]
    BY DEF Init, row
  <2> QED
    BY <2>2, <2>3
<1> QED
  BY <1>1, ConstantsAssumption DEF Init, TypeOK, PC

LEMMA ReactionType ==
    ASSUME NEW h \in Hyps, NEW old \in HypRow, NEW new \in HypRow
    PROVE  Reaction(h, old, new) \in Seq(Action)
BY ActionTypes DEF Reaction

LEMMA WriteType ==
    ASSUME TypeOK, NEW h \in Hyps, NEW new \in HypRow, Write(h, new),
           admin' \in 0 .. MaxAdmin
    PROVE  TypeOK'
<1>1. hyp' \in [Hyps -> HypRow]
  BY DEF TypeOK, Write
<1>2. feed' \in Seq(Action)
  <2>1. hyp[h] \in HypRow /\ feed \in Seq(Action)
    BY DEF TypeOK
  <2>2. Reaction(h, hyp[h], new) \in Seq(Action)
    BY <2>1, ReactionType
  <2>3. feed' = feed \o Reaction(h, hyp[h], new) \/ feed' = feed
    BY DEF Write
  <2> QED
    BY <2>1, <2>2, <2>3, ConcatProperties
<1> QED
  BY <1>1, <1>2 DEF TypeOK, Write, threadVars

LEMMA FreshEngineType ==
    ASSUME TypeOK, NEW rows \in [Hyps -> HypRow], FreshEngine(rows),
           admin' \in 0 .. MaxAdmin
    PROVE  TypeOK'
<1>1. hyp' \in [Hyps -> HypRow]
  BY RowTypes DEF FreshEngine, ThreadStatus, HypStatus, Kinds
<1> QED
  BY <1>1 DEF TypeOK, FreshEngine, PC

LEMMA AdministratorType ==
    ASSUME TypeOK, AdministratorNext
    PROVE  TypeOK'
<1>1. admin' \in 0 .. MaxAdmin
  <2>1. admin < MaxAdmin /\ admin' = admin + 1
    BY DEF AdministratorNext, Administrator, EnableHyper, DisableHyper, RemoveHyper,
       InsertHyper, EngineRestart, ApiEnableHyper, RegisterHyper
  <2> QED
    BY <2>1, ConstantsAssumption DEF TypeOK
<1>2. CASE EngineRestart
  BY <1>1, <1>2, FreshEngineType DEF EngineRestart, TypeOK
<1>3. ASSUME NEW h \in Hyps, EnableHyper(h) \/ DisableHyper(h) \/ RemoveHyper(h)
      PROVE  TypeOK'
  <2> DEFINE e == [hyp[h] EXCEPT !.enabled = TRUE]
             d == [hyp[h] EXCEPT !.enabled = FALSE]
             r == [hyp[h] EXCEPT !.enabled = FALSE, !.status = "Deleting"]
  <2>1. e \in HypRow /\ d \in HypRow /\ r \in HypRow
    BY DEF TypeOK, HypRow, HypStatus
  <2>2. Write(h, e) \/ Write(h, d) \/ Write(h, r)
    BY <1>3 DEF EnableHyper, DisableHyper, RemoveHyper
  <2> QED
    BY <1>1, <2>1, <2>2, WriteType
<1>4. ASSUME NEW h \in Hyps, NEW e \in BOOLEAN, InsertHyper(h, e)
      PROVE  TypeOK'
  <2>1. [NoRow EXCEPT !.present = TRUE, !.enabled = e] \in HypRow
    BY DEF NoRow, HypRow, HypStatus, ThreadStatus
  <2> QED
    BY <1>1, <1>4, <2>1, WriteType DEF InsertHyper
<1>5. ASSUME NEW h \in Hyps, ApiEnableHyper(h)
      PROVE  TypeOK'
  <2>1. [hyp EXCEPT ![h].enabled = TRUE] \in [Hyps -> HypRow]
    BY DEF TypeOK, HypRow
  <2> QED
    BY <1>1, <1>5, <2>1, FreshEngineType DEF ApiEnableHyper
<1>6. ASSUME NEW h \in Hyps, RegisterHyper(h)
      PROVE  TypeOK'
  <2> DEFINE written == [hyp EXCEPT ![h].status = "Offline"]
  <2>1. written \in [Hyps -> HypRow] /\ written[h] \in HypRow /\ hyp[h] \in HypRow
    BY DEF TypeOK, HypRow, HypStatus
  <2>2. FreshEngine(written) \/ Write(h, written[h]) \/ Write(h, hyp[h])
    BY <1>6 DEF RegisterHyper
  <2> QED
    BY <1>1, <2>1, <2>2, WriteType, FreshEngineType
<1> QED
  BY <1>2, <1>3, <1>4, <1>5, <1>6 DEF AdministratorNext

\* A launch of kinds of threads that exist, and nothing else of the state.
LEMMA LaunchType ==
    ASSUME TypeOK, NEW launch \in [Hyps -> SUBSET Kinds], Launch(launch),
           orch' \in {"first", "loop", "dead"}, feed' \in Seq(Action),
           qActions' \in Seq(Action), UNCHANGED <<admin, faults>>
    PROVE  TypeOK'
<1>1. \A row \in HypRow, kinds \in SUBSET Kinds : Starting(row, kinds) \in HypRow
  BY DEF Starting, HypRow, HypStatus, ThreadStatus
<1>2. hyp' \in [Hyps -> HypRow]
  BY <1>1 DEF TypeOK, Launch
<1>3. reg' \in SUBSET Thread
  BY DEF TypeOK, Launch
<1>4. /\ pc' \in [Thread -> PC]
      /\ stop' \in [Thread -> BOOLEAN]
      /\ queue' \in [Thread -> SUBSET Messages]
  BY DEF TypeOK, Launch, PC
<1> QED
  BY <1>2, <1>3, <1>4 DEF TypeOK

LEMMA ToLaunchType ==
    ASSUME NEW h \in Hyps, NEW ts \in [Kinds -> ThreadStatus]
    PROVE  ToLaunch(h, ts) \in SUBSET Kinds
BY DEF ToLaunch, KindsOf, Kinds

LEMMA TakeType ==
    ASSUME TypeOK, NEW T, Take(T)
    PROVE  /\ Head(qActions) \in Action
           /\ Head(qActions).hyp \in Hyps
           /\ Head(qActions).row \in HypRow
           /\ qActions' \in Seq(Action)
           /\ feed' \in Seq(Action)
           /\ UNCHANGED <<admin, faults>>
<1>1. qActions \in Seq(Action) /\ qActions # <<>> /\ feed \in Seq(Action)
  BY DEF TypeOK, Take
<1>2. Head(qActions) \in Action /\ Tail(qActions) \in Seq(Action)
  BY <1>1, HeadTailProperties
<1> QED
  BY <1>1, <1>2 DEF Take, Action

LEMMA StoppingType ==
    ASSUME NEW row \in HypRow, NEW kinds, NEW was
    PROVE  Stopping(row, kinds, was) \in HypRow
<1>1. UpdateHypStatus(row, "Offline") \in HypRow
  BY RowTypes DEF HypStatus
<1>2. \A r \in HypRow :
        [r EXCEPT !.ts = [k \in Kinds |-> IF k \in kinds THEN "Stopping" ELSE @[k]],
                  !.status = IF @ = "Online" /\ kinds # {} THEN "Offline" ELSE @] \in HypRow
  BY DEF HypRow, HypStatus, ThreadStatus
<1> QED
  BY <1>1, <1>2 DEF Stopping

LEMMA OrchestratorType ==
    ASSUME TypeOK, OrchestratorNext
    PROVE  TypeOK'
<1>1. CASE OrchestratorPoll
  <2> DEFINE launch == [h \in Hyps |->
         IF hyp[h].present /\ hyp[h].enabled /\ Startable(hyp[h])
         THEN ToLaunch(h, hyp[h].ts) ELSE {}]
  <2>1. launch \in [Hyps -> SUBSET Kinds]
    BY ToLaunchType DEF TypeOK, HypRow
  <2>2. /\ Launch(launch)
        /\ orch' \in {"first", "loop", "dead"}
        /\ UNCHANGED <<feed, qActions, admin, faults>>
    BY <1>1 DEF OrchestratorPoll
  <2>3. feed' \in Seq(Action) /\ qActions' \in Seq(Action)
    BY <2>2 DEF TypeOK
  <2> HIDE DEF launch
  <2> QED
    BY <2>1, <2>2, <2>3, LaunchType
<1>2. CASE OrchestratorEnable
  <2> DEFINE a == Head(qActions)
             kinds == IF Startable(a.row) THEN ToLaunch(a.hyp, a.row.ts) ELSE {}
             launch == [h \in Hyps |-> IF h = a.hyp THEN kinds ELSE {}]
  <2>1. /\ a.hyp \in Hyps /\ a.row \in HypRow
        /\ qActions' \in Seq(Action) /\ feed' \in Seq(Action)
        /\ UNCHANGED <<admin, faults>>
    BY <1>2, TakeType DEF OrchestratorEnable
  <2>2. kinds \in SUBSET Kinds
    BY <2>1, ToLaunchType DEF HypRow
  <2>3. launch \in [Hyps -> SUBSET Kinds]
    BY <2>2
  <2>4. CASE OrchestratorDies /\ UNCHANGED hyp
    BY <2>1, <2>4 DEF TypeOK, OrchestratorDies, threadVars
  <2>5. CASE Launch(launch) /\ UNCHANGED orch
    <3>1. orch' \in {"first", "loop", "dead"}
      BY <2>5 DEF TypeOK
    <3> HIDE DEF launch
    <3> QED
      BY <2>1, <2>3, <2>5, <3>1, LaunchType
  <2> QED
    BY <1>2, <2>4, <2>5 DEF OrchestratorEnable
<1>3. CASE OrchestratorDisable
  <2> DEFINE h == Head(qActions).hyp
  <2>1. /\ h \in Hyps
        /\ qActions' \in Seq(Action) /\ feed' \in Seq(Action)
        /\ UNCHANGED <<admin, faults>>
    BY <1>3, TakeType DEF OrchestratorDisable
  <2>2. orch' \in {"first", "loop", "dead"}
    BY <1>3 DEF OrchestratorDisable, TypeOK
  <2>3. CASE UNCHANGED <<hyp, reg, threadVars>>
    BY <2>1, <2>2, <2>3 DEF TypeOK, threadVars
  <2>4. ASSUME NEW kinds, NEW was, NEW told,
               hyp' = [hyp EXCEPT ![h] = Stopping(@, kinds, was)],
               TellToStop(told), UNCHANGED <<reg, pc>>
        PROVE  TypeOK'
    <3>1. hyp' \in [Hyps -> HypRow]
      BY <2>1, <2>4, StoppingType DEF TypeOK
    <3>2. /\ stop' \in [Thread -> BOOLEAN]
          /\ queue' \in [Thread -> SUBSET Messages]
      BY <2>4 DEF TellToStop, TypeOK, Messages
    <3> QED
      BY <2>1, <2>2, <2>4, <3>1, <3>2 DEF TypeOK
  <2> QED
    BY <1>3, <2>3, <2>4 DEF OrchestratorDisable
<1>4. ASSUME NEW k \in Kinds, OrchestratorThreadDead(k)
      PROVE  TypeOK'
  <2> DEFINE h == Head(qActions).hyp
  <2>1. /\ h \in Hyps
        /\ qActions' \in Seq(Action) /\ feed' \in Seq(Action)
        /\ UNCHANGED <<admin, faults>>
    BY <1>4, TakeType DEF OrchestratorThreadDead
  <2>2. CASE OrchestratorDies /\ UNCHANGED hyp
    BY <2>1, <2>2 DEF TypeOK, OrchestratorDies, threadVars
  <2>3. CASE /\ \E target : queue' = Moved(MovedKinds(k), h, target)
             /\ reg' = reg \ Registered(k, h)
             /\ \/ hyp' = [hyp EXCEPT ![h] = ThreadNotStarted(@, Caps[h], k, "Stopped")]
                \/ UNCHANGED hyp
             /\ orch' \in {orch, "dead"}
             /\ UNCHANGED <<pc, stop>>
    <3>1. hyp' \in [Hyps -> HypRow]
      <4>1. hyp[h] \in HypRow /\ "Stopped" \in ThreadStatus
        BY <2>1 DEF TypeOK, ThreadStatus
      <4>2. ThreadNotStarted(hyp[h], Caps[h], k, "Stopped") \in HypRow
        BY <4>1, RowTypes
      <4> QED
        BY <2>1, <2>3, <4>2 DEF TypeOK
    <3>2. queue' \in [Thread -> SUBSET Messages]
      BY <2>3 DEF Moved, TypeOK, Messages
    <3> QED
      BY <2>1, <2>3, <3>1, <3>2 DEF TypeOK
  <2> QED
    BY <1>4, <2>2, <2>3 DEF OrchestratorThreadDead
<1> QED
  BY <1>1, <1>2, <1>3, <1>4 DEF OrchestratorNext

LEMMA ThreadTypes ==
    ASSUME TypeOK, NEW t \in Thread
    PROVE  /\ t.kind \in Kinds /\ t.hyp \in Hyps
           /\ hyp[t.hyp] \in HypRow
           /\ \A to \in PC : [pc EXCEPT ![t] = to] \in [Thread -> PC]
           /\ \A b \in BOOLEAN : [stop EXCEPT ![t] = b] \in [Thread -> BOOLEAN]
           /\ \A q \in SUBSET Messages : [queue EXCEPT ![t] = q] \in [Thread -> SUBSET Messages]
           /\ \A row \in HypRow : [hyp EXCEPT ![t.hyp] = row] \in [Hyps -> HypRow]
BY DEF TypeOK, Thread

LEMMA FaultsType ==
    ASSUME TypeOK, (\E f : Fault(f)) \/ Sound
    PROVE  faults' \in 0 .. MaxFaults
<1>1. MaxFaults \in Nat /\ faults \in 0 .. MaxFaults
  BY ConstantsAssumption DEF TypeOK
<1>2. CASE Sound
  BY <1>1, <1>2 DEF Sound
<1>3. CASE faults < MaxFaults /\ faults' = faults + 1
  BY <1>1, <1>3
<1> QED
  BY <1>2, <1>3 DEF Fault

LEMMA ThreadType ==
    ASSUME TypeOK, NEW t \in Thread, ThreadRuns(t) \/ ThreadFails(t) \/ ActionIsQueued(t)
    PROVE  TypeOK'
<1> DEFINE row1 == ThreadStarted(hyp[t.hyp], Caps[t.hyp], t.kind)
           row2 == ThreadNotStarted(hyp[t.hyp], Caps[t.hyp], t.kind, "Stopping")
           row3(s) == UpdateHypStatus(hyp[t.hyp], s)
<1>1. /\ row1 \in HypRow
      /\ row2 \in HypRow
      /\ row3("Error") \in HypRow /\ row3("Online") \in HypRow
      /\ hyp[t.hyp] \in HypRow
  BY RowTypes, ThreadTypes DEF ThreadStatus, HypStatus
<1>2. faults' \in 0 .. MaxFaults
  BY FaultsType DEF ThreadRuns, ThreadFails, WorkerConnects, WorkerChecksKvm, WorkerSkipsKvm,
     DiskStarts, DiskIsToldToStop, ThreadServes, ThreadLeavesLoop, ThreadReportsDeath,
     ThreadLosesRow, WorkerCannotConnect, WorkerHasNoKvm, WorkerReconnects, WorkerLosesHyp,
     DiskCannotStart, ThreadCrashes, ActionIsQueued
<1>3. UNCHANGED <<feed, orch, reg, admin>> /\ qActions' \in Seq(Action)
  <2>1. CASE OnlyThread
    BY <2>1 DEF OnlyThread, TypeOK
  <2>2. CASE ThreadReportsDeath(t)
    <3>1. NewAction(DeadType[t.kind], t.hyp, NoRow) \in Action
      BY ThreadTypes, ActionTypes, RowTypes
    <3> QED
      BY <2>2, <3>1, AppendProperties DEF ThreadReportsDeath, TypeOK
  <2> QED
    BY <2>1, <2>2 DEF ThreadRuns, ThreadFails, WorkerConnects, WorkerChecksKvm, WorkerSkipsKvm,
       DiskStarts, DiskIsToldToStop, ThreadServes, ThreadLeavesLoop,
       ThreadLosesRow, WorkerCannotConnect, WorkerHasNoKvm, WorkerReconnects, WorkerLosesHyp,
       DiskCannotStart, ThreadCrashes, ActionIsQueued
<1>4. PICK row \in HypRow : hyp' = hyp \/ hyp' = [hyp EXCEPT ![t.hyp] = row]
  <2>1. \/ hyp' = hyp
        \/ \E row \in {row1, row2, row3("Error"), row3("Online"), hyp[t.hyp]} :
              hyp' = [hyp EXCEPT ![t.hyp] = row]
    BY DEF ThreadRuns, ThreadFails, WorkerConnects, WorkerChecksKvm, WorkerSkipsKvm,
       DiskStarts, DiskIsToldToStop, ThreadServes, ThreadLeavesLoop, ThreadReportsDeath,
       ThreadLosesRow, WorkerCannotConnect, WorkerHasNoKvm, WorkerReconnects, WorkerLosesHyp,
       DiskCannotStart, ThreadCrashes, ActionIsQueued, threadVars
  <2> QED
    BY <1>1, <2>1
<1>5. PICK to \in PC : pc' = pc \/ pc' = [pc EXCEPT ![t] = to]
  BY DEF PC, Step, ThreadRuns, ThreadFails, WorkerConnects, WorkerChecksKvm, WorkerSkipsKvm,
     DiskStarts, DiskIsToldToStop, ThreadServes, ThreadLeavesLoop, ThreadReportsDeath,
     ThreadLosesRow, WorkerCannotConnect, WorkerHasNoKvm, WorkerReconnects, WorkerLosesHyp,
     DiskCannotStart, ThreadCrashes, ActionIsQueued, threadVars
<1>6. PICK b \in BOOLEAN : stop' = stop \/ stop' = [stop EXCEPT ![t] = b]
  BY DEF ThreadRuns, ThreadFails, WorkerConnects, WorkerChecksKvm, WorkerSkipsKvm,
     DiskStarts, DiskIsToldToStop, ThreadServes, ThreadLeavesLoop, ThreadReportsDeath,
     ThreadLosesRow, WorkerCannotConnect, WorkerHasNoKvm, WorkerReconnects, WorkerLosesHyp,
     DiskCannotStart, ThreadCrashes, ActionIsQueued, threadVars
<1>7. PICK q \in SUBSET Messages : queue' = queue \/ queue' = [queue EXCEPT ![t] = q]
  <2>1. queue[t] \in SUBSET Messages
    BY DEF TypeOK
  <2>2. CASE UNCHANGED queue
    BY <2>1, <2>2
  <2>3. CASE ThreadServes(t) \/ ThreadLeavesLoop(t) \/ ActionIsQueued(t)
    <3>1. \/ queue' = queue
          \/ \E q \in {queue[t], queue[t] \ {"action"}, queue[t] \ {"stop_thread"},
                       queue[t] \cup {"action"}} : queue' = [queue EXCEPT ![t] = q]
      BY <2>3 DEF ThreadServes, ThreadLeavesLoop, ActionIsQueued
    <3> QED
      BY <2>1, <3>1 DEF Messages
  <2> QED
    BY <2>2, <2>3 DEF ThreadRuns, ThreadFails, WorkerConnects, WorkerChecksKvm, WorkerSkipsKvm,
       DiskStarts, DiskIsToldToStop, ThreadReportsDeath,
       ThreadLosesRow, WorkerCannotConnect, WorkerHasNoKvm, WorkerReconnects, WorkerLosesHyp,
       DiskCannotStart, ThreadCrashes, threadVars
<1> HIDE DEF row1, row2, row3
<1>8. hyp' \in [Hyps -> HypRow]
  <2>1. hyp \in [Hyps -> HypRow] /\ [hyp EXCEPT ![t.hyp] = row] \in [Hyps -> HypRow]
    BY ThreadTypes DEF TypeOK
  <2> QED
    BY <1>4, <2>1
<1>9. pc' \in [Thread -> PC]
  <2>1. pc \in [Thread -> PC] /\ [pc EXCEPT ![t] = to] \in [Thread -> PC]
    BY ThreadTypes DEF TypeOK
  <2> QED
    BY <1>5, <2>1
<1>10. stop' \in [Thread -> BOOLEAN]
  <2>1. stop \in [Thread -> BOOLEAN] /\ [stop EXCEPT ![t] = b] \in [Thread -> BOOLEAN]
    BY ThreadTypes DEF TypeOK
  <2> QED
    BY <1>6, <2>1
<1>11. queue' \in [Thread -> SUBSET Messages]
  <2>1. queue \in [Thread -> SUBSET Messages] /\ [queue EXCEPT ![t] = q] \in [Thread -> SUBSET Messages]
    BY ThreadTypes DEF TypeOK
  <2> QED
    BY <1>7, <2>1
<1>12. UNCHANGED <<feed, orch, reg, admin>> /\ qActions' \in Seq(Action)
  BY <1>3
<1> QED
  BY <1>2, <1>8, <1>9, <1>10, <1>11, <1>12 DEF TypeOK

LEMMA TypeStep == TypeOK /\ [Next]_vars => TypeOK'
<1> SUFFICES ASSUME TypeOK, [Next]_vars PROVE TypeOK'
  OBVIOUS
<1>1. CASE UNCHANGED vars
  BY <1>1 DEF vars, threadVars, TypeOK
<1>2. CASE ChangesThread
  <2>1. /\ Head(feed) \in Action /\ Tail(feed) \in Seq(Action)
        /\ Append(qActions, Head(feed)) \in Seq(Action)
    BY <1>2, HeadTailProperties, AppendProperties DEF ChangesThread, TypeOK
  <2>2. [hyp EXCEPT ![Head(feed).hyp] = NoRow] \in [Hyps -> HypRow]
    BY RowTypes DEF TypeOK, NoRow, HypRow, HypStatus, ThreadStatus
  <2> QED
    BY <1>2, <2>1, <2>2 DEF ChangesThread, TypeOK, threadVars
<1> QED
  BY <1>1, <1>2, AdministratorType, OrchestratorType, ThreadType DEF Next

\* The state of the orchestrator and of the threads stays well typed, with
\* any number of hypervisors and threads and any schedule.
THEOREM TypeCorrect == Spec => []TypeOK
BY TypeInit, TypeStep, PTL DEF Spec

----------------------------------------------------------------------------
(* The inductive invariant, when no hypervisor is enabled while the engine *)
(* runs.                                                                   *)

NoEnabling == AdminOps \cap {"enable", "insert_enabled"} = {}

\* The conjuncts of LaunchInv beside TypeOK
LaunchParts ==
    /\ NothingEnables
    /\ RunningIsRegistered
    /\ OneRegistered
    /\ StoppedIsForgotten
    /\ ReportsAreTrue
    /\ StartedIsRegistered

LEMMA RegisteredMember ==
    ASSUME NEW k, NEW h
    PROVE  \A t : t \in Registered(k, h) <=> t \in reg /\ t \in Thread /\ t.kind = k /\ t.hyp = h
BY DEF Registered, Threads

\* An engine without threads and without actions.
EngineIsEmpty ==
    /\ reg = {} /\ feed = <<>> /\ qActions = <<>>
    /\ \A t \in Thread : pc[t] = "done"
    /\ \A h \in Hyps : hyp[h].ts["worker"] # "Started" /\ hyp[h].status # "Online"

LEMMA EmptyEngine == EngineIsEmpty => LaunchParts
<1> SUFFICES ASSUME EngineIsEmpty PROVE LaunchParts
  OBVIOUS
<1>1. NothingEnables /\ ReportsAreTrue
  BY DEF EngineIsEmpty, NothingEnables, ReportsAreTrue
<1>2. RunningIsRegistered /\ OneRegistered
  BY DEF EngineIsEmpty, RunningIsRegistered, OneRegistered, Alive
<1>3. StoppedIsForgotten /\ StartedIsRegistered
  BY DEF EngineIsEmpty, StoppedIsForgotten, StartedIsRegistered, Registered
<1> QED
  BY <1>1, <1>2, <1>3 DEF LaunchParts

LEMMA LaunchInit == Init => LaunchInv
<1> SUFFICES ASSUME Init PROVE LaunchParts
  BY TypeInit DEF LaunchInv, LaunchParts
<1>1. ASSUME NEW h \in Hyps
      PROVE  hyp[h].ts["worker"] # "Started" /\ hyp[h].status # "Online"
  <2>1. \/ hyp[h] = NoRow
        \/ \E e \in BOOLEAN : hyp[h] = [present |-> TRUE, enabled |-> e, status |-> "Offline",
                                      ts |-> [k \in Kinds |-> "Stopped"]]
    BY DEF Init
  <2>2. CASE hyp[h] = NoRow
    BY <2>2 DEF NoRow, Kinds
  <2>3. ASSUME NEW e \in BOOLEAN,
               hyp[h] = [present |-> TRUE, enabled |-> e, status |-> "Offline",
                         ts |-> [k \in Kinds |-> "Stopped"]]
        PROVE  hyp[h].ts["worker"] # "Started" /\ hyp[h].status # "Online"
    BY <2>3 DEF Kinds
  <2> QED
    BY <2>1, <2>2, <2>3
<1>2. EngineIsEmpty
  BY <1>1 DEF Init, EngineIsEmpty
<1> QED
  BY <1>2, EmptyEngine

LEMMA FreshEngineInv ==
    ASSUME NEW rows \in [Hyps -> HypRow], FreshEngine(rows)
    PROVE  LaunchParts'
<1>1. ASSUME NEW h \in Hyps
      PROVE  hyp'[h].ts["worker"] # "Started" /\ hyp'[h].status # "Online"
  <2>1. hyp'[h] = RowAfterEngineStart(rows[h]) /\ rows[h] \in HypRow
    BY DEF FreshEngine
  <2> QED
    BY <2>1 DEF RowAfterEngineStart, NoRow, HypRow, Kinds
<1>2. EngineIsEmpty'
  BY <1>1 DEF FreshEngine, EngineIsEmpty
<1> QED
  BY <1>2, EmptyEngine, PTL

\* A write of an administrator that neither enables a hypervisor nor starts
\* anything.
LEMMA WriteInv ==
    ASSUME TypeOK, LaunchParts, NEW h \in Hyps, NEW new \in HypRow, Write(h, new),
           new.present,
           new.enabled => hyp[h].present /\ hyp[h].enabled,
           new.ts = hyp[h].ts \/ new.ts["worker"] = "none",
           new.status = "Online" => hyp[h].status = "Online",
           hyp[h].present => new.ts = hyp[h].ts,
           ~hyp[h].present => new.status = "Offline" /\ new.ts["worker"] = "none"
    PROVE  LaunchParts'
<1>1. /\ hyp' = [hyp EXCEPT ![h] = new] /\ hyp[h] \in HypRow
      /\ feed' = feed \o Reaction(h, hyp[h], new) \/ feed' = feed
      /\ UNCHANGED <<qActions, orch, reg, pc, stop, queue, faults>>
  BY DEF Write, threadVars, TypeOK
<1>2. \A i \in Hyps : hyp'[i] = IF i = h THEN new ELSE hyp[i]
  BY <1>1 DEF TypeOK
<1>3. NothingEnables'
  <2>1. \/ Reaction(h, hyp[h], new) = <<>>
        \/ Reaction(h, hyp[h], new) = <<NewAction("disable_hyper", h, new)>>
        \/ Reaction(h, hyp[h], new) = <<NewAction("delete", h, new)>>
    BY DEF Reaction
  <2>2. ASSUME NEW a, a.type \in {"disable_hyper", "delete"}, feed' = feed \o <<a>>
        PROVE  \A i \in DOMAIN feed' : feed'[i].type \in {"disable_hyper", "delete"}
    BY <2>2 DEF LaunchParts, NothingEnables, TypeOK
  <2>3. \A i \in DOMAIN feed' : feed'[i].type \in {"disable_hyper", "delete"}
    <3>1. NewAction("disable_hyper", h, new).type = "disable_hyper"
      BY DEF NewAction
    <3>2. NewAction("delete", h, new).type = "delete"
      BY DEF NewAction
    <3>3. CASE feed' = feed \/ feed' = feed \o <<>>
      <4>1. feed' = feed
        BY <3>3 DEF TypeOK
      <4> QED
        BY <4>1 DEF LaunchParts, NothingEnables
    <3>4. CASE feed' = feed \o <<NewAction("disable_hyper", h, new)>>
      BY <2>2, <3>1, <3>4
    <3>5. CASE feed' = feed \o <<NewAction("delete", h, new)>>
      BY <2>2, <3>2, <3>5
    <3> QED
      BY <1>1, <2>1, <3>3, <3>4, <3>5
  <2> QED
    BY <1>1, <2>3 DEF LaunchParts, NothingEnables
<1>4. RunningIsRegistered' /\ OneRegistered'
  BY <1>1 DEF LaunchParts, RunningIsRegistered, OneRegistered
<1>5. StoppedIsForgotten'
  BY <1>1, <1>2 DEF LaunchParts, StoppedIsForgotten, Registered
<1>6. ReportsAreTrue'
  BY <1>1 DEF LaunchParts, ReportsAreTrue, Registered
<1>7. StartedIsRegistered'
  BY <1>1, <1>2 DEF LaunchParts, StartedIsRegistered, HasStartedWorker, Registered
<1> QED
  BY <1>3, <1>4, <1>5, <1>6, <1>7 DEF LaunchParts

LEMMA AdministratorInv ==
    ASSUME TypeOK, LaunchParts, NoEnabling, AdministratorNext
    PROVE  LaunchParts'
<1>1. CASE EngineRestart
  BY <1>1, FreshEngineInv DEF EngineRestart, TypeOK
<1>2. ASSUME NEW h \in Hyps, DisableHyper(h) \/ RemoveHyper(h)
      PROVE  LaunchParts'
  <2> DEFINE d == [hyp[h] EXCEPT !.enabled = FALSE]
             r == [hyp[h] EXCEPT !.enabled = FALSE, !.status = "Deleting"]
  <2>1. hyp[h] \in HypRow
    BY DEF TypeOK
  <2>2. d \in HypRow /\ ~d.enabled /\ d.status = hyp[h].status /\ d.ts = hyp[h].ts /\ d.present = hyp[h].present
    BY <2>1 DEF HypRow
  <2>3. r \in HypRow /\ ~r.enabled /\ r.status = "Deleting" /\ r.ts = hyp[h].ts /\ r.present = hyp[h].present
    BY <2>1 DEF HypRow, HypStatus
  <2>4. (Write(h, d) \/ Write(h, r)) /\ hyp[h].present
    BY <1>2 DEF DisableHyper, RemoveHyper
  <2> HIDE DEF d, r
  <2> QED
    BY <2>2, <2>3, <2>4, WriteInv
<1>3. ASSUME NEW h \in Hyps, NEW e \in BOOLEAN, InsertHyper(h, e)
      PROVE  LaunchParts'
  <2> DEFINE n == [NoRow EXCEPT !.present = TRUE, !.enabled = e]
  <2>1. ~e
    BY <1>3 DEF InsertHyper, Administrator, NoEnabling
  <2>2. n \in HypRow /\ n.present /\ ~n.enabled /\ n.status = "Offline" /\ n.ts["worker"] = "none"
    BY <2>1 DEF NoRow, HypRow, HypStatus, ThreadStatus, Kinds
  <2>3. Write(h, n) /\ ~hyp[h].present
    BY <1>3 DEF InsertHyper
  <2> HIDE DEF n
  <2> QED
    BY <2>2, <2>3, WriteInv
<1>4. ASSUME NEW h \in Hyps, ApiEnableHyper(h)
      PROVE  LaunchParts'
  <2>1. [hyp EXCEPT ![h].enabled = TRUE] \in [Hyps -> HypRow]
    BY DEF TypeOK, HypRow
  <2> QED
    BY <1>4, <2>1, FreshEngineInv DEF ApiEnableHyper
<1>5. ASSUME NEW h \in Hyps, RegisterHyper(h)
      PROVE  LaunchParts'
  <2> DEFINE written == [hyp EXCEPT ![h].status = "Offline"]
  <2>1. hyp[h] \in HypRow /\ hyp[h].present
    BY <1>5 DEF TypeOK, RegisterHyper
  <2>2. written \in [Hyps -> HypRow]
    BY DEF TypeOK, HypRow, HypStatus
  <2>3. /\ written[h] \in HypRow
        /\ written[h].present = hyp[h].present /\ written[h].enabled = hyp[h].enabled
        /\ written[h].ts = hyp[h].ts /\ written[h].status = "Offline"
    BY <2>1, <2>2 DEF TypeOK, HypRow
  <2>4. FreshEngine(written) \/ Write(h, written[h]) \/ Write(h, hyp[h])
    BY <1>5 DEF RegisterHyper
  <2> HIDE DEF written
  <2>5. CASE FreshEngine(written)
    BY <2>2, <2>5, FreshEngineInv
  <2>6. CASE Write(h, written[h])
    BY <2>1, <2>3, <2>6, WriteInv
  <2>7. CASE Write(h, hyp[h])
    BY <2>1, <2>7, WriteInv
  <2> QED
    BY <2>4, <2>5, <2>6, <2>7
<1>6. ~\E h \in Hyps : EnableHyper(h)
  BY DEF EnableHyper, Administrator, NoEnabling
<1> QED
  BY <1>1, <1>2, <1>3, <1>4, <1>5, <1>6 DEF AdministratorNext

\* What is on a queue after something was appended.
LEMMA Appended ==
    ASSUME NEW S, NEW s \in Seq(S), NEW e \in S
    PROVE  \A i \in DOMAIN Append(s, e) :
             (i \in DOMAIN s /\ Append(s, e)[i] = s[i]) \/ Append(s, e)[i] = e
BY AppendProperties, LenProperties

LEMMA ChangesInv ==
    ASSUME TypeOK, LaunchParts, ChangesThread
    PROVE  LaunchParts'
<1> DEFINE c == Head(feed)
<1>1. /\ c \in Action /\ c.hyp \in Hyps
      /\ c.type \in {"disable_hyper", "delete"}
      /\ feed \in Seq(Action) /\ qActions \in Seq(Action) /\ feed' = Tail(feed) /\ feed # <<>>
  <2>1. feed \in Seq(Action) /\ qActions \in Seq(Action) /\ feed' = Tail(feed) /\ feed # <<>>
    BY DEF ChangesThread, TypeOK
  <2>2. c = feed[1] /\ 1 \in DOMAIN feed /\ c \in Action
    BY <2>1
  <2>3. c.type \in {"disable_hyper", "delete"}
    BY <2>2 DEF LaunchParts, NothingEnables
  <2> HIDE DEF c
  <2> QED
    BY <2>1, <2>2, <2>3 DEF Action
<1>2. UNCHANGED <<orch, reg, pc, stop, queue>>
  BY DEF ChangesThread, threadVars
<1>3. qActions' = qActions \/ (qActions' = Append(qActions, c) /\ c.type = "disable_hyper")
  BY <1>1 DEF ChangesThread
<1>4. \A i \in Hyps : hyp'[i] = hyp[i] \/ hyp'[i] = NoRow
  BY DEF ChangesThread, TypeOK
<1> HIDE DEF c
<1>grows. \A i \in DOMAIN qActions' :
            (i \in DOMAIN qActions /\ qActions'[i] = qActions[i])
            \/ qActions'[i].type = "disable_hyper"
  <2>1. CASE qActions' = qActions
    BY <2>1
  <2>2. CASE qActions' = Append(qActions, c) /\ c.type = "disable_hyper"
    BY <1>1, <2>2, Appended
  <2> QED
    BY <1>3, <2>1, <2>2
<1>5. NothingEnables'
  <2>1. \A i \in DOMAIN feed' : feed'[i].type \in {"disable_hyper", "delete"}
    <3>1. \A i \in DOMAIN Tail(feed) : i + 1 \in DOMAIN feed /\ Tail(feed)[i] = feed[i + 1]
      BY <1>1
    <3> QED
      BY <1>1, <3>1 DEF LaunchParts, NothingEnables
  <2> QED
    BY <2>1, <1>grows DEF LaunchParts, NothingEnables
<1>6. RunningIsRegistered' /\ OneRegistered'
  BY <1>2 DEF LaunchParts, RunningIsRegistered, OneRegistered
<1>7. StoppedIsForgotten'
  BY <1>2, <1>4 DEF LaunchParts, StoppedIsForgotten, Registered, NoRow
<1>8. ReportsAreTrue'
  <2>1. \A i \in DOMAIN qActions', k \in Kinds, h \in Hyps :
          IsDead(qActions'[i], k, h) => i \in DOMAIN qActions /\ qActions'[i] = qActions[i]
    <3>1. \A k \in Kinds : DeadType[k] # "disable_hyper"
      BY DeadTypes
    <3>2. \A a, k, h : IsDead(a, k, h) => a.type = DeadType[k]
      BY DEF IsDead
    <3> QED
      BY <1>grows, <3>1, <3>2
  <2> QED
    BY <1>2, <2>1 DEF LaunchParts, ReportsAreTrue, Registered
<1>9. StartedIsRegistered'
  BY <1>2, <1>4 DEF LaunchParts, StartedIsRegistered, HasStartedWorker, Registered, NoRow, Kinds
<1> QED
  BY <1>5, <1>6, <1>7, <1>8, <1>9 DEF LaunchParts

\* What the rewriting of a row does to each field.
LEMMA StartingFields ==
    ASSUME NEW row \in HypRow, NEW kinds \in SUBSET Kinds
    PROVE  /\ Starting(row, kinds).present = row.present
           /\ Starting(row, kinds).enabled = row.enabled
           /\ \A k \in Kinds :
                Starting(row, kinds).ts[k] = IF k \in kinds THEN "Starting" ELSE row.ts[k]
           /\ Starting(row, kinds).status = "Online" => row.status = "Online"
<1>1. Starting(row, kinds).ts = [k \in Kinds |-> IF k \in kinds THEN "Starting" ELSE row.ts[k]]
  BY DEF Starting, HypRow
<1>2. /\ Starting(row, kinds).present = row.present
      /\ Starting(row, kinds).enabled = row.enabled
  BY DEF Starting, HypRow
<1>3. Starting(row, kinds).status =
        IF row.status = "Online" /\ kinds # {} THEN "Offline" ELSE row.status
  BY DEF Starting, HypRow
<1> QED
  BY <1>1, <1>2, <1>3

LEMMA NotStartedFields ==
    ASSUME NEW row \in HypRow, NEW caps, NEW k \in Kinds, NEW s \in ThreadStatus
    PROVE  LET new == ThreadNotStarted(row, caps, k, s)
           IN  \/ ~new.present
               \/ /\ new.present = row.present
                  /\ new.enabled = row.enabled
                  /\ \A j \in Kinds : new.ts[j] = IF j = k THEN s ELSE row.ts[j]
                  /\ new.status # "Online"
<1> DEFINE updated == [row EXCEPT !.ts[k] = s]
           off == [updated EXCEPT !.status = "Offline"]
           new == ThreadNotStarted(row, caps, k, s)
<1>1. /\ updated.present = row.present /\ updated.enabled = row.enabled
      /\ updated.status = row.status /\ updated \in HypRow
      /\ \A j \in Kinds : updated.ts[j] = IF j = k THEN s ELSE row.ts[j]
  BY DEF HypRow
<1>2. \/ new = off
      \/ new = NoRow
      \/ row.status # "Online" /\ new = updated
  BY DEF ThreadNotStarted, UpdateHypStatus
<1>3. ~NoRow.present
  BY DEF NoRow
<1>4. /\ off.present = updated.present /\ off.enabled = updated.enabled
      /\ off.ts = updated.ts /\ off.status = "Offline"
  BY <1>1 DEF HypRow
<1> HIDE DEF updated, off
<1>5. CASE new = off
  BY <1>1, <1>4, <1>5
<1>6. CASE new = NoRow
  BY <1>3, <1>6
<1>7. CASE row.status # "Online" /\ new = updated
  BY <1>1, <1>7
<1> QED
  BY <1>2, <1>5, <1>6, <1>7

\* A launch for slots in which nothing is registered.
LEMMA LaunchKeeps ==
    ASSUME TypeOK, LaunchParts, NEW launch \in [Hyps -> SUBSET Kinds], Launch(launch),
           UNCHANGED <<feed, qActions>>,
           \A h \in Hyps : \A k \in launch[h] : Registered(k, h) = {}
    PROVE  LaunchParts'
<1> DEFINE F == {t \in Thread : t.kind \in launch[t.hyp] /\ t = Fresh(t.kind, t.hyp)}
<1>1. reg' = reg \cup F /\ reg \cap F = {} /\ reg \subseteq Thread
  <2>1. \A t \in reg : t \in Thread /\ t.kind \notin launch[t.hyp]
    BY RegisteredMember DEF TypeOK, Thread
  <2>2. reg' = {t \in reg : t.kind \notin launch[t.hyp]} \cup F
    BY DEF Launch
  <2> QED
    BY <2>1, <2>2
<1>2. \A t \in Thread : pc'[t] = IF t \in F THEN "connecting" ELSE pc[t]
  BY DEF Launch
<1>3. \A t, u \in F : t.kind = u.kind /\ t.hyp = u.hyp => t = u
  OBVIOUS
<1>4. \A t \in F : t \in Thread /\ t.kind \in launch[t.hyp] /\ t.kind \in Kinds /\ t.hyp \in Hyps
  BY DEF Thread
<1>5. \A t \in F, u \in reg : ~(t.kind = u.kind /\ t.hyp = u.hyp)
  BY <1>1, <1>4, RegisteredMember
<1>6. \A h \in Hyps : hyp'[h] = Starting(hyp[h], launch[h]) /\ hyp[h] \in HypRow
  BY DEF Launch, TypeOK
<1>7. ASSUME NEW h \in Hyps
      PROVE  /\ hyp'[h].present = hyp[h].present /\ hyp'[h].enabled = hyp[h].enabled
             /\ \A k \in Kinds : hyp'[h].ts[k] = IF k \in launch[h] THEN "Starting" ELSE hyp[h].ts[k]
             /\ hyp'[h].status = "Online" => hyp[h].status = "Online"
  BY <1>6, StartingFields
<1> HIDE DEF F
<1>8. NothingEnables'
  BY DEF LaunchParts, NothingEnables
<1>9. RunningIsRegistered'
  BY <1>1, <1>2 DEF LaunchParts, RunningIsRegistered
<1>10. OneRegistered'
  BY <1>1, <1>3, <1>5 DEF LaunchParts, OneRegistered
<1>11. StoppedIsForgotten'
  <2> SUFFICES ASSUME NEW h \in Hyps, NEW k \in Kinds,
                      hyp'[h].present, hyp'[h].enabled, MayLaunch(hyp'[h].ts, k)
               PROVE  Registered(k, h)' = {}
    BY DEF StoppedIsForgotten
  <2>1. k \notin launch[h] /\ MayLaunch(hyp[h].ts, k)
    BY <1>7 DEF MayLaunch
  <2>2. Registered(k, h) = {}
    BY <1>7, <2>1 DEF LaunchParts, StoppedIsForgotten
  <2> QED
    BY <1>1, <1>4, <2>1, <2>2 DEF Registered, Threads
<1>12. ReportsAreTrue'
  <2>1. \A k \in Kinds, h \in Hyps : \A t \in Registered(k, h) :
          t \in Registered(k, h)' /\ pc'[t] = pc[t]
    BY <1>1, <1>2 DEF Registered
  <2> QED
    BY <2>1 DEF LaunchParts, ReportsAreTrue
<1>13. StartedIsRegistered'
  <2> SUFFICES ASSUME NEW h \in Hyps, hyp'[h].present,
                      \/ hyp'[h].ts["worker"] = "Started"
                      \/ hyp'[h].status = "Online" /\ "hypervisor" \in Caps[h]
               PROVE  HasStartedWorker(h)'
    BY DEF StartedIsRegistered
  <2>1. "worker" \in Kinds
    BY DEF Kinds
  <2>2. HasStartedWorker(h)
    BY <1>7, <2>1 DEF LaunchParts, StartedIsRegistered
  <2>3. PICK t \in Registered("worker", h) : pc[t] \in {"kvm", "loop", "tail", "crashed"}
    BY <2>2 DEF HasStartedWorker
  <2>4. t \in Registered("worker", h)' /\ pc'[t] = pc[t]
    BY <1>1, <1>2 DEF Registered
  <2> QED
    BY <2>3, <2>4 DEF HasStartedWorker
<1> QED
  BY <1>8, <1>9, <1>10, <1>11, <1>12, <1>13 DEF LaunchParts

LEMMA PollInv ==
    ASSUME TypeOK, LaunchParts, OrchestratorPoll
    PROVE  LaunchParts'
<1> DEFINE launch == [h \in Hyps |->
       IF hyp[h].present /\ hyp[h].enabled /\ Startable(hyp[h])
       THEN ToLaunch(h, hyp[h].ts) ELSE {}]
<1>1. launch \in [Hyps -> SUBSET Kinds]
  BY ToLaunchType DEF TypeOK, HypRow
<1>2. Launch(launch) /\ UNCHANGED <<feed, qActions>>
  BY DEF OrchestratorPoll
<1>3. ASSUME NEW h \in Hyps, NEW k \in launch[h]
      PROVE  Registered(k, h) = {}
  <2>1. hyp[h].present /\ hyp[h].enabled /\ k \in ToLaunch(h, hyp[h].ts)
    BY <1>3
  <2>2. k \in Kinds /\ MayLaunch(hyp[h].ts, k)
    BY <2>1 DEF ToLaunch, KindsOf, Kinds
  <2> QED
    BY <2>1, <2>2 DEF LaunchParts, StoppedIsForgotten
<1> HIDE DEF launch
<1> QED
  BY <1>1, <1>2, <1>3, LaunchKeeps

\* The queue of the orchestrator after an action was taken.
LEMMA Taken ==
    ASSUME TypeOK, NEW T, Take(T)
    PROVE  /\ 1 \in DOMAIN qActions /\ Head(qActions) = qActions[1]
           /\ \A i \in DOMAIN qActions' :
                i + 1 \in DOMAIN qActions /\ qActions'[i] = qActions[i + 1] /\ i + 1 # 1
           /\ \A i, j \in DOMAIN qActions' : i + 1 = j + 1 => i = j
           /\ feed' = feed
<1>1. qActions \in Seq(Action) /\ qActions # <<>> /\ qActions' = Tail(qActions) /\ feed' = feed
  BY DEF TypeOK, Take
<1> QED
  BY <1>1

LEMMA TakenKeeps ==
    ASSUME TypeOK, LaunchParts, NEW T, Take(T), UNCHANGED <<reg, pc>>
    PROVE  NothingEnables' /\ RunningIsRegistered' /\ OneRegistered' /\ ReportsAreTrue'
<1>1. NothingEnables'
  BY Taken DEF LaunchParts, NothingEnables
<1>2. RunningIsRegistered' /\ OneRegistered'
  BY DEF LaunchParts, RunningIsRegistered, OneRegistered
<1>3. ReportsAreTrue'
  BY Taken DEF LaunchParts, ReportsAreTrue, Registered
<1> QED
  BY <1>1, <1>2, <1>3

\* Rows that only lose what the invariant speaks about.
LEMMA RowsKeep ==
    ASSUME LaunchParts, UNCHANGED <<reg, pc>>,
           \A h \in Hyps :
               /\ hyp'[h].present => hyp[h].present
               /\ hyp'[h].enabled => hyp[h].enabled
               /\ hyp'[h].status = "Online" => hyp[h].status = "Online"
               /\ \A k \in Kinds : hyp'[h].ts[k] \in {hyp[h].ts[k], "Stopping"}
    PROVE  StoppedIsForgotten' /\ StartedIsRegistered'
<1>1. StoppedIsForgotten'
  BY DEF LaunchParts, StoppedIsForgotten, MayLaunch, Registered
<1>2. StartedIsRegistered'
  BY DEF LaunchParts, StartedIsRegistered, HasStartedWorker, Registered, Kinds
<1> QED
  BY <1>1, <1>2

LEMMA DisableInv ==
    ASSUME TypeOK, LaunchParts, OrchestratorDisable
    PROVE  LaunchParts'
<1> DEFINE h == Head(qActions).hyp
<1>1. Take({"disable_hyper"}) /\ UNCHANGED <<reg, pc>> /\ h \in Hyps
  BY TakeType DEF OrchestratorDisable, threadVars
<1>2. hyp' = hyp \/ \E kinds, was : hyp' = [hyp EXCEPT ![h] = Stopping(@, kinds, was)]
  BY DEF OrchestratorDisable
<1>3. ASSUME NEW kinds, NEW was, NEW row \in HypRow
      PROVE  LET new == Stopping(row, kinds, was)
             IN  /\ new.present = row.present /\ new.enabled = row.enabled
                 /\ new.status = "Online" => row.status = "Online"
                 /\ \A k \in Kinds : new.ts[k] \in {row.ts[k], "Stopping"}
  BY DEF Stopping, UpdateHypStatus, HypRow
<1> HIDE DEF h
<1>4. \A i \in Hyps :
        /\ hyp'[i].present => hyp[i].present
        /\ hyp'[i].enabled => hyp[i].enabled
        /\ hyp'[i].status = "Online" => hyp[i].status = "Online"
        /\ \A k \in Kinds : hyp'[i].ts[k] \in {hyp[i].ts[k], "Stopping"}
  <2> SUFFICES ASSUME NEW i \in Hyps
               PROVE  /\ hyp'[i].present => hyp[i].present
                      /\ hyp'[i].enabled => hyp[i].enabled
                      /\ hyp'[i].status = "Online" => hyp[i].status = "Online"
                      /\ \A k \in Kinds : hyp'[i].ts[k] \in {hyp[i].ts[k], "Stopping"}
    OBVIOUS
  <2>1. hyp \in [Hyps -> HypRow] /\ hyp[i] \in HypRow
    BY DEF TypeOK
  <2>2. CASE hyp'[i] = hyp[i]
    BY <2>2
  <2>3. CASE hyp'[i] # hyp[i]
    <3>1. PICK kinds, was : hyp' = [hyp EXCEPT ![h] = Stopping(@, kinds, was)]
      BY <1>2, <2>3
    <3>2. hyp'[i] = Stopping(hyp[i], kinds, was)
      BY <1>1, <2>1, <2>3, <3>1
    <3> QED
      BY <1>3, <2>1, <3>2
  <2> QED
    BY <2>2, <2>3
<1> QED
  BY <1>1, <1>4, TakenKeeps, RowsKeep DEF LaunchParts

LEMMA DeadInv ==
    ASSUME TypeOK, LaunchParts, NEW k \in Kinds, OrchestratorThreadDead(k)
    PROVE  LaunchParts'
<1>0. PICK h \in Hyps : h = Head(qActions).hyp
  BY TakeType DEF OrchestratorThreadDead
<1>1. Take({DeadType[k]}) /\ IsDead(Head(qActions), k, h)
  BY <1>0 DEF OrchestratorThreadDead, Take, IsDead
<1>2. CASE OrchestratorDies /\ UNCHANGED hyp
  <2>1. UNCHANGED <<reg, pc, hyp>>
    BY <1>2 DEF OrchestratorDies, threadVars
  <2> QED
    BY <1>1, <2>1, TakenKeeps, RowsKeep DEF LaunchParts
<1>3. CASE /\ reg' = reg \ Registered(k, h) /\ UNCHANGED pc
           /\ \/ hyp' = [hyp EXCEPT ![h] = ThreadNotStarted(@, Caps[h], k, "Stopped")]
              \/ UNCHANGED hyp /\ (~hyp[h].present \/ Registered(k, h) = {})
  <2>1. PICK u \in Registered(k, h) : pc[u] = "done"
    BY <1>1, Taken DEF LaunchParts, ReportsAreTrue
  <2>2. \A t \in Registered(k, h) : t = u
    BY <2>1, RegisteredMember DEF LaunchParts, OneRegistered
  <2>3. \A j \in Kinds, i \in Hyps : ~(j = k /\ i = h) => Registered(j, i)' = Registered(j, i)
    <3> SUFFICES ASSUME NEW j \in Kinds, NEW i \in Hyps, ~(j = k /\ i = h), NEW t
                 PROVE  t \in Registered(j, i)' <=> t \in Registered(j, i)
      OBVIOUS
    <3>1. t \in Threads(j, i) => t \notin Registered(k, h)
      BY DEF Registered, Threads
    <3> QED
      BY <1>3, <3>1 DEF Registered
  <2>4. Registered(k, h)' = {}
    BY <1>3 DEF Registered
  <2>5. \A i \in Hyps : i # h => hyp'[i] = hyp[i]
    BY <1>3 DEF TypeOK
  <2>6. \/ ~hyp'[h].present
        \/ /\ hyp'[h].present = hyp[h].present
           /\ hyp'[h].enabled = hyp[h].enabled
           /\ \A j \in Kinds : hyp'[h].ts[j] = IF j = k THEN "Stopped" ELSE hyp[h].ts[j]
           /\ hyp'[h].status # "Online"
    <3>1. hyp[h] \in HypRow
      BY <1>1 DEF TypeOK
    <3>2. CASE hyp' = [hyp EXCEPT ![h] = ThreadNotStarted(@, Caps[h], k, "Stopped")]
      <4>1. hyp'[h] = ThreadNotStarted(hyp[h], Caps[h], k, "Stopped")
        BY <1>1, <3>2 DEF TypeOK
      <4> QED
        BY <3>1, <4>1, NotStartedFields DEF ThreadStatus
    <3> QED
      BY <1>3, <2>1, <3>2
  <2>7. NothingEnables'
    BY <1>1, Taken DEF LaunchParts, NothingEnables
  <2>8. RunningIsRegistered' /\ OneRegistered'
    BY <1>3, <2>1, <2>2 DEF LaunchParts, RunningIsRegistered, OneRegistered, Alive
  <2>9. StoppedIsForgotten'
    <3> SUFFICES ASSUME NEW i \in Hyps, NEW j \in Kinds,
                        hyp'[i].present, hyp'[i].enabled, MayLaunch(hyp'[i].ts, j)
                 PROVE  Registered(j, i)' = {}
      BY DEF StoppedIsForgotten
    <3>1. CASE j = k /\ i = h
      BY <2>4, <3>1
    <3>2. CASE ~(j = k /\ i = h)
      <4>1. hyp[i].present /\ hyp[i].enabled /\ MayLaunch(hyp[i].ts, j)
        BY <2>5, <2>6, <3>2 DEF MayLaunch
      <4> QED
        BY <2>3, <3>2, <4>1 DEF LaunchParts, StoppedIsForgotten
    <3> QED
      BY <3>1, <3>2
  <2>10. ReportsAreTrue'
    <3>1. \A i \in DOMAIN qActions' : ~IsDead(qActions'[i], k, h)
      BY <1>1, Taken DEF LaunchParts, ReportsAreTrue
    <3>2. ASSUME NEW i \in DOMAIN qActions', NEW j \in Kinds, NEW g \in Hyps,
                 IsDead(qActions'[i], j, g)
          PROVE  \E t \in Registered(j, g)' : pc'[t] = "done"
      <4>1. ~(j = k /\ g = h)
        BY <3>1, <3>2
      <4>2. \E t \in Registered(j, g) : pc[t] = "done"
        BY <1>1, <3>2, Taken DEF LaunchParts, ReportsAreTrue
      <4> QED
        BY <1>3, <2>3, <4>1, <4>2
    <3>3. \A i, m \in DOMAIN qActions', j \in Kinds, g \in Hyps :
            IsDead(qActions'[i], j, g) /\ IsDead(qActions'[m], j, g) => i = m
      BY <1>1, Taken DEF LaunchParts, ReportsAreTrue
    <3> QED
      BY <3>2, <3>3 DEF ReportsAreTrue
  <2>11. StartedIsRegistered'
    <3> SUFFICES ASSUME NEW i \in Hyps, hyp'[i].present,
                        \/ hyp'[i].ts["worker"] = "Started"
                        \/ hyp'[i].status = "Online" /\ "hypervisor" \in Caps[i]
                 PROVE  HasStartedWorker(i)'
      BY DEF StartedIsRegistered
    <3>1. "worker" \in Kinds
      BY DEF Kinds
    <3>2. ~("worker" = k /\ i = h)
      BY <2>6, <3>1
    <3>3. HasStartedWorker(i)
      BY <2>5, <2>6, <3>1, <3>2 DEF LaunchParts, StartedIsRegistered
    <3> QED
      BY <1>3, <2>3, <3>1, <3>2, <3>3 DEF HasStartedWorker
  <2> QED
    BY <2>7, <2>8, <2>9, <2>10, <2>11 DEF LaunchParts
<1> QED
  BY <1>0, <1>2, <1>3 DEF OrchestratorThreadDead

LEMMA OrchestratorInv ==
    ASSUME TypeOK, LaunchParts, OrchestratorNext
    PROVE  LaunchParts'
<1>1. ~OrchestratorEnable
  <2> SUFFICES ASSUME OrchestratorEnable PROVE FALSE
    OBVIOUS
  <2>1. Take({"enable_hyper"}) /\ Head(qActions).type = "enable_hyper"
    BY DEF OrchestratorEnable, Take
  <2> QED
    BY <2>1, Taken, DeadTypes DEF LaunchParts, NothingEnables
<1> QED
  BY <1>1, PollInv, DisableInv, DeadInv DEF OrchestratorNext

LEMMA StartedFields ==
    ASSUME NEW row \in HypRow, NEW caps, NEW k \in Kinds
    PROVE  LET new == ThreadStarted(row, caps, k)
           IN  /\ new.present = row.present /\ new.enabled = row.enabled
               /\ \A j \in Kinds : new.ts[j] = IF j = k THEN "Started" ELSE row.ts[j]
               /\ new.status = "Online" =>
                    row.status = "Online" \/ \A j \in KindsOf(caps) : new.ts[j] = "Started"
<1> DEFINE started == [row EXCEPT !.ts[k] = "Started"]
           online == [started EXCEPT !.status = "Online"]
           new == ThreadStarted(row, caps, k)
<1>1. /\ started.present = row.present /\ started.enabled = row.enabled
      /\ started.status = row.status /\ started \in HypRow
      /\ \A j \in Kinds : started.ts[j] = IF j = k THEN "Started" ELSE row.ts[j]
  BY DEF HypRow, ThreadStatus
<1>2. \/ new = online /\ \A j \in KindsOf(caps) : started.ts[j] = "Started"
      \/ new = started
  BY DEF ThreadStarted, UpdateHypStatus
<1>3. /\ online.present = started.present /\ online.enabled = started.enabled
      /\ online.ts = started.ts
  BY <1>1 DEF HypRow
<1> HIDE DEF started, online
<1>4. CASE new = online /\ \A j \in KindsOf(caps) : started.ts[j] = "Started"
  BY <1>1, <1>3, <1>4
<1>5. CASE new = started
  BY <1>1, <1>5
<1> QED
  BY <1>2, <1>4, <1>5

LEMMA StatusFields ==
    ASSUME NEW row \in HypRow, NEW s
    PROVE  LET new == UpdateHypStatus(row, s)
           IN  /\ new.present = row.present /\ new.enabled = row.enabled
               /\ new.ts = row.ts /\ new.status = s
BY DEF UpdateHypStatus, HypRow

\* The hypervisors StartedIsRegistered speaks about.
NeedsWorker(row, caps) ==
    /\ row.present
    /\ row.ts["worker"] = "Started" \/ (row.status = "Online" /\ "hypervisor" \in caps)

\* A step of a registered thread that does not report its death.
LEMMA QuietStep ==
    ASSUME TypeOK, LaunchParts, NEW t \in Thread, t \in reg, pc[t] # "done",
           NEW to \in PC, pc' = [pc EXCEPT ![t] = to], UNCHANGED <<feed, qActions, reg>>,
           pc[t] \in {"kvm", "loop", "tail", "crashed"} => to \in {"kvm", "loop", "tail", "crashed"},
           NEW row \in HypRow, hyp' = [hyp EXCEPT ![t.hyp] = row],
           row.present = hyp[t.hyp].present, row.enabled = hyp[t.hyp].enabled,
           \A k \in Kinds : row.ts[k] \in {hyp[t.hyp].ts[k], "Started"},
           \/ NeedsWorker(row, Caps[t.hyp]) => NeedsWorker(hyp[t.hyp], Caps[t.hyp])
           \/ t.kind = "worker" /\ to \in {"kvm", "loop", "tail", "crashed"}
    PROVE  LaunchParts'
<1>1. t.kind \in Kinds /\ t.hyp \in Hyps
  BY DEF Thread
<1>2. \A u \in Thread : pc'[u] = IF u = t THEN to ELSE pc[u]
  BY DEF TypeOK
<1>3. \A h \in Hyps : hyp'[h] = IF h = t.hyp THEN row ELSE hyp[h]
  BY DEF TypeOK
<1>4. \A u \in reg : u \in Thread
  BY DEF TypeOK
<1>5. NothingEnables' /\ OneRegistered'
  BY DEF LaunchParts, NothingEnables, OneRegistered
<1>6. RunningIsRegistered'
  BY <1>2 DEF LaunchParts, RunningIsRegistered
<1>7. StoppedIsForgotten'
  <2> SUFFICES ASSUME NEW h \in Hyps, NEW k \in Kinds,
                      hyp'[h].present, hyp'[h].enabled, MayLaunch(hyp'[h].ts, k)
               PROVE  Registered(k, h) = {}
    BY DEF StoppedIsForgotten, Registered
  <2>1. hyp[h].present /\ hyp[h].enabled /\ MayLaunch(hyp[h].ts, k)
    BY <1>3 DEF MayLaunch
  <2> QED
    BY <2>1 DEF LaunchParts, StoppedIsForgotten
<1>8. ReportsAreTrue'
  <2>1. \A k \in Kinds, h \in Hyps : \A u \in Registered(k, h) : pc[u] = "done" => pc'[u] = "done"
    BY <1>2, <1>4 DEF Registered
  <2> QED
    BY <2>1 DEF LaunchParts, ReportsAreTrue, Registered
<1>9. StartedIsRegistered'
  <2> SUFFICES ASSUME NEW h \in Hyps, NeedsWorker(hyp'[h], Caps[h])
               PROVE  HasStartedWorker(h)'
    BY DEF StartedIsRegistered, NeedsWorker
  <2>1. CASE NeedsWorker(hyp[h], Caps[h])
    <3>1. PICK u \in Registered("worker", h) : pc[u] \in {"kvm", "loop", "tail", "crashed"}
      BY <2>1 DEF LaunchParts, StartedIsRegistered, NeedsWorker, HasStartedWorker
    <3>2. pc'[u] \in {"kvm", "loop", "tail", "crashed"}
      BY <1>2, <1>4, <3>1 DEF Registered
    <3> QED
      BY <3>1, <3>2 DEF HasStartedWorker, Registered
  <2>2. CASE h = t.hyp /\ t.kind = "worker" /\ to \in {"kvm", "loop", "tail", "crashed"}
    <3>1. t \in Registered("worker", h) /\ pc'[t] = to
      BY <1>2, <2>2, RegisteredMember
    <3> QED
      BY <2>2, <3>1 DEF HasStartedWorker, Registered
  <2> QED
    BY <1>3, <2>1, <2>2
<1> QED
  BY <1>5, <1>6, <1>7, <1>8, <1>9 DEF LaunchParts

\* A step that leaves the rows alone, and one that writes the status.
LEMMA QuietStepSameRow ==
    ASSUME TypeOK, LaunchParts, NEW t \in Thread, pc[t] \in Alive,
           NEW to \in PC, pc' = [pc EXCEPT ![t] = to], UNCHANGED <<feed, qActions, reg>>,
           pc[t] \in {"kvm", "loop", "tail", "crashed"} => to \in {"kvm", "loop", "tail", "crashed"},
           UNCHANGED hyp \/ \E s \in HypStatus \ {"Online"} :
                               hyp' = [hyp EXCEPT ![t.hyp] = UpdateHypStatus(@, s)]
    PROVE  LaunchParts'
<1>1. t \in reg /\ pc[t] # "done" /\ t.hyp \in Hyps /\ hyp[t.hyp] \in HypRow
  BY DEF LaunchParts, RunningIsRegistered, TypeOK, Thread, Alive
<1>2. CASE UNCHANGED hyp
  <2>1. hyp' = [hyp EXCEPT ![t.hyp] = hyp[t.hyp]]
    BY <1>2 DEF TypeOK
  <2> QED
    BY <1>1, <2>1, QuietStep
<1>3. ASSUME NEW s \in HypStatus \ {"Online"}, hyp' = [hyp EXCEPT ![t.hyp] = UpdateHypStatus(@, s)]
      PROVE  LaunchParts'
  <2> DEFINE row == UpdateHypStatus(hyp[t.hyp], s)
  <2>1. row \in HypRow
    BY <1>1, <1>3, RowTypes
  <2>2. row.present = hyp[t.hyp].present /\ row.enabled = hyp[t.hyp].enabled
        /\ row.ts = hyp[t.hyp].ts /\ row.status = s
    BY <1>1, StatusFields
  <2>3. NeedsWorker(row, Caps[t.hyp]) => NeedsWorker(hyp[t.hyp], Caps[t.hyp])
    BY <1>3, <2>2 DEF NeedsWorker
  <2>4. hyp' = [hyp EXCEPT ![t.hyp] = row]
    BY <1>3
  <2> HIDE DEF row
  <2> QED
    BY <1>1, <2>1, <2>2, <2>3, <2>4, QuietStep
<1> QED
  BY <1>2, <1>3

\* A thread whose status becomes Started.
LEMMA StartedInv ==
    ASSUME TypeOK, LaunchParts, NEW t \in Thread, pc[t] = "connecting",
           NEW to \in {"kvm", "loop"}, pc' = [pc EXCEPT ![t] = to], UNCHANGED <<feed, qActions, reg>>,
           hyp' = [hyp EXCEPT ![t.hyp] = ThreadStarted(@, Caps[t.hyp], t.kind)]
    PROVE  LaunchParts'
<1> DEFINE row == ThreadStarted(hyp[t.hyp], Caps[t.hyp], t.kind)
<1>1. /\ t \in reg /\ t.hyp \in Hyps /\ t.kind \in Kinds
      /\ hyp[t.hyp] \in HypRow /\ to \in PC
  BY DEF LaunchParts, RunningIsRegistered, TypeOK, Thread, Alive, PC
<1>2. row \in HypRow
  BY <1>1, RowTypes
<1>3. /\ row.present = hyp[t.hyp].present /\ row.enabled = hyp[t.hyp].enabled
      /\ \A j \in Kinds : row.ts[j] = IF j = t.kind THEN "Started" ELSE hyp[t.hyp].ts[j]
      /\ row.status = "Online" =>
           hyp[t.hyp].status = "Online" \/ \A j \in KindsOf(Caps[t.hyp]) : row.ts[j] = "Started"
  BY <1>1, StartedFields
<1> HIDE DEF row
<1>4. t.kind # "worker" => (NeedsWorker(row, Caps[t.hyp]) => NeedsWorker(hyp[t.hyp], Caps[t.hyp]))
  BY <1>3 DEF NeedsWorker, KindsOf, Kinds
<1>5. hyp' = [hyp EXCEPT ![t.hyp] = row]
  BY DEF row
<1> QED
  <2>1. \A k \in Kinds : row.ts[k] \in {hyp[t.hyp].ts[k], "Started"}
    BY <1>3
  <2>2. \/ NeedsWorker(row, Caps[t.hyp]) => NeedsWorker(hyp[t.hyp], Caps[t.hyp])
        \/ t.kind = "worker" /\ to \in {"kvm", "loop", "tail", "crashed"}
    BY <1>4
  <2>3. pc[t] # "done" /\ pc[t] \notin {"kvm", "loop", "tail", "crashed"}
    OBVIOUS
  <2>4. row.present = hyp[t.hyp].present /\ row.enabled = hyp[t.hyp].enabled
    BY <1>3
  <2> QED
    BY <1>1, <1>2, <1>5, <2>1, <2>2, <2>3, <2>4, QuietStep

LEMMA ReconnectsInv ==
    ASSUME TypeOK, LaunchParts, NEW t \in Thread, WorkerReconnects(t)
    PROVE  LaunchParts'
<1> DEFINE row == UpdateHypStatus(hyp[t.hyp], "Online")
<1>1. /\ t \in reg /\ t.hyp \in Hyps /\ hyp[t.hyp] \in HypRow
      /\ pc[t] = "loop" /\ t.kind = "worker"
  BY DEF LaunchParts, RunningIsRegistered, TypeOK, Thread, Alive, WorkerReconnects
<1>2. /\ pc' = [pc EXCEPT ![t] = "loop"] /\ hyp' = [hyp EXCEPT ![t.hyp] = row]
      /\ UNCHANGED <<feed, qActions, reg>>
  BY <1>1 DEF WorkerReconnects, OnlyThread, threadVars, TypeOK
<1>3. row \in HypRow
  BY <1>1, RowTypes DEF HypStatus
<1>4. row.present = hyp[t.hyp].present /\ row.enabled = hyp[t.hyp].enabled /\ row.ts = hyp[t.hyp].ts
  BY <1>1, StatusFields
<1>5. "loop" \in PC
  BY DEF PC
<1> HIDE DEF row
<1> QED
  BY <1>1, <1>2, <1>3, <1>4, <1>5, QuietStep

LEMMA ReportsInv ==
    ASSUME TypeOK, LaunchParts, NEW t \in Thread, ThreadReportsDeath(t)
    PROVE  LaunchParts'
<1> DEFINE row == ThreadNotStarted(hyp[t.hyp], Caps[t.hyp], t.kind, "Stopping")
<1>1. PICK a : a = NewAction(DeadType[t.kind], t.hyp, NoRow)
  OBVIOUS
<1>2. /\ t \in reg /\ t.hyp \in Hyps /\ t.kind \in Kinds /\ hyp[t.hyp] \in HypRow /\ pc[t] = "tail"
  BY DEF LaunchParts, RunningIsRegistered, TypeOK, Thread, Alive, ThreadReportsDeath, Step
<1>3. /\ qActions' = Append(qActions, a) /\ hyp' = [hyp EXCEPT ![t.hyp] = row]
      /\ pc' = [pc EXCEPT ![t] = "done"] /\ UNCHANGED <<feed, reg>>
  BY <1>1 DEF ThreadReportsDeath, Step
<1>4. \/ ~row.present
      \/ /\ row.present = hyp[t.hyp].present /\ row.enabled = hyp[t.hyp].enabled
         /\ \A j \in Kinds : row.ts[j] = IF j = t.kind THEN "Stopping" ELSE hyp[t.hyp].ts[j]
         /\ row.status # "Online"
  BY <1>2, NotStartedFields DEF ThreadStatus
<1> HIDE DEF row
<1>5. \A h \in Hyps : hyp'[h] = IF h = t.hyp THEN row ELSE hyp[h]
  BY <1>3 DEF TypeOK
<1>6. \A u \in Thread : pc'[u] = IF u = t THEN "done" ELSE pc[u]
  BY <1>3 DEF TypeOK
<1>7. /\ qActions \in Seq(Action) /\ \A u \in reg : u \in Thread
      /\ a.type = DeadType[t.kind] /\ a.hyp = t.hyp
  BY <1>1 DEF TypeOK, NewAction
<1>8. \A i \in DOMAIN qActions' :
        \/ i \in DOMAIN qActions /\ qActions'[i] = qActions[i]
        \/ i = Len(qActions) + 1 /\ qActions'[i] = a
  BY <1>3, <1>7
<1>9. NothingEnables'
  BY <1>2, <1>3, <1>7, <1>8 DEF LaunchParts, NothingEnables
<1>10. RunningIsRegistered' /\ OneRegistered'
  BY <1>3, <1>6 DEF LaunchParts, RunningIsRegistered, OneRegistered, Alive
<1>11. StoppedIsForgotten'
  <2> SUFFICES ASSUME NEW h \in Hyps, NEW k \in Kinds,
                      hyp'[h].present, hyp'[h].enabled, MayLaunch(hyp'[h].ts, k)
               PROVE  Registered(k, h) = {}
    BY <1>3 DEF StoppedIsForgotten, Registered
  <2>1. hyp[h].present /\ hyp[h].enabled /\ MayLaunch(hyp[h].ts, k)
    BY <1>4, <1>5 DEF MayLaunch
  <2> QED
    BY <2>1 DEF LaunchParts, StoppedIsForgotten
<1>12. ReportsAreTrue'
  <2>1. \A i \in DOMAIN qActions : ~IsDead(qActions[i], t.kind, t.hyp)
    <3> SUFFICES ASSUME NEW i \in DOMAIN qActions, IsDead(qActions[i], t.kind, t.hyp) PROVE FALSE
      OBVIOUS
    <3>1. PICK u \in Registered(t.kind, t.hyp) : pc[u] = "done"
      BY <1>2 DEF LaunchParts, ReportsAreTrue
    <3>2. u = t
      BY <1>2, <3>1, RegisteredMember DEF LaunchParts, OneRegistered
    <3> QED
      BY <1>2, <3>1, <3>2
  <2>2. \A k \in Kinds, h \in Hyps : IsDead(a, k, h) => k = t.kind /\ h = t.hyp
    BY <1>2, <1>7, DeadTypes DEF IsDead
  <2>3. ASSUME NEW i \in DOMAIN qActions', NEW k \in Kinds, NEW h \in Hyps,
               IsDead(qActions'[i], k, h)
        PROVE  \E u \in Registered(k, h) : pc'[u] = "done"
    <3>1. CASE i \in DOMAIN qActions /\ qActions'[i] = qActions[i]
      <4>1. PICK u \in Registered(k, h) : pc[u] = "done"
        BY <2>3, <3>1 DEF LaunchParts, ReportsAreTrue
      <4> QED
        BY <1>6, <4>1, RegisteredMember
    <3>2. CASE qActions'[i] = a
      BY <1>2, <1>6, <2>2, <2>3, <3>2, RegisteredMember
    <3> QED
      BY <1>8, <3>1, <3>2
  <2>4. ASSUME NEW i \in DOMAIN qActions', NEW j \in DOMAIN qActions', NEW k \in Kinds, NEW h \in Hyps,
               IsDead(qActions'[i], k, h), IsDead(qActions'[j], k, h)
        PROVE  i = j
    BY <1>8, <2>1, <2>2, <2>4 DEF LaunchParts, ReportsAreTrue
  <2> QED
    BY <1>3, <2>3, <2>4 DEF ReportsAreTrue, Registered
<1>13. StartedIsRegistered'
  <2> SUFFICES ASSUME NEW h \in Hyps, NeedsWorker(hyp'[h], Caps[h])
               PROVE  HasStartedWorker(h)'
    BY DEF StartedIsRegistered, NeedsWorker
  <2>1. NeedsWorker(hyp[h], Caps[h]) /\ ~(t.kind = "worker" /\ h = t.hyp)
    BY <1>4, <1>5 DEF NeedsWorker, Kinds
  <2>2. PICK u \in Registered("worker", h) : pc[u] \in {"kvm", "loop", "tail", "crashed"}
    BY <2>1 DEF LaunchParts, StartedIsRegistered, NeedsWorker, HasStartedWorker
  <2>3. u # t /\ u \in Thread
    BY <2>1, <2>2, RegisteredMember
  <2>4. u \in Registered("worker", h)' /\ pc'[u] = pc[u]
    BY <1>3, <1>6, <2>2, <2>3 DEF Registered
  <2> QED
    BY <2>2, <2>4 DEF HasStartedWorker
<1> QED
  BY <1>9, <1>10, <1>11, <1>12, <1>13 DEF LaunchParts

\* A thread that is not served by the lemmas above: it leaves its row alone,
\* or writes Error, and stays registered.
LEMMA OtherThreadStepsInv ==
    ASSUME TypeOK, LaunchParts, NEW t \in Thread,
           \/ ThreadLosesRow(t) \/ WorkerCannotConnect(t) \/ WorkerChecksKvm(t)
           \/ WorkerSkipsKvm(t) \/ WorkerHasNoKvm(t) \/ WorkerLosesHyp(t)
           \/ DiskIsToldToStop(t) \/ DiskCannotStart(t) \/ ThreadServes(t)
           \/ ThreadCrashes(t) \/ ThreadLeavesLoop(t)
    PROVE  LaunchParts'
<1>1. UNCHANGED <<feed, qActions, reg>>
  BY DEF OnlyThread, ThreadLosesRow, WorkerCannotConnect, WorkerChecksKvm, WorkerSkipsKvm,
     WorkerHasNoKvm, WorkerLosesHyp, DiskIsToldToStop, DiskCannotStart, ThreadServes,
     ThreadCrashes, ThreadLeavesLoop
<1>2. pc[t] \in {"connecting", "kvm", "loop", "tail"}
  BY DEF Step, ThreadLosesRow, WorkerCannotConnect, WorkerChecksKvm, WorkerSkipsKvm,
     WorkerHasNoKvm, WorkerLosesHyp, DiskIsToldToStop, DiskCannotStart, ThreadServes,
     ThreadCrashes, ThreadLeavesLoop
<1>3. PICK to \in {"loop", "tail", "crashed"} : pc' = [pc EXCEPT ![t] = to]
  <2>1. CASE ThreadServes(t)
    <3>1. pc' = pc /\ pc[t] = "loop"
      BY <2>1 DEF ThreadServes
    <3>2. pc' = [pc EXCEPT ![t] = "loop"]
      BY <3>1 DEF TypeOK
    <3> QED
      BY <3>2
  <2>2. CASE ~ThreadServes(t)
    BY <2>2 DEF Step, ThreadLosesRow, WorkerCannotConnect, WorkerChecksKvm, WorkerSkipsKvm,
       WorkerHasNoKvm, WorkerLosesHyp, DiskIsToldToStop, DiskCannotStart,
       ThreadCrashes, ThreadLeavesLoop
  <2> QED
    BY <2>1, <2>2
<1>4. \/ UNCHANGED hyp
      \/ hyp' = [hyp EXCEPT ![t.hyp] = UpdateHypStatus(@, "Error")]
  <2>1. CASE WorkerLosesHyp(t)
    <3>1. hyp' = [hyp EXCEPT ![t.hyp] =
                    IF @.status = "Online" THEN UpdateHypStatus(@, "Error") ELSE @]
      BY <2>1 DEF WorkerLosesHyp
    <3>2. CASE hyp[t.hyp].status = "Online"
      BY <3>1, <3>2
    <3>3. CASE hyp[t.hyp].status # "Online"
      BY <3>1, <3>3 DEF TypeOK
    <3> QED
      BY <3>2, <3>3
  <2>2. CASE ~WorkerLosesHyp(t)
    BY <2>2 DEF ThreadLosesRow, WorkerCannotConnect, WorkerChecksKvm, WorkerSkipsKvm,
       WorkerHasNoKvm, DiskIsToldToStop, DiskCannotStart, ThreadServes,
       ThreadCrashes, ThreadLeavesLoop
  <2> QED
    BY <2>1, <2>2
<1>5. /\ pc[t] \in Alive /\ to \in PC
      /\ to \in {"kvm", "loop", "tail", "crashed"}
      /\ "Error" \in HypStatus \ {"Online"}
  BY <1>2 DEF Alive, PC, HypStatus
<1>6. UNCHANGED hyp \/ \E s \in HypStatus \ {"Online"} :
                          hyp' = [hyp EXCEPT ![t.hyp] = UpdateHypStatus(@, s)]
  BY <1>4, <1>5
<1> QED
  BY <1>1, <1>3, <1>5, <1>6, QuietStepSameRow

LEMMA NothingMoves ==
    ASSUME LaunchParts, UNCHANGED <<hyp, feed, qActions, reg, pc>>
    PROVE  LaunchParts'
<1>1. NothingEnables' /\ RunningIsRegistered' /\ OneRegistered'
  BY DEF LaunchParts, NothingEnables, RunningIsRegistered, OneRegistered
<1>2. StoppedIsForgotten' /\ ReportsAreTrue' /\ StartedIsRegistered'
  BY DEF LaunchParts, StoppedIsForgotten, ReportsAreTrue, StartedIsRegistered, HasStartedWorker,
     Registered
<1> QED
  BY <1>1, <1>2 DEF LaunchParts

LEMMA ThreadInv ==
    ASSUME TypeOK, LaunchParts, NEW t \in Thread, ThreadRuns(t) \/ ThreadFails(t) \/ ActionIsQueued(t)
    PROVE  LaunchParts'
<1>1. CASE WorkerConnects(t)
  <2>1. /\ pc[t] = "connecting" /\ pc' = [pc EXCEPT ![t] = "kvm"]
        /\ UNCHANGED <<feed, qActions, reg>>
        /\ hyp' = [hyp EXCEPT ![t.hyp] = ThreadStarted(@, Caps[t.hyp], t.kind)]
    BY <1>1 DEF WorkerConnects, Step, OnlyThread
  <2> QED
    BY <2>1, StartedInv
<1>2. CASE DiskStarts(t)
  <2>1. /\ pc[t] = "connecting" /\ pc' = [pc EXCEPT ![t] = "loop"]
        /\ UNCHANGED <<feed, qActions, reg>>
        /\ hyp' = [hyp EXCEPT ![t.hyp] = ThreadStarted(@, Caps[t.hyp], t.kind)]
    BY <1>2 DEF DiskStarts, Step, OnlyThread
  <2> QED
    BY <2>1, StartedInv
<1>3. CASE ActionIsQueued(t)
  BY <1>3, NothingMoves DEF ActionIsQueued, OnlyThread
<1> QED
  BY <1>1, <1>2, <1>3, ReconnectsInv, ReportsInv, OtherThreadStepsInv DEF ThreadRuns, ThreadFails

\* In an engine in which no hypervisor is enabled while it runs, the thread
\* status in the table can be trusted: a slot that may be launched is empty,
\* a report of a death is unique and true, and what is Started is registered.
THEOREM LaunchInvariant == NoEnabling => (Spec => []LaunchInv)
<1> SUFFICES ASSUME NoEnabling PROVE Spec => []LaunchInv
  OBVIOUS
<1>1. Init => LaunchInv
  BY LaunchInit
<1>2. LaunchInv /\ [Next]_vars => LaunchInv'
  <2> SUFFICES ASSUME LaunchInv, [Next]_vars PROVE LaunchParts'
    BY TypeStep DEF LaunchInv, LaunchParts
  <2>1. TypeOK /\ LaunchParts
    BY DEF LaunchInv, LaunchParts
  <2>2. CASE UNCHANGED vars
    BY <2>1, <2>2, NothingMoves DEF vars
  <2>3. CASE AdministratorNext
    BY <2>1, <2>3, AdministratorInv
  <2>4. CASE ChangesThread
    BY <2>1, <2>4, ChangesInv
  <2>5. CASE OrchestratorNext
    BY <2>1, <2>5, OrchestratorInv
  <2>6. CASE \E t \in Thread : ThreadRuns(t) \/ ThreadFails(t) \/ ActionIsQueued(t)
    BY <2>1, <2>6, ThreadInv
  <2> QED
    BY <2>2, <2>3, <2>4, <2>5, <2>6 DEF Next
<1> QED
  BY <1>1, <1>2, PTL DEF Spec

\* Then no two threads of one kind ever run for one hypervisor, whatever the
\* number of hypervisors, faults and operations of administrators.
THEOREM NoDuplicateThreads == NoEnabling => (Spec => []SingleThread)
<1> SUFFICES ASSUME NoEnabling PROVE Spec => []SingleThread
  OBVIOUS
<1>1. LaunchInv => SingleThread
  BY DEF LaunchInv, RunningIsRegistered, OneRegistered, SingleThread
<1> QED
  BY <1>1, LaunchInvariant, PTL

\* And an Online hypervisor that runs desktops has a worker with a queue: the
\* action for the hypervisor the balancer picked finds one.
THEOREM OnlineHypervisorHasQueue == NoEnabling => (Spec => []OnlineHasWorkerQueue)
<1> SUFFICES ASSUME NoEnabling PROVE Spec => []OnlineHasWorkerQueue
  OBVIOUS
<1>1. LaunchInv => OnlineHasWorkerQueue
  BY DEF LaunchInv, StartedIsRegistered, HasStartedWorker, OnlineHasWorkerQueue, OnlineHyps
<1> QED
  BY <1>1, LaunchInvariant, PTL

----------------------------------------------------------------------------
(* Orchestrator implements ThreadSupervisor, as long as no hypervisor is   *)
(* enabled while the engine runs.                                          *)

\* What the dictionaries hold, slot by slot.
Held == [kh \in Kinds \X Hyps |-> Slot(kh[1], kh[2])]

----------------------------------------------------------------------------
(* The contents of a slot.                                                 *)

ContentOf(p) == IF p \in Alive THEN "running" ELSE IF p = "crashed" THEN "lost" ELSE "reported"

LEMMA SlotOfThread ==
    ASSUME OneRegistered, NEW k, NEW h, NEW t \in Registered(k, h)
    PROVE  Slot(k, h) = ContentOf(pc[t])
<1>1. \A u \in Registered(k, h) : u = t
  BY RegisteredMember DEF OneRegistered
<1> QED
  BY <1>1 DEF Slot, ContentOf

LEMMA SameSlots == UNCHANGED <<reg, pc>> => Held' = Held
BY DEF Held, Slot, Registered, Threads

\* What one step does to the slots, slot by slot.
LEMMA SlotsMove ==
    ASSUME NEW K \in SUBSET (Kinds \X Hyps), NEW from, NEW to,
           \A k \in Kinds, h \in Hyps :
               IF <<k, h>> \in K THEN Slot(k, h) = from /\ Slot(k, h)' = to
               ELSE Slot(k, h)' = Slot(k, h)
    PROVE  Supervisor!Move(K, from, to)
<1>1. \A kh \in Kinds \X Hyps : kh[1] \in Kinds /\ kh[2] \in Hyps /\ kh = <<kh[1], kh[2]>>
  OBVIOUS
<1>2. \A kh \in K : Slot(kh[1], kh[2]) = from
  BY <1>1
<1>3. \A kh \in Kinds \X Hyps :
        Slot(kh[1], kh[2])' = IF kh \in K THEN to ELSE Slot(kh[1], kh[2])
  BY <1>1
<1> QED
  BY <1>2, <1>3 DEF Supervisor!Move

----------------------------------------------------------------------------
(* The orchestrator.                                                       *)

LEMMA EmptySlots ==
    ASSUME reg = {}
    PROVE  Held = [kh \in Kinds \X Hyps |-> "empty"]
BY DEF Held, Slot, Registered

LEMMA FreshEngineIsNew ==
    ASSUME NEW rows, FreshEngine(rows)
    PROVE  Supervisor!NewEngine
<1>1. reg' = {}
  BY DEF FreshEngine
<1>2. \A k \in Kinds, h \in Hyps : Slot(k, h)' = "empty"
  BY <1>1 DEF Slot, Registered
<1> QED
  BY <1>2 DEF Supervisor!NewEngine

LEMMA PollLaunches ==
    ASSUME TypeOK, LaunchParts, OrchestratorPoll
    PROVE  Supervisor!Launch
<1> DEFINE launch == [h \in Hyps |->
       IF hyp[h].present /\ hyp[h].enabled /\ Startable(hyp[h])
       THEN ToLaunch(h, hyp[h].ts) ELSE {}]
           F == {t \in Thread : t.kind \in launch[t.hyp] /\ t = Fresh(t.kind, t.hyp)}
           K == {kh \in Kinds \X Hyps : kh[1] \in launch[kh[2]]}
<1>1. launch \in [Hyps -> SUBSET Kinds]
  BY ToLaunchType DEF TypeOK, HypRow
<1>2. Launch(launch)
  BY DEF OrchestratorPoll
<1>3. ASSUME NEW h \in Hyps, NEW k \in launch[h]
      PROVE  Registered(k, h) = {}
  <2>1. hyp[h].present /\ hyp[h].enabled /\ k \in ToLaunch(h, hyp[h].ts)
    BY <1>3
  <2>2. k \in Kinds /\ MayLaunch(hyp[h].ts, k)
    BY <2>1 DEF ToLaunch, KindsOf, Kinds
  <2> QED
    BY <2>1, <2>2 DEF LaunchParts, StoppedIsForgotten
<1> HIDE DEF launch
<1>4. reg' = {t \in reg : t.kind \notin launch[t.hyp]} \cup F
  BY <1>2 DEF Launch
<1>5. \A t \in Thread : pc'[t] = IF t \in F THEN "connecting" ELSE pc[t]
  BY <1>2 DEF Launch
<1>6. ASSUME NEW h \in Hyps, NEW k \in Kinds, k \in launch[h]
      PROVE  Slot(k, h) = "empty" /\ Slot(k, h)' = "running"
  <2>1. Spare(k, h) # {}
    BY <1>2, <1>6 DEF Launch
  <2>2. Fresh(k, h) \in Spare(k, h)
    BY <2>1 DEF Fresh
  <2>3. Fresh(k, h) \in Thread /\ Fresh(k, h).kind = k /\ Fresh(k, h).hyp = h
    BY <2>2 DEF Spare, Threads
  <2>4. Fresh(k, h) \in F
    BY <1>6, <2>3
  <2>5. Fresh(k, h) \in Registered(k, h)' /\ pc'[Fresh(k, h)] = "connecting"
    BY <1>4, <1>5, <2>3, <2>4 DEF Registered, Threads
  <2>6. Slot(k, h)' = "running"
    BY <2>5 DEF Slot, Alive
  <2> QED
    BY <1>3, <1>6, <2>6 DEF Slot
<1>7. ASSUME NEW h \in Hyps, NEW k \in Kinds, k \notin launch[h]
      PROVE  Slot(k, h)' = Slot(k, h)
  <2>1. \A t \in Threads(k, h) : t \in Thread /\ t \notin F
    BY <1>7 DEF Threads
  <2>2. Registered(k, h)' = Registered(k, h)
    BY <1>4, <1>7, <2>1 DEF Registered, Threads
  <2>3. \A t \in Registered(k, h) : pc'[t] = pc[t]
    BY <1>5, <2>1 DEF Registered
  <2> QED
    BY <2>2, <2>3 DEF Slot
<1>8. K \in SUBSET (Kinds \X Hyps)
  OBVIOUS
<1>9. \A k \in Kinds, h \in Hyps : <<k, h>> \in K <=> k \in launch[h]
  OBVIOUS
<1> HIDE DEF K
<1>10. Supervisor!Move(K, "empty", "running")
  BY <1>6, <1>7, <1>8, <1>9, SlotsMove
<1> QED
  BY <1>8, <1>10 DEF Supervisor!Launch

LEMMA DeathIsCollected ==
    ASSUME TypeOK, LaunchParts, NEW k \in Kinds, OrchestratorThreadDead(k)
    PROVE  Supervisor!Collect \/ Held' = Held
<1>1. PICK h \in Hyps : h = Head(qActions).hyp
  BY TakeType DEF OrchestratorThreadDead
<1>2. Take({DeadType[k]}) /\ IsDead(Head(qActions), k, h)
  BY <1>1 DEF OrchestratorThreadDead, Take, IsDead
<1>3. CASE OrchestratorDies
  <2>1. UNCHANGED <<reg, pc>>
    BY <1>3 DEF OrchestratorDies, threadVars
  <2> QED
    BY <2>1, SameSlots
<1>4. CASE reg' = reg \ Registered(k, h) /\ UNCHANGED pc
  <2>1. PICK u \in Registered(k, h) : pc[u] = "done"
    BY <1>2, Taken DEF LaunchParts, ReportsAreTrue
  <2>2. Slot(k, h) = "reported"
    BY <2>1, SlotOfThread DEF LaunchParts, ContentOf, Alive
  <2>3. Registered(k, h)' = {}
    BY <1>4 DEF Registered
  <2>4. Slot(k, h)' = "empty"
    BY <2>3 DEF Slot
  <2>5. ASSUME NEW j \in Kinds, NEW g \in Hyps, <<j, g>> # <<k, h>>
        PROVE  Slot(j, g)' = Slot(j, g)
    <3>1. \A t : t \in Registered(j, g)' <=> t \in Registered(j, g)
      <4>1. \A t \in Threads(j, g) : t \notin Registered(k, h)
        BY <2>5 DEF Registered, Threads
      <4> QED
        BY <1>4, <4>1 DEF Registered
    <3>2. Registered(j, g)' = Registered(j, g)
      BY <3>1
    <3> QED
      BY <1>4, <3>2 DEF Slot
  <2>6. Supervisor!Move({<<k, h>>}, "reported", "empty")
    BY <2>2, <2>4, <2>5, SlotsMove
  <2> QED
    BY <2>6 DEF Supervisor!Collect
<1> QED
  BY <1>1, <1>3, <1>4 DEF OrchestratorThreadDead

LEMMA OrchestratorSupervises ==
    ASSUME TypeOK, LaunchParts, OrchestratorNext
    PROVE  [Supervisor!Next]_Held
<1>1. ~OrchestratorEnable
  <2> SUFFICES ASSUME OrchestratorEnable PROVE FALSE
    OBVIOUS
  <2>1. Take({"enable_hyper"}) /\ Head(qActions).type = "enable_hyper"
    BY DEF OrchestratorEnable, Take
  <2> QED
    BY <2>1, Taken, DeadTypes DEF LaunchParts, NothingEnables
<1>2. CASE OrchestratorPoll
  BY <1>2, PollLaunches DEF Supervisor!Next
<1>3. CASE OrchestratorDisable
  <2>1. UNCHANGED <<reg, pc>>
    BY <1>3 DEF OrchestratorDisable, threadVars
  <2> QED
    BY <2>1, SameSlots
<1>4. ASSUME NEW k \in Kinds, OrchestratorThreadDead(k)
      PROVE  [Supervisor!Next]_Held
  BY <1>4, DeathIsCollected DEF Supervisor!Next
<1> QED
  BY <1>1, <1>2, <1>3, <1>4 DEF OrchestratorNext

----------------------------------------------------------------------------
(* The threads.                                                            *)

\* A thread that runs is the one in its slot, and so what it does shows there.
LEMMA ThreadMoves ==
    ASSUME TypeOK, LaunchParts, NEW t \in Thread, NEW p \in PC \ {"connecting"},
           pc[t] \in Alive, pc' = [pc EXCEPT ![t] = p], reg' = reg
    PROVE  [Supervisor!Next]_Held
<1> DEFINE k == t.kind
           h == t.hyp
<1>1. k \in Kinds /\ h \in Hyps
  BY DEF Thread
<1>2. t \in Registered(k, h)
  BY RegisteredMember DEF LaunchParts, RunningIsRegistered
<1>3. Slot(k, h) = "running"
  BY <1>2, SlotOfThread DEF LaunchParts, ContentOf
<1>4. \A j, g : Registered(j, g)' = Registered(j, g)
  BY DEF Registered, Threads
<1>5. pc'[t] = p /\ \A u \in Thread : u # t => pc'[u] = pc[u]
  BY DEF TypeOK
<1>6. Slot(k, h)' = ContentOf(p)
  <2>1. \A u \in Registered(k, h) : u = t
    BY <1>2, RegisteredMember DEF LaunchParts, OneRegistered
  <2> QED
    BY <1>2, <1>4, <1>5, <2>1 DEF Slot, ContentOf
<1>7. ASSUME NEW j \in Kinds, NEW g \in Hyps, <<j, g>> # <<k, h>>
      PROVE  Slot(j, g)' = Slot(j, g)
  <2>1. \A u \in Registered(j, g) : u \in Thread /\ u # t
    BY <1>7 DEF Registered, Threads
  <2> QED
    BY <1>4, <1>5, <2>1 DEF Slot
<1> HIDE DEF k, h
<1>8. CASE p \in Alive
  <2>1. \A j \in Kinds, g \in Hyps : Slot(j, g)' = Slot(j, g)
    BY <1>1, <1>3, <1>6, <1>7, <1>8 DEF ContentOf
  <2> QED
    BY <2>1 DEF Held
<1>9. CASE p = "crashed"
  <2>1. Supervisor!Move({<<k, h>>}, "running", "lost")
    BY <1>1, <1>3, <1>6, <1>7, <1>9, SlotsMove DEF ContentOf, Alive
  <2> QED
    BY <1>1, <2>1 DEF Supervisor!Next, Supervisor!Lose
<1>10. CASE p = "done"
  <2>1. Supervisor!Move({<<k, h>>}, "running", "reported")
    BY <1>1, <1>3, <1>6, <1>7, <1>10, SlotsMove DEF ContentOf, Alive
  <2> QED
    BY <1>1, <2>1 DEF Supervisor!Next, Supervisor!Report
<1> QED
  BY <1>8, <1>9, <1>10 DEF PC, Alive

\* A thread only changes its own pc, and only while it runs.
LEMMA ThreadSupervised ==
    ASSUME TypeOK, LaunchParts, NEW t \in Thread, ThreadRuns(t) \/ ThreadFails(t) \/ ActionIsQueued(t)
    PROVE  [Supervisor!Next]_Held
<1>1. reg' = reg
  BY DEF ThreadRuns, ThreadFails, ActionIsQueued, WorkerConnects, WorkerChecksKvm, WorkerSkipsKvm,
     DiskStarts, DiskIsToldToStop, ThreadServes, ThreadLeavesLoop, ThreadReportsDeath, ThreadLosesRow,
     WorkerCannotConnect, WorkerHasNoKvm, WorkerReconnects, WorkerLosesHyp, DiskCannotStart,
     ThreadCrashes, OnlyThread
<1>2. \/ pc' = pc
      \/ pc[t] \in Alive /\ \E p \in PC \ {"connecting"} : pc' = [pc EXCEPT ![t] = p]
  BY DEF ThreadRuns, ThreadFails, ActionIsQueued, WorkerConnects, WorkerChecksKvm, WorkerSkipsKvm,
     DiskStarts, DiskIsToldToStop, ThreadServes, ThreadLeavesLoop, ThreadReportsDeath, ThreadLosesRow,
     WorkerCannotConnect, WorkerHasNoKvm, WorkerReconnects, WorkerLosesHyp, DiskCannotStart,
     ThreadCrashes, Step, threadVars, PC, Alive
<1> QED
  BY <1>1, <1>2, ThreadMoves, SameSlots

----------------------------------------------------------------------------

LEMMA AdministratorSupervised ==
    ASSUME AdministratorNext
    PROVE  [Supervisor!Next]_Held
<1>1. ASSUME NEW h \in Hyps, NEW row, Write(h, row)
      PROVE  Held' = Held
  BY <1>1, SameSlots DEF Write, threadVars
<1>2. (\E h \in Hyps : \E row : Write(h, row)) \/ (\E rows : FreshEngine(rows))
  BY DEF AdministratorNext, EnableHyper, DisableHyper, RemoveHyper, InsertHyper, ApiEnableHyper, RegisterHyper,
     EngineRestart
<1> QED
  BY <1>1, <1>2, FreshEngineIsNew DEF Supervisor!Next

\* The engine keeps what the supervisor promises: a slot is filled only when
\* it is empty, it is emptied only when its thread reported, and a thread
\* that an exception ended keeps its slot until the next engine.
THEOREM ImplementsSupervisor == NoEnabling => (Spec => Supervises)
<1> SUFFICES ASSUME NoEnabling PROVE Spec => Supervises
  OBVIOUS
<1>1. Init => Supervisor!Init
  BY EmptySlots DEF Init, Supervisor!Init, Held
<1>2. LaunchInv /\ [Next]_vars => [Supervisor!Next]_Held
  <2> SUFFICES ASSUME LaunchInv, [Next]_vars PROVE [Supervisor!Next]_Held
    OBVIOUS
  <2>1. TypeOK /\ LaunchParts
    BY DEF LaunchInv, LaunchParts
  <2>2. CASE UNCHANGED vars
    BY <2>2, SameSlots DEF vars
  <2>3. CASE AdministratorNext
    BY <2>3, AdministratorSupervised
  <2>4. CASE ChangesThread
    BY <2>4, SameSlots DEF ChangesThread, threadVars
  <2>5. CASE OrchestratorNext
    BY <2>1, <2>5, OrchestratorSupervises
  <2>6. CASE \E t \in Thread : ThreadRuns(t) \/ ThreadFails(t) \/ ActionIsQueued(t)
    BY <2>1, <2>6, ThreadSupervised
  <2> QED
    BY <2>2, <2>3, <2>4, <2>5, <2>6 DEF Next
<1> QED
  BY <1>1, <1>2, LaunchInvariant, PTL DEF Spec, Supervises, Supervisor!Spec, Held

----------------------------------------------------------------------------
(* What the table and the queue of the orchestrator tell of the threads.   *)
(* The first two theorems hold whatever administrators do, with any number *)
(* of threads of one kind; the others rely on LaunchInv, and so on that no *)
(* hypervisor is enabled while the engine runs.                            *)

\* Where a thread is once it wrote Started and until it reports its death.
Through == {"kvm", "loop", "tail", "crashed"}

----------------------------------------------------------------------------
(* What a step of a thread does to its place and to the rows.              *)

\* A rewriting of a row that is not a start makes no status Started.
LEMMA NotStartedTs ==
    ASSUME NEW row \in HypRow, NEW caps, NEW k \in Kinds, NEW s \in {"Stopping", "Stopped"}
    PROVE  \A j \in Kinds :
             ThreadNotStarted(row, caps, k, s).ts[j] = "Started" => row.ts[j] = "Started" /\ j # k
<1> DEFINE updated == [row EXCEPT !.ts[k] = s]
           new == ThreadNotStarted(row, caps, k, s)
<1>1. \A j \in Kinds : updated.ts[j] = IF j = k THEN s ELSE row.ts[j]
  BY DEF HypRow
<1>2. new = NoRow \/ new.ts = updated.ts
  BY DEF ThreadNotStarted, UpdateHypStatus, HypRow
<1>3. \A j \in Kinds : NoRow.ts[j] = "none"
  BY DEF NoRow
<1> HIDE DEF updated, new
<1>4. \A j \in Kinds : new.ts[j] = "Started" => row.ts[j] = "Started" /\ j # k
  BY <1>1, <1>2, <1>3
<1> QED
  BY <1>4 DEF new

\* A thread that does not begin to serve and does not report its death keeps
\* the thread statuses of the rows, and stays where it is or goes on.
LEMMA SilentSteps ==
    ASSUME TypeOK, NEW t \in Thread, ThreadRuns(t) \/ ThreadFails(t) \/ ActionIsQueued(t),
           ~WorkerConnects(t), ~DiskStarts(t), ~ThreadReportsDeath(t)
    PROVE  /\ \A h \in Hyps : /\ hyp'[h].ts = hyp[h].ts
                              /\ hyp'[h].present = hyp[h].present
           /\ \/ pc' = pc
              \/ pc[t] \in Alive /\ \E to \in Through : pc' = [pc EXCEPT ![t] = to]
           /\ UNCHANGED <<feed, qActions, orch, reg>>
<1>1. UNCHANGED <<feed, qActions, orch, reg>>
  BY DEF ThreadRuns, ThreadFails, WorkerChecksKvm, WorkerSkipsKvm, DiskIsToldToStop,
     ThreadServes, ThreadLeavesLoop, ThreadLosesRow, WorkerCannotConnect, WorkerHasNoKvm,
     WorkerReconnects, WorkerLosesHyp, DiskCannotStart, ThreadCrashes, ActionIsQueued,
     OnlyThread
<1>2. \/ pc' = pc
      \/ pc[t] \in Alive /\ \E to \in Through : pc' = [pc EXCEPT ![t] = to]
  BY DEF ThreadRuns, ThreadFails, WorkerChecksKvm, WorkerSkipsKvm, DiskIsToldToStop,
     ThreadServes, ThreadLeavesLoop, ThreadLosesRow, WorkerCannotConnect, WorkerHasNoKvm,
     WorkerReconnects, WorkerLosesHyp, DiskCannotStart, ThreadCrashes, ActionIsQueued,
     Step, threadVars, Alive, Through
<1>3. \A h \in Hyps : hyp'[h].ts = hyp[h].ts /\ hyp'[h].present = hyp[h].present
  <2>1. t.hyp \in Hyps /\ hyp[t.hyp] \in HypRow
    BY ThreadTypes
  <2>2. \/ hyp' = hyp
        \/ \E s \in {"Error", "Online"} : hyp' = [hyp EXCEPT ![t.hyp] = UpdateHypStatus(@, s)]
    <3>1. CASE WorkerLosesHyp(t)
      <4>1. hyp' = [hyp EXCEPT ![t.hyp] =
                      IF @.status = "Online" THEN UpdateHypStatus(@, "Error") ELSE @]
        BY <3>1 DEF WorkerLosesHyp
      <4>2. CASE hyp[t.hyp].status = "Online"
        BY <4>1, <4>2
      <4>3. CASE hyp[t.hyp].status # "Online"
        BY <4>1, <4>3 DEF TypeOK
      <4> QED
        BY <4>2, <4>3
    <3>2. CASE ~WorkerLosesHyp(t)
      BY <3>2 DEF ThreadRuns, ThreadFails, WorkerChecksKvm, WorkerSkipsKvm, DiskIsToldToStop,
         ThreadServes, ThreadLeavesLoop, ThreadLosesRow, WorkerCannotConnect, WorkerHasNoKvm,
         WorkerReconnects, DiskCannotStart, ThreadCrashes, ActionIsQueued
    <3> QED
      BY <3>1, <3>2
  <2>3. CASE hyp' = hyp
    BY <2>3
  <2>4. ASSUME NEW s, hyp' = [hyp EXCEPT ![t.hyp] = UpdateHypStatus(@, s)]
        PROVE  \A h \in Hyps : hyp'[h].ts = hyp[h].ts /\ hyp'[h].present = hyp[h].present
    <3>1. \A h \in Hyps : hyp'[h] = IF h = t.hyp THEN UpdateHypStatus(hyp[t.hyp], s) ELSE hyp[h]
      BY <2>1, <2>4 DEF TypeOK
    <3> QED
      BY <2>1, <3>1, StatusFields
  <2> QED
    BY <2>2, <2>3, <2>4
<1> QED
  BY <1>1, <1>2, <1>3

LEMMA StartingSteps ==
    ASSUME TypeOK, NEW t \in Thread, WorkerConnects(t) \/ DiskStarts(t)
    PROVE  /\ pc[t] = "connecting"
           /\ \E to \in {"kvm", "loop"} : pc' = [pc EXCEPT ![t] = to]
           /\ \A h \in Hyps, k \in Kinds :
                hyp'[h].ts[k] = IF h = t.hyp /\ k = t.kind THEN "Started" ELSE hyp[h].ts[k]
           /\ \A h \in Hyps : hyp'[h].present = hyp[h].present
           /\ UNCHANGED <<feed, qActions, orch, reg>>
<1>1. /\ pc[t] = "connecting"
      /\ \E to \in {"kvm", "loop"} : pc' = [pc EXCEPT ![t] = to]
      /\ hyp' = [hyp EXCEPT ![t.hyp] = ThreadStarted(@, Caps[t.hyp], t.kind)]
      /\ UNCHANGED <<feed, qActions, orch, reg>>
  BY DEF WorkerConnects, DiskStarts, Step, OnlyThread
<1>2. t.kind \in Kinds /\ t.hyp \in Hyps /\ hyp[t.hyp] \in HypRow
  BY ThreadTypes
<1> DEFINE new == ThreadStarted(hyp[t.hyp], Caps[t.hyp], t.kind)
<1>3. \A h \in Hyps : hyp'[h] = IF h = t.hyp THEN new ELSE hyp[h]
  BY <1>1, <1>2 DEF TypeOK
<1>4. /\ new.present = hyp[t.hyp].present
      /\ \A j \in Kinds : new.ts[j] = IF j = t.kind THEN "Started" ELSE hyp[t.hyp].ts[j]
  BY <1>2, StartedFields
<1> HIDE DEF new
<1>5. \A h \in Hyps, k \in Kinds :
        hyp'[h].ts[k] = IF h = t.hyp /\ k = t.kind THEN "Started" ELSE hyp[h].ts[k]
  BY <1>3, <1>4
<1>6. \A h \in Hyps : hyp'[h].present = hyp[h].present
  BY <1>3, <1>4
<1> QED
  BY <1>1, <1>5, <1>6

----------------------------------------------------------------------------
(* A thread status Started belongs to a thread.                            *)

\* The statuses that are Started were so before, and their threads are still
\* on their way.
LEMMA StartedKeeps ==
    ASSUME StartedIsAThread,
           \A h \in Hyps, k \in Kinds :
             hyp'[h].ts[k] = "Started" =>
               /\ hyp[h].ts[k] = "Started"
               /\ \A t \in Threads(k, h) : pc[t] \in Through => pc'[t] \in Through
    PROVE  StartedIsAThread'
BY DEF StartedIsAThread, Through, Threads

LEMMA StartedFreshEngine ==
    ASSUME NEW rows \in [Hyps -> HypRow], FreshEngine(rows)
    PROVE  StartedIsAThread'
<1>1. ASSUME NEW h \in Hyps, NEW k \in Kinds
      PROVE  hyp'[h].ts[k] # "Started"
  <2>1. hyp'[h] = RowAfterEngineStart(rows[h]) /\ rows[h] \in HypRow
    BY DEF FreshEngine
  <2> QED
    BY <2>1 DEF RowAfterEngineStart, NoRow, HypRow
<1> QED
  BY <1>1 DEF StartedIsAThread

\* What a write of an administrator leaves of the thread statuses, unless the
\* engine is constructed again.
LEMMA Writes ==
    ASSUME TypeOK, AdministratorNext
    PROVE  \/ \E rows \in [Hyps -> HypRow] : FreshEngine(rows)
           \/ /\ UNCHANGED <<qActions, orch, reg, pc>>
              /\ \A h \in Hyps :
                   /\ hyp[h].present => hyp'[h].present
                   /\ \/ hyp'[h].ts = hyp[h].ts
                      \/ ~hyp[h].present /\ \A k \in Kinds : hyp'[h].ts[k] = "none"
<1> DEFINE rows(r) == r \in [Hyps -> HypRow] /\ FreshEngine(r)
           same(h, new) == /\ hyp[h].present => new.present
                           /\ \/ new.ts = hyp[h].ts
                              \/ ~hyp[h].present /\ \A k \in Kinds : new.ts[k] = "none"
<1>1. CASE EngineRestart
  BY <1>1 DEF EngineRestart, TypeOK
<1>2. ASSUME NEW h \in Hyps, NEW new, Write(h, new), same(h, new)
      PROVE  /\ UNCHANGED <<qActions, orch, reg, pc>>
             /\ \A i \in Hyps : same(i, hyp'[i])
  <2>1. hyp' = [hyp EXCEPT ![h] = new] /\ UNCHANGED <<qActions, orch, reg, pc>>
    BY <1>2 DEF Write, threadVars
  <2>2. \A i \in Hyps : hyp'[i] = IF i = h THEN new ELSE hyp[i]
    BY <2>1 DEF TypeOK
  <2> QED
    BY <1>2, <2>1, <2>2
<1>3. ASSUME NEW h \in Hyps, EnableHyper(h) \/ DisableHyper(h) \/ RemoveHyper(h)
      PROVE  \E new : Write(h, new) /\ same(h, new)
  <2> DEFINE e == [hyp[h] EXCEPT !.enabled = TRUE]
             d == [hyp[h] EXCEPT !.enabled = FALSE]
             r == [hyp[h] EXCEPT !.enabled = FALSE, !.status = "Deleting"]
  <2>1. hyp[h] \in HypRow
    BY DEF TypeOK
  <2>2. \A x \in {e, d, r} : x.ts = hyp[h].ts /\ x.present = hyp[h].present
    BY <2>1 DEF HypRow
  <2>3. \E x \in {e, d, r} : Write(h, x)
    BY <1>3 DEF EnableHyper, DisableHyper, RemoveHyper
  <2> HIDE DEF e, d, r
  <2> QED
    BY <2>2, <2>3
<1>4. ASSUME NEW h \in Hyps, NEW e \in BOOLEAN, InsertHyper(h, e)
      PROVE  \E new : Write(h, new) /\ same(h, new)
  <2> DEFINE n == [NoRow EXCEPT !.present = TRUE, !.enabled = e]
  <2>1. n.present /\ \A k \in Kinds : n.ts[k] = "none"
    BY DEF NoRow
  <2>2. Write(h, n) /\ ~hyp[h].present
    BY <1>4 DEF InsertHyper
  <2> HIDE DEF n
  <2> QED
    BY <2>1, <2>2
<1>5. ASSUME NEW h \in Hyps, ApiEnableHyper(h)
      PROVE  \E r : rows(r)
  <2>1. [hyp EXCEPT ![h].enabled = TRUE] \in [Hyps -> HypRow]
    BY DEF TypeOK, HypRow
  <2> QED
    BY <1>5, <2>1 DEF ApiEnableHyper
<1>6. ASSUME NEW h \in Hyps, RegisterHyper(h)
      PROVE  (\E r : rows(r)) \/ \E new : Write(h, new) /\ same(h, new)
  <2> DEFINE written == [hyp EXCEPT ![h].status = "Offline"]
  <2>1. hyp[h] \in HypRow
    BY DEF TypeOK
  <2>2. written \in [Hyps -> HypRow] /\ written[h].ts = hyp[h].ts /\ written[h].present = hyp[h].present
    BY <2>1 DEF TypeOK, HypRow, HypStatus
  <2>3. FreshEngine(written) \/ Write(h, written[h]) \/ Write(h, hyp[h])
    BY <1>6 DEF RegisterHyper
  <2> HIDE DEF written
  <2> QED
    BY <2>2, <2>3
<1> HIDE DEF rows
<1>7. \/ \E r : rows(r)
      \/ \E h \in Hyps : \E new : Write(h, new) /\ same(h, new)
  <2>1. CASE EngineRestart
    BY <2>1 DEF rows, EngineRestart, TypeOK
  <2> QED
    BY <2>1, <1>3, <1>4, <1>5, <1>6 DEF AdministratorNext
<1> QED
  BY <1>2, <1>7 DEF rows

\* What a launch does to the rows and to the places of threads.
LEMMA LaunchSteps ==
    ASSUME TypeOK, NEW launch \in [Hyps -> SUBSET Kinds], Launch(launch)
    PROVE  /\ \A h \in Hyps, k \in Kinds :
                hyp'[h].ts[k] = IF k \in launch[h] THEN "Starting" ELSE hyp[h].ts[k]
           /\ \A h \in Hyps : hyp'[h].present = hyp[h].present
           /\ \A h \in Hyps, k \in Kinds : \A t \in Threads(k, h) :
                pc'[t] = pc[t] \/ (k \in launch[h] /\ pc'[t] = "connecting" /\ t \notin reg)
           /\ \A t \in reg' :
                \/ t \in reg /\ pc'[t] = pc[t]
                \/ pc'[t] = "connecting" /\ t.kind \in launch[t.hyp]
<1>1. \A h \in Hyps : hyp'[h] = Starting(hyp[h], launch[h]) /\ hyp[h] \in HypRow
  BY DEF Launch, TypeOK
<1>2. ASSUME NEW h \in Hyps
      PROVE  /\ \A k \in Kinds : hyp'[h].ts[k] = IF k \in launch[h] THEN "Starting" ELSE hyp[h].ts[k]
             /\ hyp'[h].present = hyp[h].present
  BY <1>1, StartingFields
<1> DEFINE F == {t \in Thread : t.kind \in launch[t.hyp] /\ t = Fresh(t.kind, t.hyp)}
<1>3. \A t \in Thread : pc'[t] = IF t \in F THEN "connecting" ELSE pc[t]
  BY DEF Launch
<1>4. ASSUME NEW t \in F
      PROVE  t.kind \in launch[t.hyp] /\ t \notin reg
  <2>1. t.kind \in launch[t.hyp] /\ t.hyp \in Hyps /\ t = Fresh(t.kind, t.hyp)
    BY DEF Thread
  <2>2. Spare(t.kind, t.hyp) # {}
    BY <2>1 DEF Launch
  <2>3. t \in Spare(t.kind, t.hyp)
    BY <2>1, <2>2 DEF Fresh
  <2> QED
    BY <2>1, <2>3 DEF Spare
<1>5. \A t \in reg' : t \in reg \/ t \in F
  BY DEF Launch
<1>6. F \subseteq Thread
  OBVIOUS
<1> HIDE DEF F
<1>7. \A h \in Hyps, k \in Kinds : \A t \in Threads(k, h) :
        pc'[t] = pc[t] \/ (k \in launch[h] /\ pc'[t] = "connecting" /\ t \notin reg)
  BY <1>3, <1>4 DEF Threads
<1>8. \A t \in reg' :
        \/ t \in reg /\ pc'[t] = pc[t]
        \/ pc'[t] = "connecting" /\ t.kind \in launch[t.hyp]
  <2>1. \A t \in reg : t \in Thread
    BY DEF TypeOK
  <2>2. \A t \in F : pc'[t] = "connecting" /\ t.kind \in launch[t.hyp]
    BY <1>3, <1>4, <1>6
  <2>3. \A t \in reg : t \notin F => pc'[t] = pc[t]
    BY <1>3, <2>1
  <2> QED
    BY <1>5, <2>2, <2>3
<1> QED
  BY <1>2, <1>7, <1>8

\* What the orchestrator does: it launches, it tells threads to stop, it
\* forgets a thread, or it ends.
LEMMA OrchestratorSteps ==
    ASSUME TypeOK, OrchestratorNext
    PROVE  \/ \E launch \in [Hyps -> SUBSET Kinds] : Launch(launch) /\ orch # "dead"
           \/ /\ UNCHANGED pc /\ reg' \in SUBSET reg
              /\ \A h \in Hyps, k \in Kinds : hyp'[h].ts[k] = "Started" => hyp[h].ts[k] = "Started"
<1>1. CASE OrchestratorPoll
  <2> DEFINE launch == [h \in Hyps |->
         IF hyp[h].present /\ hyp[h].enabled /\ Startable(hyp[h])
         THEN ToLaunch(h, hyp[h].ts) ELSE {}]
  <2>1. launch \in [Hyps -> SUBSET Kinds]
    BY ToLaunchType DEF TypeOK, HypRow
  <2>2. Launch(launch) /\ orch # "dead"
    BY <1>1 DEF OrchestratorPoll
  <2> HIDE DEF launch
  <2> QED
    BY <2>1, <2>2
<1>2. CASE OrchestratorEnable
  <2> DEFINE a == Head(qActions)
             kinds == IF Startable(a.row) THEN ToLaunch(a.hyp, a.row.ts) ELSE {}
             launch == [h \in Hyps |-> IF h = a.hyp THEN kinds ELSE {}]
  <2>1. a.hyp \in Hyps /\ a.row \in HypRow
    BY <1>2, TakeType DEF OrchestratorEnable
  <2>2. kinds \in SUBSET Kinds
    BY <2>1, ToLaunchType DEF HypRow
  <2>3. launch \in [Hyps -> SUBSET Kinds]
    BY <2>2
  <2>4. \/ OrchestratorDies /\ UNCHANGED hyp
        \/ Launch(launch)
    BY <1>2 DEF OrchestratorEnable
  <2>5. orch # "dead"
    BY <1>2 DEF OrchestratorEnable, Take
  <2> HIDE DEF launch
  <2> QED
    BY <2>3, <2>4, <2>5 DEF OrchestratorDies, threadVars
<1>3. CASE OrchestratorDisable
  <2> DEFINE h == Head(qActions).hyp
  <2>1. h \in Hyps
    BY <1>3, TakeType DEF OrchestratorDisable
  <2>2. UNCHANGED <<reg, pc>>
    BY <1>3 DEF OrchestratorDisable, threadVars
  <2>3. \/ UNCHANGED hyp
        \/ \E kinds, was : hyp' = [hyp EXCEPT ![h] = Stopping(@, kinds, was)]
    BY <1>3 DEF OrchestratorDisable
  <2> HIDE DEF h
  <2>4. ASSUME NEW kinds, NEW was, hyp' = [hyp EXCEPT ![h] = Stopping(@, kinds, was)],
               NEW i \in Hyps, NEW k \in Kinds, hyp'[i].ts[k] = "Started"
        PROVE  hyp[i].ts[k] = "Started"
    <3>1. hyp'[i] = IF i = h THEN Stopping(hyp[h], kinds, was) ELSE hyp[i]
      BY <2>1, <2>4 DEF TypeOK
    <3>2. ASSUME NEW row \in HypRow
          PROVE  Stopping(row, kinds, was).ts[k] \in {row.ts[k], "Stopping"}
      BY DEF Stopping, UpdateHypStatus, HypRow
    <3>3. hyp[h] \in HypRow
      BY <2>1 DEF TypeOK
    <3> QED
      BY <2>4, <3>1, <3>2, <3>3
  <2> QED
    BY <2>2, <2>3, <2>4
<1>4. ASSUME NEW k \in Kinds, OrchestratorThreadDead(k)
      PROVE  /\ UNCHANGED pc /\ reg' \in SUBSET reg
             /\ \A h \in Hyps, j \in Kinds : hyp'[h].ts[j] = "Started" => hyp[h].ts[j] = "Started"
  <2> DEFINE h == Head(qActions).hyp
  <2>1. h \in Hyps /\ hyp[h] \in HypRow
    BY <1>4, TakeType DEF OrchestratorThreadDead, TypeOK
  <2>2. UNCHANGED pc /\ reg' \in SUBSET reg
    BY <1>4 DEF OrchestratorThreadDead, OrchestratorDies, threadVars
  <2>3. \/ UNCHANGED hyp
        \/ hyp' = [hyp EXCEPT ![h] = ThreadNotStarted(@, Caps[h], k, "Stopped")]
    BY <1>4 DEF OrchestratorThreadDead
  <2> HIDE DEF h
  <2>4. CASE hyp' = [hyp EXCEPT ![h] = ThreadNotStarted(@, Caps[h], k, "Stopped")]
    <3>1. \A i \in Hyps :
            hyp'[i] = IF i = h THEN ThreadNotStarted(hyp[h], Caps[h], k, "Stopped") ELSE hyp[i]
      BY <2>1, <2>4 DEF TypeOK
    <3>2. \A j \in Kinds :
            ThreadNotStarted(hyp[h], Caps[h], k, "Stopped").ts[j] = "Started" => hyp[h].ts[j] = "Started"
      BY <2>1, NotStartedTs
    <3> QED
      BY <2>2, <3>1, <3>2
  <2> QED
    BY <2>2, <2>3, <2>4
<1> QED
  BY <1>1, <1>2, <1>3, <1>4 DEF OrchestratorNext

LEMMA ReportSteps ==
    ASSUME TypeOK, NEW t \in Thread, ThreadReportsDeath(t)
    PROVE  /\ pc[t] = "tail" /\ pc' = [pc EXCEPT ![t] = "done"]
           /\ \A h \in Hyps, k \in Kinds :
                hyp'[h].ts[k] = "Started" => hyp[h].ts[k] = "Started" /\ ~(k = t.kind /\ h = t.hyp)
<1> DEFINE row == ThreadNotStarted(hyp[t.hyp], Caps[t.hyp], t.kind, "Stopping")
<1>1. t.kind \in Kinds /\ t.hyp \in Hyps /\ hyp[t.hyp] \in HypRow
  BY ThreadTypes
<1>2. \A h \in Hyps : hyp'[h] = IF h = t.hyp THEN row ELSE hyp[h]
  BY DEF TypeOK, ThreadReportsDeath
<1>3. \A j \in Kinds : row.ts[j] = "Started" => hyp[t.hyp].ts[j] = "Started" /\ j # t.kind
  BY <1>1, NotStartedTs
<1>4. pc[t] = "tail" /\ pc' = [pc EXCEPT ![t] = "done"]
  BY DEF ThreadReportsDeath, Step
<1> HIDE DEF row
<1> QED
  BY <1>2, <1>3, <1>4

\* Whatever administrators do, and however many threads of one kind there
\* are: a thread status Started is the status of a thread that got through
\* its start and has not reported its death.
THEOREM StartedThreads == Spec => []StartedIsAThread
<1>1. Init => StartedIsAThread
  <2> SUFFICES ASSUME Init, NEW h \in Hyps, NEW k \in Kinds
               PROVE  hyp[h].ts[k] # "Started"
    BY DEF StartedIsAThread
  <2>1. \/ hyp[h] = NoRow
        \/ \E e \in BOOLEAN : hyp[h] = [present |-> TRUE, enabled |-> e, status |-> "Offline",
                                      ts |-> [j \in Kinds |-> "Stopped"]]
    BY DEF Init
  <2>2. \A e : [present |-> TRUE, enabled |-> e, status |-> "Offline",
                ts |-> [j \in Kinds |-> "Stopped"]].ts[k] = "Stopped"
    OBVIOUS
  <2>3. NoRow.ts[k] = "none"
    BY DEF NoRow
  <2> QED
    BY <2>1, <2>2, <2>3
<1>2. TypeOK /\ StartedIsAThread /\ [Next]_vars => StartedIsAThread'
  <2> SUFFICES ASSUME TypeOK, StartedIsAThread, [Next]_vars PROVE StartedIsAThread'
    OBVIOUS
  <2>1. CASE UNCHANGED vars
    BY <2>1 DEF vars, threadVars, StartedIsAThread, Threads
  <2>2. CASE AdministratorNext
    <3>1. ASSUME NEW rows \in [Hyps -> HypRow], FreshEngine(rows)
          PROVE  StartedIsAThread'
      BY <3>1, StartedFreshEngine
    <3>2. CASE /\ UNCHANGED pc
               /\ \A h \in Hyps : \/ hyp'[h].ts = hyp[h].ts
                                  \/ \A k \in Kinds : hyp'[h].ts[k] = "none"
      BY <3>2, StartedKeeps
    <3> QED
      BY <2>2, <3>1, <3>2, Writes
  <2>3. CASE ChangesThread
    <3>1. \A h \in Hyps : hyp'[h] = hyp[h] \/ hyp'[h] = NoRow
      BY <2>3 DEF ChangesThread, TypeOK
    <3>2. UNCHANGED pc /\ \A k \in Kinds : NoRow.ts[k] = "none"
      BY <2>3 DEF ChangesThread, threadVars, NoRow
    <3> QED
      BY <3>1, <3>2, StartedKeeps
  <2>4. CASE OrchestratorNext
    <3>1. ASSUME NEW launch \in [Hyps -> SUBSET Kinds], Launch(launch)
          PROVE  StartedIsAThread'
      BY <3>1, LaunchSteps, StartedKeeps
    <3> QED
      BY <2>4, <3>1, OrchestratorSteps, StartedKeeps
  <2>5. ASSUME NEW t \in Thread, ThreadRuns(t) \/ ThreadFails(t) \/ ActionIsQueued(t)
        PROVE  StartedIsAThread'
    <3>1. CASE WorkerConnects(t) \/ DiskStarts(t)
      <4> SUFFICES ASSUME NEW h \in Hyps, NEW k \in Kinds, hyp'[h].ts[k] = "Started"
                   PROVE  \E u \in Threads(k, h) : pc'[u] \in Through
        BY DEF StartedIsAThread, Through, Threads
      <4>1. PICK to \in {"kvm", "loop"} : pc' = [pc EXCEPT ![t] = to]
        BY <3>1, StartingSteps
      <4>2. \A u \in Thread : pc'[u] = IF u = t THEN to ELSE pc[u]
        BY <4>1 DEF TypeOK
      <4>3. CASE h = t.hyp /\ k = t.kind
        BY <4>2, <4>3 DEF Threads, Through
      <4>4. CASE ~(h = t.hyp /\ k = t.kind)
        <5>1. hyp[h].ts[k] = "Started"
          BY <3>1, <4>4, StartingSteps
        <5>2. PICK u \in Threads(k, h) : pc[u] \in Through
          BY <5>1 DEF StartedIsAThread, Through
        <5> QED
          BY <4>2, <4>4, <5>2 DEF Threads
      <4> QED
        BY <4>3, <4>4
    <3>2. CASE ThreadReportsDeath(t)
      <4>1. \A u \in Thread : pc'[u] = IF u = t THEN "done" ELSE pc[u]
        BY <3>2, ReportSteps DEF TypeOK
      <4> QED
        BY <3>2, <4>1, ReportSteps, StartedKeeps DEF Threads
    <3>3. CASE ~WorkerConnects(t) /\ ~DiskStarts(t) /\ ~ThreadReportsDeath(t)
      <4>1. \A u \in Thread : pc[u] \in Through => pc'[u] \in Through
        BY <2>5, <3>3, SilentSteps DEF TypeOK
      <4> QED
        BY <2>5, <3>3, <4>1, SilentSteps, StartedKeeps DEF Threads
    <3> QED
      BY <3>1, <3>2, <3>3
  <2> QED
    BY <2>1, <2>2, <2>3, <2>4, <2>5 DEF Next
<1> QED
  BY <1>1, <1>2, TypeCorrect, PTL DEF Spec

----------------------------------------------------------------------------
(* A dead thread that is registered has its report on the queue.           *)

\* The actions behind the one that was taken.
LEMMA TailKeeps ==
    ASSUME TypeOK, NEW T, Take(T)
    PROVE  \A i \in DOMAIN qActions :
             i # 1 => i - 1 \in DOMAIN qActions' /\ qActions'[i - 1] = qActions[i]
<1>1. qActions \in Seq(Action) /\ qActions # <<>> /\ qActions' = Tail(qActions)
  BY DEF TypeOK, Take
<1> QED
  BY <1>1

\* What is on the queue stays there, or was taken and is no report of t.
LEMMA ReportedKeeps ==
    ASSUME RegisteredDeathIsReported, orch # "dead",
           \A t \in reg' : pc'[t] = "done" =>
             /\ t \in reg /\ pc[t] = "done"
             /\ \A i \in DOMAIN qActions :
                  qActions[i].type = DeadType[t.kind] /\ qActions[i].hyp = t.hyp =>
                    \E j \in DOMAIN qActions' : qActions'[j] = qActions[i]
    PROVE  RegisteredDeathIsReported'
<1> SUFFICES ASSUME NEW t \in reg', pc'[t] = "done"
             PROVE  \E i \in DOMAIN qActions' :
                      qActions'[i].type = DeadType[t.kind] /\ qActions'[i].hyp = t.hyp
  BY DEF RegisteredDeathIsReported
<1>1. PICK i \in DOMAIN qActions :
        qActions[i].type = DeadType[t.kind] /\ qActions[i].hyp = t.hyp
  BY DEF RegisteredDeathIsReported
<1>2. PICK j \in DOMAIN qActions' : qActions'[j] = qActions[i]
  BY <1>1
<1> QED
  BY <1>1, <1>2

\* An action that is not the report of a death is taken.
LEMMA OtherActionTaken ==
    ASSUME TypeOK, NEW type \in {"enable_hyper", "disable_hyper"}, Take({type}),
           NEW t \in Thread, NEW i \in DOMAIN qActions, qActions[i].type = DeadType[t.kind]
    PROVE  \E j \in DOMAIN qActions' : qActions'[j] = qActions[i]
<1>1. qActions[1].type = type
  BY Taken DEF Take
<1>2. DeadType[t.kind] # type
  BY ThreadTypes, DeadTypes
<1> QED
  BY <1>1, <1>2, TailKeeps

LEMMA OrchestratorReports ==
    ASSUME TypeOK, RegisteredDeathIsReported, OrchestratorNext
    PROVE  RegisteredDeathIsReported'
<1> SUFFICES ASSUME orch' # "dead" PROVE RegisteredDeathIsReported'
  BY DEF RegisteredDeathIsReported
<1>0. orch # "dead" /\ \A t \in reg : t \in Thread
  BY DEF OrchestratorNext, OrchestratorPoll, OrchestratorEnable, OrchestratorDisable,
     OrchestratorThreadDead, Take, TypeOK
<1>1. ASSUME NEW launch \in [Hyps -> SUBSET Kinds], Launch(launch)
      PROVE  \A t \in reg' : pc'[t] = "done" => t \in reg /\ pc[t] = "done"
  BY <1>1, LaunchSteps
<1>2. CASE OrchestratorPoll
  <2>1. \E launch \in [Hyps -> SUBSET Kinds] : Launch(launch)
    <3> DEFINE launch == [h \in Hyps |->
           IF hyp[h].present /\ hyp[h].enabled /\ Startable(hyp[h])
           THEN ToLaunch(h, hyp[h].ts) ELSE {}]
    <3>1. launch \in [Hyps -> SUBSET Kinds]
      BY ToLaunchType DEF TypeOK, HypRow
    <3>2. Launch(launch)
      BY <1>2 DEF OrchestratorPoll
    <3> HIDE DEF launch
    <3> QED
      BY <3>1, <3>2
  <2>2. UNCHANGED qActions
    BY <1>2 DEF OrchestratorPoll
  <2> QED
    BY <1>0, <1>1, <2>1, <2>2, ReportedKeeps
<1>3. CASE OrchestratorEnable
  <2>1. \E launch \in [Hyps -> SUBSET Kinds] : Launch(launch)
    <3> DEFINE a == Head(qActions)
               kinds == IF Startable(a.row) THEN ToLaunch(a.hyp, a.row.ts) ELSE {}
               launch == [h \in Hyps |-> IF h = a.hyp THEN kinds ELSE {}]
    <3>1. a.hyp \in Hyps /\ a.row \in HypRow
      BY <1>3, TakeType DEF OrchestratorEnable
    <3>2. kinds \in SUBSET Kinds
      BY <3>1, ToLaunchType DEF HypRow
    <3>3. launch \in [Hyps -> SUBSET Kinds]
      BY <3>2
    <3>4. Launch(launch)
      BY <1>3 DEF OrchestratorEnable, OrchestratorDies
    <3> HIDE DEF launch
    <3> QED
      BY <3>3, <3>4
  <2>2. \A t \in reg' : pc'[t] = "done" => t \in reg /\ pc[t] = "done"
    BY <1>1, <2>1
  <2>3. Take({"enable_hyper"})
    BY <1>3 DEF OrchestratorEnable
  <2>4. \A t \in Thread : \A i \in DOMAIN qActions :
          qActions[i].type = DeadType[t.kind] => \E j \in DOMAIN qActions' : qActions'[j] = qActions[i]
    BY <2>3, OtherActionTaken
  <2> QED
    BY <1>0, <2>2, <2>4, ReportedKeeps
<1>4. CASE OrchestratorDisable
  <2>1. Take({"disable_hyper"}) /\ UNCHANGED <<reg, pc>>
    BY <1>4 DEF OrchestratorDisable, threadVars
  <2>2. \A t \in Thread : \A i \in DOMAIN qActions :
          qActions[i].type = DeadType[t.kind] => \E j \in DOMAIN qActions' : qActions'[j] = qActions[i]
    BY <2>1, OtherActionTaken
  <2> QED
    BY <1>0, <2>1, <2>2, ReportedKeeps
<1>5. ASSUME NEW k \in Kinds, OrchestratorThreadDead(k)
      PROVE  RegisteredDeathIsReported'
  <2> DEFINE h == Head(qActions).hyp
  <2>1. /\ Take({DeadType[k]}) /\ UNCHANGED pc
        /\ reg' = reg \ Registered(k, h)
    BY <1>5 DEF OrchestratorThreadDead, OrchestratorDies
  <2>2. h \in Hyps /\ Head(qActions) = qActions[1] /\ qActions[1].type = DeadType[k]
    BY <2>1, Taken, TakeType DEF Take
  <2> HIDE DEF h
  <2>3. ASSUME NEW t \in reg', NEW i \in DOMAIN qActions,
               qActions[i].type = DeadType[t.kind], qActions[i].hyp = t.hyp
        PROVE  \E j \in DOMAIN qActions' : qActions'[j] = qActions[i]
    <3>1. t \in reg /\ t \in Thread /\ t \notin Registered(k, h)
      BY <1>0, <2>1
    <3>2. i # 1
      <4> SUFFICES ASSUME i = 1 PROVE FALSE
        OBVIOUS
      <4>1. DeadType[k] = DeadType[t.kind] /\ t.hyp = h
        BY <2>2, <2>3 DEF h
      <4>2. t.kind = k
        BY <3>1, <4>1, ThreadTypes, DeadTypes
      <4> QED
        BY <3>1, <4>1, <4>2, RegisteredMember
    <3> QED
      BY <2>1, <3>2, TailKeeps
  <2> QED
    BY <1>0, <2>1, <2>3, ReportedKeeps
<1> QED
  BY <1>2, <1>3, <1>4, <1>5 DEF OrchestratorNext

\* Whatever administrators do: until the orchestrator ends, it will be told
\* of every dead thread it still holds, so that none is held for ever.
THEOREM DeathsAreReported == Spec => []RegisteredDeathIsReported
<1>1. Init => RegisteredDeathIsReported
  BY DEF Init, RegisteredDeathIsReported
<1>2. TypeOK /\ RegisteredDeathIsReported /\ [Next]_vars => RegisteredDeathIsReported'
  <2> SUFFICES ASSUME TypeOK, RegisteredDeathIsReported, [Next]_vars
               PROVE  RegisteredDeathIsReported'
    OBVIOUS
  <2>0. qActions \in Seq(Action) /\ \A t \in reg : t \in Thread
    BY DEF TypeOK
  <2>1. CASE UNCHANGED <<qActions, orch, reg, pc>>
    BY <2>1 DEF RegisteredDeathIsReported
  <2>2. CASE AdministratorNext
    <3>1. ASSUME NEW rows, FreshEngine(rows)
          PROVE  RegisteredDeathIsReported'
      BY <3>1 DEF FreshEngine, RegisteredDeathIsReported
    <3> QED
      BY <2>1, <2>2, <3>1, Writes
  <2>3. CASE ChangesThread
    <3>1. UNCHANGED <<orch, reg, pc>>
      BY <2>3 DEF ChangesThread, threadVars
    <3>2. qActions' = qActions \/ qActions' = Append(qActions, Head(feed))
      BY <2>3 DEF ChangesThread
    <3>3. \A i \in DOMAIN qActions : \E j \in DOMAIN qActions' : qActions'[j] = qActions[i]
      BY <2>0, <3>2
    <3> QED
      BY <3>1, <3>3, ReportedKeeps DEF RegisteredDeathIsReported
  <2>4. CASE OrchestratorNext
    BY <2>4, OrchestratorReports
  <2>5. ASSUME NEW t \in Thread, ThreadRuns(t) \/ ThreadFails(t) \/ ActionIsQueued(t)
        PROVE  RegisteredDeathIsReported'
    <3>1. CASE WorkerConnects(t) \/ DiskStarts(t)
      <4>1. /\ UNCHANGED <<qActions, orch, reg>>
            /\ \A u \in Thread : pc'[u] = "done" => pc[u] = "done"
        BY <3>1, StartingSteps DEF TypeOK
      <4> QED
        BY <2>0, <4>1, ReportedKeeps DEF RegisteredDeathIsReported
    <3>2. CASE ThreadReportsDeath(t)
      <4> DEFINE a == NewAction(DeadType[t.kind], t.hyp, NoRow)
      <4>1. /\ qActions' = Append(qActions, a) /\ UNCHANGED <<orch, reg>>
            /\ pc' = [pc EXCEPT ![t] = "done"]
        BY <3>2 DEF ThreadReportsDeath, Step
      <4>2. a.type = DeadType[t.kind] /\ a.hyp = t.hyp
        BY DEF NewAction
      <4> HIDE DEF a
      <4>3. /\ \A i \in DOMAIN qActions : i \in DOMAIN qActions' /\ qActions'[i] = qActions[i]
            /\ Len(qActions) + 1 \in DOMAIN qActions' /\ qActions'[Len(qActions) + 1] = a
        BY <2>0, <4>1
      <4> SUFFICES ASSUME orch # "dead", NEW u \in reg, pc'[u] = "done"
                   PROVE  \E i \in DOMAIN qActions' :
                            qActions'[i].type = DeadType[u.kind] /\ qActions'[i].hyp = u.hyp
        BY <4>1 DEF RegisteredDeathIsReported
      <4>4. CASE u = t
        BY <4>2, <4>3, <4>4
      <4>5. CASE u # t
        <5>1. pc[u] = "done"
          BY <2>0, <4>1, <4>5 DEF TypeOK
        <5> QED
          BY <4>3, <5>1 DEF RegisteredDeathIsReported
      <4> QED
        BY <4>4, <4>5
    <3>3. CASE ~WorkerConnects(t) /\ ~DiskStarts(t) /\ ~ThreadReportsDeath(t)
      <4>1. /\ UNCHANGED <<qActions, orch, reg>>
            /\ \A u \in Thread : pc'[u] = "done" => pc[u] = "done"
        BY <2>5, <3>3, SilentSteps DEF TypeOK, Through
      <4> QED
        BY <2>0, <4>1, ReportedKeeps DEF RegisteredDeathIsReported
    <3> QED
      BY <3>1, <3>2, <3>3
  <2> QED
    BY <2>1, <2>2, <2>3, <2>4, <2>5 DEF Next, vars
<1> QED
  BY <1>1, <1>2, TypeCorrect, PTL DEF Spec

----------------------------------------------------------------------------
(* A hypervisor in Deleting is removed when nothing of it runs.            *)

\* Only the threads a hypervisor must have are ever launched.
AliveIsNeeded == \A t \in Thread : pc[t] \in Alive => t.kind \in KindsOf(Caps[t.hyp])

\* A thread status Stopped is only written when the thread is forgotten.
StoppedIsGone == \A h \in Hyps, k \in Kinds : hyp[h].ts[k] = "Stopped" => Registered(k, h) = {}

\* No status becomes Stopped unless the thread was forgotten.
LEMMA StoppedKeeps ==
    ASSUME StoppedIsGone,
           \A h \in Hyps, k \in Kinds :
             hyp'[h].ts[k] = "Stopped" =>
               \/ hyp[h].ts[k] = "Stopped" /\ Registered(k, h)' \in SUBSET Registered(k, h)
               \/ Registered(k, h)' = {}
    PROVE  StoppedIsGone'
BY DEF StoppedIsGone

\* What forgetting a thread, and the report of its death, do to a row.
LEMMA NotStartedStopped ==
    ASSUME NEW row \in HypRow, NEW caps, NEW k \in Kinds, NEW s \in {"Stopping", "Stopped"}
    PROVE  LET new == ThreadNotStarted(row, caps, k, s)
           IN  /\ \A j \in Kinds :
                    new.ts[j] = "Stopped" => row.ts[j] = "Stopped" \/ (j = k /\ s = "Stopped")
               /\ row.present /\ ~new.present =>
                    \A j \in KindsOf(caps) : IF j = k THEN s = "Stopped" ELSE row.ts[j] = "Stopped"
<1> DEFINE updated == [row EXCEPT !.ts[k] = s]
           new == ThreadNotStarted(row, caps, k, s)
<1>1. /\ \A j \in Kinds : updated.ts[j] = IF j = k THEN s ELSE row.ts[j]
      /\ updated.present = row.present
  BY DEF HypRow
<1>2. \/ new = NoRow /\ \A j \in KindsOf(caps) : updated.ts[j] = "Stopped"
      \/ new.ts = updated.ts /\ new.present = updated.present
  BY DEF ThreadNotStarted, UpdateHypStatus, HypRow
<1>3. \A j \in Kinds : NoRow.ts[j] = "none"
  BY DEF NoRow
<1>4. KindsOf(caps) \subseteq Kinds
  BY DEF KindsOf, Kinds
<1> HIDE DEF updated, new
<1>5. \A j \in Kinds : new.ts[j] = "Stopped" => row.ts[j] = "Stopped" \/ (j = k /\ s = "Stopped")
  BY <1>1, <1>2, <1>3
<1>6. row.present /\ ~new.present =>
        \A j \in KindsOf(caps) : IF j = k THEN s = "Stopped" ELSE row.ts[j] = "Stopped"
  BY <1>1, <1>2, <1>4
<1> QED
  BY <1>5, <1>6 DEF new

\* Who launches launches what is needed.
LEMMA LaunchNeeded ==
    ASSUME TypeOK, AliveIsNeeded, StoppedIsGone,
           NEW launch \in [Hyps -> SUBSET Kinds], Launch(launch),
           \A h \in Hyps : launch[h] \subseteq KindsOf(Caps[h])
    PROVE  AliveIsNeeded' /\ StoppedIsGone'
<1>1. AliveIsNeeded'
  <2> SUFFICES ASSUME NEW t \in Thread, pc'[t] \in Alive
               PROVE  t.kind \in KindsOf(Caps[t.hyp])
    BY DEF AliveIsNeeded
  <2>1. t \in Threads(t.kind, t.hyp) /\ t.kind \in Kinds /\ t.hyp \in Hyps
    BY DEF Threads, Thread
  <2>2. pc'[t] = pc[t] \/ t.kind \in launch[t.hyp]
    BY <2>1, LaunchSteps
  <2> QED
    BY <2>1, <2>2 DEF AliveIsNeeded
<1>2. StoppedIsGone'
  <2> SUFFICES ASSUME NEW h \in Hyps, NEW k \in Kinds, hyp'[h].ts[k] = "Stopped"
               PROVE  Registered(k, h)' = {}
    BY DEF StoppedIsGone
  <2>1. k \notin launch[h] /\ hyp[h].ts[k] = "Stopped"
    BY LaunchSteps
  <2>2. Registered(k, h) = {}
    BY <2>1 DEF StoppedIsGone
  <2>3. \A t \in reg' : t \in reg \/ t.kind \in launch[t.hyp]
    BY LaunchSteps
  <2> QED
    BY <2>1, <2>2, <2>3 DEF Registered, Threads
<1> QED
  BY <1>1, <1>2

\* A step of the orchestrator in an engine without enabling.
LEMMA OrchestratorForgetting ==
    ASSUME TypeOK, LaunchParts, AliveIsNeeded, StoppedIsGone, OrchestratorNext
    PROVE  /\ AliveIsNeeded' /\ StoppedIsGone'
           /\ \A h \in Hyps : hyp[h].present /\ ~hyp'[h].present =>
                \A t \in Thread : t.hyp = h => pc[t] \notin Alive
<1>1. ASSUME UNCHANGED <<pc>> PROVE AliveIsNeeded'
  BY <1>1 DEF AliveIsNeeded
<1>2. CASE OrchestratorPoll
  <2> DEFINE launch == [h \in Hyps |->
         IF hyp[h].present /\ hyp[h].enabled /\ Startable(hyp[h])
         THEN ToLaunch(h, hyp[h].ts) ELSE {}]
  <2>1. launch \in [Hyps -> SUBSET Kinds]
    BY ToLaunchType DEF TypeOK, HypRow
  <2>2. \A h \in Hyps : launch[h] \subseteq KindsOf(Caps[h])
    BY DEF ToLaunch
  <2>3. Launch(launch)
    BY <1>2 DEF OrchestratorPoll
  <2> HIDE DEF launch
  <2> QED
    BY <2>1, <2>2, <2>3, LaunchNeeded, LaunchSteps
<1>3. CASE OrchestratorEnable
  <2>1. Take({"enable_hyper"}) /\ Head(qActions).type = "enable_hyper"
    BY <1>3 DEF OrchestratorEnable, Take
  <2> QED
    BY <2>1, Taken, DeadTypes DEF LaunchParts, NothingEnables
<1>4. CASE OrchestratorDisable
  <2> DEFINE h == Head(qActions).hyp
  <2>1. h \in Hyps
    BY <1>4, TakeType DEF OrchestratorDisable
  <2>2. UNCHANGED <<reg, pc>>
    BY <1>4 DEF OrchestratorDisable, threadVars
  <2>3. \/ UNCHANGED hyp
        \/ \E kinds, was : hyp' = [hyp EXCEPT ![h] = Stopping(@, kinds, was)]
    BY <1>4 DEF OrchestratorDisable
  <2> HIDE DEF h
  <2>4. ASSUME NEW kinds, NEW was, hyp' = [hyp EXCEPT ![h] = Stopping(@, kinds, was)]
        PROVE  \A i \in Hyps :
                 /\ hyp'[i].present = hyp[i].present
                 /\ \A k \in Kinds : hyp'[i].ts[k] = "Stopped" => hyp[i].ts[k] = "Stopped"
    <3>1. \A i \in Hyps : hyp'[i] = IF i = h THEN Stopping(hyp[h], kinds, was) ELSE hyp[i]
      BY <2>1, <2>4 DEF TypeOK
    <3>2. ASSUME NEW row \in HypRow
          PROVE  /\ Stopping(row, kinds, was).present = row.present
                 /\ \A k \in Kinds : Stopping(row, kinds, was).ts[k] \in {row.ts[k], "Stopping"}
      BY DEF Stopping, UpdateHypStatus, HypRow
    <3>3. hyp[h] \in HypRow
      BY <2>1 DEF TypeOK
    <3> QED
      BY <3>1, <3>2, <3>3
  <2>5. \A i \in Hyps :
          /\ hyp'[i].present = hyp[i].present
          /\ \A k \in Kinds : hyp'[i].ts[k] = "Stopped" => hyp[i].ts[k] = "Stopped"
    BY <2>3, <2>4
  <2>6. \A k, i : Registered(k, i)' = Registered(k, i)
    BY <2>2 DEF Registered
  <2>7. StoppedIsGone'
    BY <2>5, <2>6, StoppedKeeps
  <2> QED
    BY <1>1, <2>2, <2>5, <2>7
<1>5. ASSUME NEW k \in Kinds, OrchestratorThreadDead(k)
      PROVE  /\ AliveIsNeeded' /\ StoppedIsGone'
             /\ \A h \in Hyps : hyp[h].present /\ ~hyp'[h].present =>
                  \A t \in Thread : t.hyp = h => pc[t] \notin Alive
  <2>0. PICK h \in Hyps : h = Head(qActions).hyp
    BY <1>5, TakeType DEF OrchestratorThreadDead
  <2> DEFINE row == ThreadNotStarted(hyp[h], Caps[h], k, "Stopped")
  <2>1. h \in Hyps /\ hyp[h] \in HypRow
    BY DEF TypeOK
  <2>2. UNCHANGED pc /\ reg' \in SUBSET reg
    BY <1>5 DEF OrchestratorThreadDead, OrchestratorDies, threadVars
  <2>3. \/ UNCHANGED hyp
        \/ hyp' = [hyp EXCEPT ![h] = row] /\ reg' = reg \ Registered(k, h)
    BY <1>5, <2>0 DEF OrchestratorThreadDead
  <2>4. LET new == row
        IN  /\ \A j \in Kinds : new.ts[j] = "Stopped" => hyp[h].ts[j] = "Stopped" \/ j = k
            /\ hyp[h].present /\ ~new.present =>
                 \A j \in KindsOf(Caps[h]) : j = k \/ hyp[h].ts[j] = "Stopped"
    BY <2>1, NotStartedStopped
  <2>5. \A t \in Registered(k, h) : pc[t] = "done"
    <3>1. Take({DeadType[k]}) /\ IsDead(qActions[1], k, h) /\ 1 \in DOMAIN qActions
      BY <1>5, <2>0, Taken DEF OrchestratorThreadDead, Take, IsDead
    <3>2. PICK u \in Registered(k, h) : pc[u] = "done"
      BY <2>1, <3>1 DEF LaunchParts, ReportsAreTrue
    <3> QED
      BY <3>2, RegisteredMember DEF LaunchParts, OneRegistered
  <2> HIDE DEF row
  <2>6. \A j, i : Registered(j, i)' \in SUBSET Registered(j, i)
    BY <2>2 DEF Registered
  <2>7. CASE UNCHANGED hyp
    <3>1. StoppedIsGone'
      BY <2>6, <2>7, StoppedKeeps
    <3> QED
      BY <1>1, <2>2, <2>7, <3>1
  <2>8. CASE hyp' = [hyp EXCEPT ![h] = row] /\ reg' = reg \ Registered(k, h)
    <3>1. \A i \in Hyps : hyp'[i] = IF i = h THEN row ELSE hyp[i]
      BY <2>1, <2>8 DEF TypeOK
    <3>2. Registered(k, h)' = {}
      BY <2>8 DEF Registered
    <3>3. StoppedIsGone'
      BY <2>4, <2>6, <3>1, <3>2, StoppedKeeps
    <3>4. ASSUME NEW i \in Hyps, hyp[i].present, ~hyp'[i].present,
                 NEW t \in Thread, t.hyp = i, pc[t] \in Alive
          PROVE  FALSE
      <4>1. i = h
        BY <3>1, <3>4
      <4>2. t.kind \in KindsOf(Caps[h]) /\ t.kind \in Kinds /\ t \in Registered(t.kind, h)
        BY <3>4, <4>1, RegisteredMember DEF AliveIsNeeded, LaunchParts, RunningIsRegistered, Thread
      <4>3. t.kind # k
        BY <2>5, <3>4, <4>2 DEF Alive
      <4>4. hyp[h].ts[t.kind] = "Stopped"
        BY <2>4, <3>1, <3>4, <4>1, <4>2, <4>3
      <4> QED
        BY <2>1, <4>2, <4>4 DEF StoppedIsGone
    <3> QED
      BY <1>1, <2>2, <3>3, <3>4
  <2> QED
    BY <2>3, <2>7, <2>8
<1> QED
  BY <1>2, <1>3, <1>4, <1>5 DEF OrchestratorNext

\* A step of a thread removes no row.
LEMMA ThreadRemovesNothing ==
    ASSUME TypeOK, LaunchParts, AliveIsNeeded, StoppedIsGone, NEW t \in Thread,
           ThreadRuns(t) \/ ThreadFails(t) \/ ActionIsQueued(t)
    PROVE  /\ AliveIsNeeded' /\ StoppedIsGone'
           /\ \A h \in Hyps : hyp[h].present => hyp'[h].present
<1>1. ASSUME UNCHANGED reg, \A h \in Hyps, k \in Kinds :
                              hyp'[h].ts[k] = "Stopped" => hyp[h].ts[k] = "Stopped"
      PROVE  StoppedIsGone'
  <2>1. \A k, h : Registered(k, h)' = Registered(k, h)
    BY <1>1 DEF Registered
  <2> QED
    BY <1>1, <2>1, StoppedKeeps
<1>2. ASSUME \A u \in Thread : pc'[u] \in Alive => pc[u] \in Alive
      PROVE  AliveIsNeeded'
  BY <1>2 DEF AliveIsNeeded
<1>3. CASE WorkerConnects(t) \/ DiskStarts(t)
  <2>1. \A u \in Thread : pc'[u] \in Alive => pc[u] \in Alive
    BY <1>3, StartingSteps DEF TypeOK, Alive
  <2>2. \A h \in Hyps, k \in Kinds : hyp'[h].ts[k] = "Stopped" => hyp[h].ts[k] = "Stopped"
    BY <1>3, StartingSteps
  <2> QED
    BY <1>1, <1>2, <1>3, <2>1, <2>2, StartingSteps
<1>4. CASE ThreadReportsDeath(t)
  <2> DEFINE row == ThreadNotStarted(hyp[t.hyp], Caps[t.hyp], t.kind, "Stopping")
  <2>1. t.kind \in Kinds /\ t.hyp \in Hyps /\ hyp[t.hyp] \in HypRow
    BY ThreadTypes
  <2>2. /\ pc[t] = "tail" /\ pc' = [pc EXCEPT ![t] = "done"]
        /\ hyp' = [hyp EXCEPT ![t.hyp] = row] /\ UNCHANGED reg
    BY <1>4 DEF ThreadReportsDeath, Step
  <2>3. /\ \A j \in Kinds : row.ts[j] = "Stopped" => hyp[t.hyp].ts[j] = "Stopped"
        /\ hyp[t.hyp].present /\ ~row.present => t.kind \notin KindsOf(Caps[t.hyp])
    BY <2>1, NotStartedStopped
  <2>4. t.kind \in KindsOf(Caps[t.hyp])
    BY <2>2 DEF AliveIsNeeded, Alive
  <2> HIDE DEF row
  <2>5. \A h \in Hyps : hyp'[h] = IF h = t.hyp THEN row ELSE hyp[h]
    BY <2>1, <2>2 DEF TypeOK
  <2>6. \A u \in Thread : pc'[u] \in Alive => pc[u] \in Alive
    BY <2>2 DEF TypeOK, Alive
  <2>7. /\ \A h \in Hyps, k \in Kinds : hyp'[h].ts[k] = "Stopped" => hyp[h].ts[k] = "Stopped"
        /\ \A h \in Hyps : hyp[h].present => hyp'[h].present
    BY <2>3, <2>4, <2>5
  <2> QED
    BY <1>1, <1>2, <2>2, <2>6, <2>7
<1>5. CASE ~WorkerConnects(t) /\ ~DiskStarts(t) /\ ~ThreadReportsDeath(t)
  <2>1. \A u \in Thread : pc'[u] \in Alive => pc[u] \in Alive
    BY <1>5, SilentSteps DEF TypeOK
  <2> QED
    BY <1>1, <1>2, <1>5, <2>1, SilentSteps
<1> QED
  BY <1>3, <1>4, <1>5

LEMMA ForgettingInit == Init => AliveIsNeeded /\ StoppedIsGone
BY DEF Init, AliveIsNeeded, StoppedIsGone, Registered, Alive

LEMMA ForgettingStep ==
    ASSUME TypeOK, LaunchParts, AliveIsNeeded, StoppedIsGone, [Next]_vars
    PROVE  /\ AliveIsNeeded' /\ StoppedIsGone'
           /\ \A h \in Hyps :
                hyp[h].present /\ ~hyp'[h].present /\ feed' = feed /\ orch' # "first" =>
                  \A t \in Thread : t.hyp = h => pc[t] \notin Alive
<1>1. CASE UNCHANGED vars
  BY <1>1 DEF vars, threadVars, AliveIsNeeded, StoppedIsGone, Registered
<1>2. CASE AdministratorNext
  <2>1. ASSUME NEW rows, FreshEngine(rows)
        PROVE  AliveIsNeeded' /\ StoppedIsGone' /\ orch' = "first"
    BY <2>1 DEF FreshEngine, AliveIsNeeded, StoppedIsGone, Registered, Alive
  <2>2. CASE /\ UNCHANGED <<reg, pc>>
             /\ \A h \in Hyps : /\ hyp[h].present => hyp'[h].present
                                /\ \/ hyp'[h].ts = hyp[h].ts
                                   \/ \A k \in Kinds : hyp'[h].ts[k] = "none"
    <3>1. \A k, h : Registered(k, h)' = Registered(k, h)
      BY <2>2 DEF Registered
    <3>2. StoppedIsGone'
      BY <2>2, <3>1, StoppedKeeps
    <3> QED
      BY <2>2, <3>2 DEF AliveIsNeeded
  <2> QED
    BY <1>2, <2>1, <2>2, Writes
<1>3. CASE ChangesThread
  <2>1. /\ UNCHANGED <<reg, pc>> /\ feed' # feed
        /\ \A h \in Hyps : hyp'[h] = hyp[h] \/ hyp'[h] = NoRow
    BY <1>3 DEF ChangesThread, TypeOK, threadVars
  <2>2. \A k \in Kinds : NoRow.ts[k] = "none"
    BY DEF NoRow
  <2>3. \A k, h : Registered(k, h)' = Registered(k, h)
    BY <2>1 DEF Registered
  <2>4. StoppedIsGone'
    BY <2>1, <2>2, <2>3, StoppedKeeps
  <2> QED
    BY <2>1, <2>4 DEF AliveIsNeeded
<1> QED
  BY <1>1, <1>2, <1>3, OrchestratorForgetting, ThreadRemovesNothing DEF Next

\* Only a disabled hypervisor is in Deleting, and only the removal of a disabled
\* one is on its way to HypervisorChangesThread.
DeletingIsDisabled == \A h \in Hyps : hyp[h].status = "Deleting" => ~hyp[h].enabled
RemovalsOfDisabled ==
    \A i \in DOMAIN feed : feed[i].type = "delete" => feed[i].hyp \in Hyps /\ ~hyp[feed[i].hyp].enabled

\* A row that is written over without enabling it and without asking for its
\* removal.
Tame(row, new) ==
    /\ new.enabled => row.enabled
    /\ new.status = "Deleting" => row.status = "Deleting"

LEMMA TameRewriting ==
    ASSUME NEW row \in HypRow
    PROVE  /\ \A kinds : Tame(row, Starting(row, kinds))
           /\ \A kinds, was : Tame(row, Stopping(row, kinds, was))
           /\ \A s \in {"Error", "Online", "Offline"} : Tame(row, UpdateHypStatus(row, s))
           /\ \A caps, k : Tame(row, ThreadStarted(row, caps, k))
           /\ \A caps, k, s :
                /\ Tame(row, ThreadNotStarted(row, caps, k, s))
                /\ row.present /\ ~ThreadNotStarted(row, caps, k, s).present =>
                     row.status = "Deleting"
<1>1. \A kinds : Tame(row, Starting(row, kinds))
  BY DEF Tame, Starting, HypRow
<1>2. \A r \in HypRow, s \in {"Error", "Online", "Offline"} : Tame(r, UpdateHypStatus(r, s))
  BY DEF Tame, UpdateHypStatus, HypRow
<1>3. \A kinds, was : Tame(row, Stopping(row, kinds, was))
  BY DEF Tame, Stopping, UpdateHypStatus, HypRow
<1>4. ASSUME NEW k, NEW s
      PROVE  LET new == [row EXCEPT !.ts[k] = s]
             IN  /\ new.enabled = row.enabled /\ new.status = row.status
                 /\ new.present = row.present
                 /\ \A status : [new EXCEPT !.status = status].enabled = row.enabled
                 /\ \A status : [new EXCEPT !.status = status].status = status
                 /\ \A status : [new EXCEPT !.status = status].present = row.present
  BY DEF HypRow
<1>5. \A caps, k : Tame(row, ThreadStarted(row, caps, k))
  BY <1>4 DEF Tame, ThreadStarted, UpdateHypStatus
<1>6. ASSUME NEW caps, NEW k, NEW s
      PROVE  /\ Tame(row, ThreadNotStarted(row, caps, k, s))
             /\ row.present /\ ~ThreadNotStarted(row, caps, k, s).present =>
                  row.status = "Deleting"
  BY <1>4 DEF Tame, ThreadNotStarted, UpdateHypStatus, NoRow
<1> QED
  BY <1>1, <1>2, <1>3, <1>5, <1>6

\* Tame writes disturb nothing, unless the feed grows.
LEMMA TameKeeps ==
    ASSUME TypeOK, DeletingIsDisabled, RemovalsOfDisabled, UNCHANGED feed,
           \A h \in Hyps : Tame(hyp[h], hyp'[h])
    PROVE  DeletingIsDisabled' /\ RemovalsOfDisabled'
BY DEF DeletingIsDisabled, RemovalsOfDisabled, Tame

\* The orchestrator and the threads only write over rows; a row they remove is
\* in Deleting.
LEMMA TameSteps ==
    ASSUME TypeOK, LaunchParts,
           \/ OrchestratorNext
           \/ \E t \in Thread : ThreadRuns(t) \/ ThreadFails(t) \/ ActionIsQueued(t)
    PROVE  /\ UNCHANGED feed
           /\ \A h \in Hyps :
                /\ Tame(hyp[h], hyp'[h])
                /\ hyp[h].present /\ ~hyp'[h].present => hyp[h].status = "Deleting"
<1> DEFINE good(h, new) ==
             /\ Tame(hyp[h], new)
             /\ hyp[h].present /\ ~new.present => hyp[h].status = "Deleting"
<1>1. \A h \in Hyps : hyp[h] \in HypRow /\ good(h, hyp[h])
  BY DEF TypeOK, Tame
<1>2. ASSUME NEW h \in Hyps, NEW new, hyp' = [hyp EXCEPT ![h] = new], good(h, new)
      PROVE  \A i \in Hyps : good(i, hyp'[i])
  <2>1. \A i \in Hyps : hyp'[i] = IF i = h THEN new ELSE hyp[i]
    BY <1>2 DEF TypeOK
  <2> QED
    BY <1>1, <1>2, <2>1
<1>3. CASE OrchestratorNext
  <2>1. UNCHANGED feed
    <3>1. OrchestratorPoll => UNCHANGED feed
      BY DEF OrchestratorPoll
    <3>2. OrchestratorEnable => UNCHANGED feed
      BY DEF OrchestratorEnable, Take
    <3>3. OrchestratorDisable => UNCHANGED feed
      BY DEF OrchestratorDisable, Take
    <3>4. \A k \in Kinds : OrchestratorThreadDead(k) => UNCHANGED feed
      BY DEF OrchestratorThreadDead, Take
    <3> QED
      BY <1>3, <3>1, <3>2, <3>3, <3>4 DEF OrchestratorNext
  <2>2. ASSUME NEW launch, Launch(launch) PROVE \A h \in Hyps : good(h, hyp'[h])
    <3>1. \A h \in Hyps : hyp'[h] = Starting(hyp[h], launch[h])
      BY <2>2 DEF Launch
    <3>2. \A h \in Hyps : Starting(hyp[h], launch[h]).present = hyp[h].present
      BY <1>1 DEF Starting, HypRow
    <3> QED
      BY <1>1, <3>1, <3>2, TameRewriting
  <2>3. CASE OrchestratorPoll
    BY <2>1, <2>2, <2>3 DEF OrchestratorPoll
  <2>4. CASE OrchestratorEnable
    BY <1>1, <2>1, <2>2, <2>4 DEF OrchestratorEnable
  <2>5. CASE OrchestratorDisable
    <3> DEFINE h == Head(qActions).hyp
    <3>1. h \in Hyps
      BY <2>5, TakeType DEF OrchestratorDisable
    <3>2. \/ UNCHANGED hyp
          \/ \E kinds, was : hyp' = [hyp EXCEPT ![h] = Stopping(hyp[h], kinds, was)]
      BY <2>5 DEF OrchestratorDisable
    <3> HIDE DEF h
    <3>3. \A kinds, was : Stopping(hyp[h], kinds, was).present = hyp[h].present
      BY <1>1, <3>1 DEF Stopping, UpdateHypStatus, HypRow
    <3>4. \A kinds, was : good(h, Stopping(hyp[h], kinds, was))
      BY <1>1, <3>1, <3>3, TameRewriting
    <3> QED
      BY <1>1, <1>2, <2>1, <3>1, <3>2, <3>4
  <2>6. ASSUME NEW k \in Kinds, OrchestratorThreadDead(k)
        PROVE  \A h \in Hyps : good(h, hyp'[h])
    <3> DEFINE h == Head(qActions).hyp
    <3>1. h \in Hyps
      BY <2>6, TakeType DEF OrchestratorThreadDead
    <3>2. \/ UNCHANGED hyp
          \/ hyp' = [hyp EXCEPT ![h] = ThreadNotStarted(hyp[h], Caps[h], k, "Stopped")]
      BY <2>6 DEF OrchestratorThreadDead
    <3> HIDE DEF h
    <3>3. good(h, ThreadNotStarted(hyp[h], Caps[h], k, "Stopped"))
      BY <1>1, <3>1, TameRewriting
    <3> QED
      BY <1>1, <1>2, <3>1, <3>2, <3>3
  <2> QED
    BY <1>3, <2>1, <2>3, <2>4, <2>5, <2>6 DEF OrchestratorNext
<1>4. ASSUME NEW t \in Thread, ThreadRuns(t) \/ ThreadFails(t) \/ ActionIsQueued(t)
      PROVE  UNCHANGED feed /\ \A h \in Hyps : good(h, hyp'[h])
  <2>1. t.hyp \in Hyps
    BY ThreadTypes
  <2> DEFINE row == hyp[t.hyp]
             caps == Caps[t.hyp]
  <2>2. /\ UNCHANGED feed
        /\ \/ UNCHANGED hyp
           \/ \E new \in {UpdateHypStatus(row, "Error"), UpdateHypStatus(row, "Online"),
                          ThreadStarted(row, caps, t.kind),
                          ThreadNotStarted(row, caps, t.kind, "Stopping")} :
                hyp' = [hyp EXCEPT ![t.hyp] = new]
    <3>1. CASE WorkerLosesHyp(t)
      <4>1. hyp' = [hyp EXCEPT ![t.hyp] =
                      IF row.status = "Online" THEN UpdateHypStatus(row, "Error") ELSE row]
        BY <3>1 DEF WorkerLosesHyp
      <4>2. [hyp EXCEPT ![t.hyp] = row] = hyp
        BY <2>1 DEF TypeOK
      <4> QED
        BY <3>1, <4>1, <4>2 DEF WorkerLosesHyp, OnlyThread
    <3>2. CASE WorkerConnects(t) \/ DiskStarts(t)
      BY <3>2 DEF WorkerConnects, DiskStarts, OnlyThread
    <3>3. CASE WorkerCannotConnect(t) \/ WorkerHasNoKvm(t) \/ WorkerReconnects(t)
      BY <3>3 DEF WorkerCannotConnect, WorkerHasNoKvm, WorkerReconnects, OnlyThread
    <3>4. CASE ThreadReportsDeath(t)
      BY <3>4 DEF ThreadReportsDeath
    <3>5. CASE \/ WorkerChecksKvm(t) \/ WorkerSkipsKvm(t) \/ DiskIsToldToStop(t)
               \/ ThreadServes(t) \/ ThreadLeavesLoop(t) \/ ThreadLosesRow(t)
               \/ DiskCannotStart(t) \/ ThreadCrashes(t) \/ ActionIsQueued(t)
      BY <3>5 DEF WorkerChecksKvm, WorkerSkipsKvm, DiskIsToldToStop, ThreadServes,
         ThreadLeavesLoop, ThreadLosesRow, DiskCannotStart, ThreadCrashes, ActionIsQueued,
         OnlyThread
    <3> QED
      BY <1>4, <3>1, <3>2, <3>3, <3>4, <3>5 DEF ThreadRuns, ThreadFails
  <2>3. \A s \in {"Error", "Online"} : UpdateHypStatus(row, s).present = row.present
    BY <1>1, <2>1, StatusFields
  <2>4. ThreadStarted(row, caps, t.kind).present = row.present
    BY <1>1, <2>1, StartedFields, ThreadTypes
  <2>5. \A new \in {UpdateHypStatus(row, "Error"), UpdateHypStatus(row, "Online"),
                    ThreadStarted(row, caps, t.kind),
                    ThreadNotStarted(row, caps, t.kind, "Stopping")} : good(t.hyp, new)
    BY <1>1, <2>1, <2>3, <2>4, TameRewriting
  <2> HIDE DEF row, caps
  <2> QED
    BY <1>1, <1>2, <2>1, <2>2, <2>5
<1> QED
  BY <1>3, <1>4

\* A write of an administrator that enables nobody.
LEMMA WriteKeepsDisabled ==
    ASSUME TypeOK, DeletingIsDisabled, RemovalsOfDisabled,
           NEW h \in Hyps, NEW new, Write(h, new), new.present,
           new.enabled => hyp[h].enabled,
           new.status = "Deleting" => hyp[h].status = "Deleting" \/ ~new.enabled
    PROVE  /\ DeletingIsDisabled' /\ RemovalsOfDisabled'
           /\ \A i \in Hyps : hyp[i].present => hyp'[i].present
<1>1. /\ \A i \in Hyps : hyp'[i] = IF i = h THEN new ELSE hyp[i]
      /\ feed' = feed \o Reaction(h, hyp[h], new) \/ feed' = feed
      /\ feed \in Seq(Action)
  BY DEF Write, TypeOK
<1>2. DeletingIsDisabled'
  BY <1>1 DEF DeletingIsDisabled
<1>3. \A i \in DOMAIN feed : feed[i].type = "delete" =>
        feed[i].hyp \in Hyps /\ ~hyp'[feed[i].hyp].enabled
  BY <1>1 DEF RemovalsOfDisabled
<1>4. \/ Reaction(h, hyp[h], new) = <<>>
      \/ \E a : /\ Reaction(h, hyp[h], new) = <<a>>
                /\ a.type = "delete" => a.hyp = h /\ ~hyp[h].enabled
  <2>1. \A type, row : NewAction(type, h, row).type = type /\ NewAction(type, h, row).hyp = h
    BY DEF NewAction
  <2>2. \/ Reaction(h, hyp[h], new) = <<>>
        \/ Reaction(h, hyp[h], new) = <<NewAction("enable_hyper", h, new)>>
        \/ Reaction(h, hyp[h], new) = <<NewAction("disable_hyper", h, new)>>
        \/ /\ Reaction(h, hyp[h], new) = <<NewAction("delete", h, new)>>
           /\ ~hyp[h].enabled
    BY DEF Reaction
  <2> QED
    BY <2>1, <2>2
<1>5. RemovalsOfDisabled'
  <2>1. CASE feed' = feed \/ Reaction(h, hyp[h], new) = <<>>
    <3>1. feed' = feed
      BY <1>1, <2>1
    <3> QED
      BY <1>3, <3>1 DEF RemovalsOfDisabled
  <2>2. ASSUME NEW a, feed' = feed \o <<a>>, a.type = "delete" => a.hyp = h /\ ~hyp[h].enabled
        PROVE  RemovalsOfDisabled'
    <3>1. \A i \in DOMAIN feed' : feed'[i] = a \/ (i \in DOMAIN feed /\ feed'[i] = feed[i])
      BY <1>1, <2>2
    <3>2. a.type = "delete" => a.hyp \in Hyps /\ ~hyp'[a.hyp].enabled
      BY <1>1, <2>2
    <3> QED
      BY <1>3, <3>1, <3>2 DEF RemovalsOfDisabled
  <2> QED
    BY <1>1, <1>4, <2>1, <2>2
<1> QED
  BY <1>1, <1>2, <1>5

LEMMA FreshKeepsDisabled ==
    ASSUME NEW rows \in [Hyps -> HypRow], FreshEngine(rows)
    PROVE  DeletingIsDisabled' /\ RemovalsOfDisabled' /\ orch' = "first"
<1>1. \A h \in Hyps : RowAfterEngineStart(rows[h]).status # "Deleting"
  BY DEF RowAfterEngineStart, NoRow, HypRow
<1> QED
  BY <1>1 DEF FreshEngine, DeletingIsDisabled, RemovalsOfDisabled

LEMMA AdministratorKeepsDisabled ==
    ASSUME TypeOK, DeletingIsDisabled, RemovalsOfDisabled, NoEnabling, AdministratorNext
    PROVE  /\ DeletingIsDisabled' /\ RemovalsOfDisabled'
           /\ \A h \in Hyps : hyp[h].present /\ ~hyp'[h].present => orch' = "first"
<1>1. CASE EngineRestart
  BY <1>1, FreshKeepsDisabled DEF EngineRestart, TypeOK
<1>2. ASSUME NEW h \in Hyps, DisableHyper(h) \/ RemoveHyper(h) \/ \E e \in BOOLEAN : InsertHyper(h, e)
      PROVE  \E new : /\ Write(h, new) /\ new.present /\ ~new.enabled
  <2> DEFINE d == [hyp[h] EXCEPT !.enabled = FALSE]
             r == [hyp[h] EXCEPT !.enabled = FALSE, !.status = "Deleting"]
             n == [NoRow EXCEPT !.present = TRUE, !.enabled = FALSE]
  <2>1. hyp[h] \in HypRow
    BY DEF TypeOK
  <2>2. /\ ~d.enabled /\ d.present = hyp[h].present
        /\ ~r.enabled /\ r.present = hyp[h].present
        /\ ~n.enabled /\ n.present
    BY <2>1 DEF HypRow, NoRow
  <2>3. CASE DisableHyper(h) \/ RemoveHyper(h)
    <3>1. (Write(h, d) \/ Write(h, r)) /\ hyp[h].present
      BY <2>3 DEF DisableHyper, RemoveHyper
    <3> HIDE DEF d, r, n
    <3> QED
      BY <2>2, <3>1
  <2>4. ASSUME NEW e \in BOOLEAN, InsertHyper(h, e)
        PROVE  Write(h, n)
    <3>1. e = FALSE
      BY <2>4 DEF InsertHyper, Administrator, NoEnabling
    <3> QED
      BY <2>4, <3>1 DEF InsertHyper
  <2> HIDE DEF d, r, n
  <2> QED
    BY <1>2, <2>2, <2>3, <2>4
<1>3. ASSUME NEW h \in Hyps, ApiEnableHyper(h)
      PROVE  \E rows \in [Hyps -> HypRow] : FreshEngine(rows)
  <2>1. [hyp EXCEPT ![h].enabled = TRUE] \in [Hyps -> HypRow]
    BY DEF TypeOK, HypRow
  <2> QED
    BY <1>3, <2>1 DEF ApiEnableHyper
<1>4. ASSUME NEW h \in Hyps, RegisterHyper(h)
      PROVE  \/ \E rows \in [Hyps -> HypRow] : FreshEngine(rows)
             \/ \E new : /\ Write(h, new) /\ new.present /\ new.enabled = hyp[h].enabled
                         /\ new.status \in {"Offline", hyp[h].status}
  <2> DEFINE written == [hyp EXCEPT ![h].status = "Offline"]
  <2>1. hyp[h] \in HypRow /\ hyp[h].present
    BY <1>4 DEF TypeOK, RegisterHyper
  <2>2. written \in [Hyps -> HypRow]
    BY DEF TypeOK, HypRow, HypStatus
  <2>3. /\ written[h].present = hyp[h].present /\ written[h].enabled = hyp[h].enabled
        /\ written[h].status = "Offline"
    BY <2>1, <2>2 DEF TypeOK, HypRow
  <2>4. FreshEngine(written) \/ Write(h, written[h]) \/ Write(h, hyp[h])
    BY <1>4 DEF RegisterHyper
  <2> HIDE DEF written
  <2> QED
    BY <2>1, <2>2, <2>3, <2>4
<1>5. ~\E h \in Hyps : EnableHyper(h)
  BY DEF EnableHyper, Administrator, NoEnabling
<1>6. CASE \E rows \in [Hyps -> HypRow] : FreshEngine(rows)
  BY <1>6, FreshKeepsDisabled
<1>7. ASSUME NEW h \in Hyps, NEW new, Write(h, new), new.present,
             new.enabled => hyp[h].enabled,
             new.status = "Deleting" => hyp[h].status = "Deleting" \/ ~new.enabled
      PROVE  /\ DeletingIsDisabled' /\ RemovalsOfDisabled'
             /\ \A i \in Hyps : hyp[i].present => hyp'[i].present
  BY <1>7, WriteKeepsDisabled
<1> QED
  BY <1>1, <1>2, <1>3, <1>4, <1>5, <1>6, <1>7 DEF AdministratorNext

LEMMA ChangesKeepDisabled ==
    ASSUME TypeOK, DeletingIsDisabled, RemovalsOfDisabled, ChangesThread
    PROVE  /\ DeletingIsDisabled' /\ RemovalsOfDisabled'
           /\ \A h \in Hyps : hyp[h].present /\ ~hyp'[h].present =>
                /\ ~hyp[h].enabled
                /\ feed # <<>> /\ feed' = Tail(feed)
                /\ Head(feed).type = "delete" /\ Head(feed).hyp = h
<1> DEFINE c == Head(feed)
<1>1. feed \in Seq(Action) /\ feed # <<>> /\ feed' = Tail(feed) /\ c = feed[1] /\ 1 \in DOMAIN feed
  BY DEF ChangesThread, TypeOK
<1>2. \A i \in DOMAIN feed' : i + 1 \in DOMAIN feed /\ feed'[i] = feed[i + 1]
  BY <1>1
<1>3. ~NoRow.enabled /\ NoRow.status # "Deleting"
  BY DEF NoRow
<1>4. \/ UNCHANGED hyp
      \/ c.type = "delete" /\ hyp' = [hyp EXCEPT ![c.hyp] = NoRow]
  BY DEF ChangesThread
<1>5. \A h \in Hyps : \/ hyp'[h] = hyp[h]
                      \/ hyp'[h] = NoRow /\ c.type = "delete" /\ c.hyp = h
  BY <1>4 DEF TypeOK
<1> HIDE DEF c
<1>6. DeletingIsDisabled'
  BY <1>3, <1>5 DEF DeletingIsDisabled
<1>7. RemovalsOfDisabled'
  BY <1>2, <1>3, <1>5 DEF RemovalsOfDisabled
<1>8. \A h \in Hyps : hyp[h].present /\ ~hyp'[h].present =>
        ~hyp[h].enabled /\ c.type = "delete" /\ c.hyp = h
  BY <1>1, <1>5 DEF RemovalsOfDisabled
<1> QED
  BY <1>1, <1>6, <1>7, <1>8 DEF c

\* What may be said of one hypervisor that leaves the table.
RemovalIsDue(h) ==
    hyp[h].present /\ ~hyp'[h].present /\ orch' # "first" =>
      /\ ~hyp[h].enabled
      /\ \/ \A t \in Thread : t.hyp = h => pc[t] \notin Alive
         \/ /\ feed # <<>> /\ feed' = Tail(feed)
            /\ Head(feed).type = "delete" /\ Head(feed).hyp = h

LEMMA RemovalStep ==
    ASSUME TypeOK, LaunchParts, AliveIsNeeded, StoppedIsGone,
           DeletingIsDisabled, RemovalsOfDisabled, NoEnabling, [Next]_vars
    PROVE  /\ DeletingIsDisabled' /\ RemovalsOfDisabled'
           /\ \A h \in Hyps : RemovalIsDue(h)
<1>1. CASE UNCHANGED vars
  BY <1>1 DEF vars, DeletingIsDisabled, RemovalsOfDisabled, RemovalIsDue
<1>2. CASE AdministratorNext
  BY <1>2, AdministratorKeepsDisabled DEF RemovalIsDue
<1>3. CASE ChangesThread
  BY <1>3, ChangesKeepDisabled DEF RemovalIsDue
<1>4. CASE \/ OrchestratorNext
           \/ \E t \in Thread : ThreadRuns(t) \/ ThreadFails(t) \/ ActionIsQueued(t)
  <2>1. /\ UNCHANGED feed
        /\ \A h \in Hyps :
             /\ Tame(hyp[h], hyp'[h])
             /\ hyp[h].present /\ ~hyp'[h].present => hyp[h].status = "Deleting"
    BY <1>4, TameSteps
  <2>2. DeletingIsDisabled' /\ RemovalsOfDisabled'
    BY <2>1, TameKeeps
  <2>3. \A h \in Hyps :
          hyp[h].present /\ ~hyp'[h].present /\ feed' = feed /\ orch' # "first" =>
            \A t \in Thread : t.hyp = h => pc[t] \notin Alive
    BY ForgettingStep
  <2> QED
    BY <2>1, <2>2, <2>3 DEF RemovalIsDue, DeletingIsDisabled
<1> QED
  BY <1>1, <1>2, <1>3, <1>4 DEF Next

LEMMA RemovalInit == Init => DeletingIsDisabled /\ RemovalsOfDisabled
<1> SUFFICES ASSUME Init PROVE DeletingIsDisabled /\ RemovalsOfDisabled
  OBVIOUS
<1>1. \A h \in Hyps : hyp[h].status = "Offline"
  BY DEF Init, NoRow
<1> QED
  BY <1>1 DEF Init, DeletingIsDisabled, RemovalsOfDisabled

\* As long as no hypervisor is enabled while the engine runs: a row that
\* leaves the table of the running engine is the row of a disabled hypervisor.
\* Either no thread of it runs, of whatever kind, or HypervisorChangesThread
\* removes it over the threads that run, because that was asked for when the
\* hypervisor was Error or Offline.
THEOREM HypervisorsLeaveWhenDue == NoEnabling => (Spec => RemovalsAreDue)
<1> SUFFICES ASSUME NoEnabling PROVE Spec => RemovalsAreDue
  OBVIOUS
<1>1. LaunchInv => TypeOK /\ LaunchParts
  BY DEF LaunchInv, LaunchParts
<1>2. LaunchInv /\ AliveIsNeeded /\ StoppedIsGone /\ [Next]_vars => AliveIsNeeded' /\ StoppedIsGone'
  BY <1>1, ForgettingStep
<1>3. LaunchInv /\ AliveIsNeeded /\ StoppedIsGone /\ DeletingIsDisabled /\ RemovalsOfDisabled
        /\ [Next]_vars =>
        /\ DeletingIsDisabled' /\ RemovalsOfDisabled'
        /\ \A h \in Hyps : RemovalIsDue(h)
  BY <1>1, RemovalStep
<1>4. (\A h \in Hyps : RemovalIsDue(h)) =>
        [\A h \in Hyps :
          hyp[h].present /\ ~hyp'[h].present /\ orch' # "first" =>
            /\ ~hyp[h].enabled
            /\ \/ \A t \in Thread : t.hyp = h => pc[t] \notin Alive
               \/ /\ feed # <<>> /\ feed' = Tail(feed)
                  /\ Head(feed).type = "delete" /\ Head(feed).hyp = h]_vars
  BY DEF RemovalIsDue
<1> QED
  BY <1>2, <1>3, <1>4, ForgettingInit, RemovalInit, LaunchInvariant, PTL DEF Spec, RemovalsAreDue

----------------------------------------------------------------------------
(* The thread of the orchestrator never ends.                              *)

\* Nobody enables a hypervisor in the running engine, no worker reconnects,
\* and nothing is removed, or only by the one operation there is.
Peaceful ==
    /\ NoEnabling
    /\ "reconnect" \notin Faults
    /\ "remove" \notin AdminOps \/ MaxAdmin <= 1

\* The thread of a kind that is not written Stopped, of a hypervisor that is
\* in the table and must have it, is all the dictionaries hold.
RegisteredIsKnown ==
    \A t \in reg : /\ hyp[t.hyp].present
                   /\ hyp[t.hyp].ts[t.kind] \notin {"Stopped", "none"}
                   /\ t.kind \in KindsOf(Caps[t.hyp])

EnabledIsWhole ==
    \A h \in Hyps : hyp[h].enabled =>
        /\ hyp[h].present /\ hyp[h].status # "Deleting"
        /\ \A k \in Kinds : hyp[h].ts[k] # "none"

\* A row that is about to be deleted has no threads.
DeletedIsIdle ==
    \A i \in DOMAIN feed : feed[i].type = "delete" =>
        /\ ~hyp[feed[i].hyp].enabled
        /\ \A t \in reg : t.hyp # feed[i].hyp

\* What disable_hyper finds in the copy of the row: all keys, and Online only
\* if the row stays.
StaysThere(h) ==
    /\ hyp[h].present /\ hyp[h].status # "Deleting"
    /\ \A i \in DOMAIN feed : feed[i].type = "delete" => feed[i].hyp # h
DisabledHasRow(a) ==
    a.type = "disable_hyper" =>
        /\ \A k \in Kinds : a.row.ts[k] # "none"
        /\ a.row.status = "Online" => StaysThere(a.hyp)
ActionsHaveRows ==
    /\ \A i \in DOMAIN feed : DisabledHasRow(feed[i])
    /\ \A i \in DOMAIN qActions : DisabledHasRow(qActions[i])

\* Before the first operation of an administrator nothing waits, and what is
\* disabled has no threads.
Untouched ==
    admin = 0 =>
        /\ DOMAIN feed = {}
        /\ \A i \in DOMAIN qActions : qActions[i].type # "disable_hyper"
        /\ \A t \in reg : hyp[t.hyp].enabled

\* What collecting a death relies on: the row is there and not Online.
OnlineIsStarted ==
    \A h \in Hyps : hyp[h].status = "Online" => \A k \in KindsOf(Caps[h]) : hyp[h].ts[k] = "Started"
ReportIsStopping ==
    \A i \in DOMAIN qActions, k \in Kinds, h \in Hyps :
        IsDead(qActions[i], k, h) => hyp[h].present /\ hyp[h].ts[k] = "Stopping"

RegistryParts ==
    RegisteredIsKnown /\ EnabledIsWhole /\ DeletedIsIdle /\ ActionsHaveRows /\ Untouched
SurvivalParts == OrchestratorSurvives /\ RegistryParts /\ OnlineIsStarted /\ ReportIsStopping

\* A row goes, after its threads, or keeps what is said about it.
RowStays(old, new, forgotten) ==
    /\ new.present = old.present /\ new.enabled = old.enabled
    /\ new.status = "Deleting" => old.status = "Deleting"
    /\ \A k \in Kinds : new.ts[k] \in {"Stopped", "none"} =>
         \/ new.ts[k] = old.ts[k]
         \/ k \in forgotten /\ new.ts[k] = "Stopped"
Forgotten(h, registered) == {k \in Kinds : \A t \in registered : ~(t.kind = k /\ t.hyp = h)}
MayGo(h) == hyp[h].status = "Deleting" \/ \E i \in DOMAIN feed : feed[i].type = "delete" /\ feed[i].hyp = h

\* All steps but those of administrators: threads are forgotten, or launched
\* for enabled hypervisors, and the changefeed is delivered.
LEMMA RegistryKeeps ==
    ASSUME TypeOK, TypeOK', RegistryParts, admin' = admin,
           \A t \in reg' :
             \/ t \in reg
             \/ /\ hyp[t.hyp].enabled /\ t.kind \in KindsOf(Caps[t.hyp])
                /\ hyp'[t.hyp].ts[t.kind] = "Starting",
           \A h \in Hyps :
             \/ hyp'[h] = NoRow /\ MayGo(h) /\ \A t \in reg' : t.hyp # h
             \/ RowStays(hyp[h], hyp'[h], Forgotten(h, reg')),
           \A i \in DOMAIN feed' : \E j \in DOMAIN feed : feed'[i] = feed[j],
           \A i \in DOMAIN qActions' :
             \/ \E j \in DOMAIN qActions : qActions'[i] = qActions[j]
             \/ \E j \in DOMAIN feed : qActions'[i] = feed[j]
             \/ qActions'[i].type # "disable_hyper"
    PROVE  RegistryParts'
<1>0. /\ \A t \in reg' : t.hyp \in Hyps /\ t.kind \in Kinds
      /\ \A t \in reg : t.hyp \in Hyps /\ t.kind \in Kinds
      /\ \A i \in DOMAIN feed : feed[i].hyp \in Hyps
      /\ \A i \in DOMAIN qActions : qActions[i].hyp \in Hyps
  <2>1. \A t \in Thread : t.hyp \in Hyps /\ t.kind \in Kinds
    BY DEF Thread
  <2>2. reg \subseteq Thread /\ reg' \subseteq Thread
    BY DEF TypeOK
  <2>3. \A a \in Action : a.hyp \in Hyps
    BY DEF Action
  <2>4. feed \in Seq(Action) /\ qActions \in Seq(Action)
    BY DEF TypeOK
  <2>5. \A i \in DOMAIN feed : feed[i] \in Action
    BY <2>4
  <2>6. \A i \in DOMAIN qActions : qActions[i] \in Action
    BY <2>4
  <2> QED
    BY <2>1, <2>2, <2>3, <2>5, <2>6
<1>1. ~NoRow.enabled /\ ~NoRow.present /\ NoRow.status = "Offline"
  BY DEF NoRow
<1>2. \A h \in Hyps : hyp'[h].enabled =>
        /\ hyp[h].enabled /\ RowStays(hyp[h], hyp'[h], Forgotten(h, reg'))
  BY <1>1 DEF RowStays
<1>3. \A t \in reg' : RowStays(hyp[t.hyp], hyp'[t.hyp], Forgotten(t.hyp, reg'))
  BY <1>0
<1>4. RegisteredIsKnown'
  <2> SUFFICES ASSUME NEW t \in reg'
               PROVE  /\ hyp'[t.hyp].present
                      /\ hyp'[t.hyp].ts[t.kind] \notin {"Stopped", "none"}
                      /\ t.kind \in KindsOf(Caps[t.hyp])
    BY DEF RegisteredIsKnown
  <2>1. t.hyp \in Hyps /\ t.kind \in Kinds
    BY <1>0
  <2>2. t.kind \notin Forgotten(t.hyp, reg')
    BY DEF Forgotten
  <2>3. CASE t \in reg
    BY <1>3, <2>1, <2>2, <2>3 DEF RegistryParts, RegisteredIsKnown, RowStays
  <2>4. CASE t \notin reg
    BY <1>3, <2>1, <2>4 DEF RegistryParts, EnabledIsWhole, RowStays
  <2> QED
    BY <2>3, <2>4
<1>5. EnabledIsWhole'
  <2> SUFFICES ASSUME NEW h \in Hyps, hyp'[h].enabled
               PROVE  /\ hyp'[h].present /\ hyp'[h].status # "Deleting"
                      /\ \A k \in Kinds : hyp'[h].ts[k] # "none"
    BY DEF EnabledIsWhole
  <2>1. hyp[h].enabled /\ RowStays(hyp[h], hyp'[h], Forgotten(h, reg'))
    BY <1>2
  <2>2. /\ hyp[h].present /\ hyp[h].status # "Deleting"
        /\ \A k \in Kinds : hyp[h].ts[k] # "none"
    BY <2>1 DEF RegistryParts, EnabledIsWhole
  <2> QED
    BY <2>1, <2>2 DEF RowStays
<1>6. DeletedIsIdle'
  <2> SUFFICES ASSUME NEW i \in DOMAIN feed', feed'[i].type = "delete"
               PROVE  /\ ~hyp'[feed'[i].hyp].enabled
                      /\ \A t \in reg' : t.hyp # feed'[i].hyp
    BY DEF DeletedIsIdle
  <2>1. PICK j \in DOMAIN feed : feed'[i] = feed[j]
    OBVIOUS
  <2>2. /\ ~hyp[feed[j].hyp].enabled /\ feed[j].hyp \in Hyps
        /\ \A t \in reg : t.hyp # feed[j].hyp
    BY <1>0, <2>1 DEF RegistryParts, DeletedIsIdle
  <2> QED
    BY <1>2, <2>1, <2>2
<1>7. \A a : a.hyp \in Hyps /\ StaysThere(a.hyp) => StaysThere(a.hyp)'
  <2> SUFFICES ASSUME NEW h \in Hyps, StaysThere(h) PROVE StaysThere(h)'
    OBVIOUS
  <2>1. RowStays(hyp[h], hyp'[h], Forgotten(h, reg'))
    BY DEF StaysThere, MayGo
  <2> QED
    BY <2>1 DEF StaysThere, RowStays
<1>8. \A a : a.hyp \in Hyps /\ DisabledHasRow(a) => DisabledHasRow(a)'
  BY <1>7 DEF DisabledHasRow
<1>9. ActionsHaveRows'
  <2>1. \A i \in DOMAIN feed' : DisabledHasRow(feed[i])'
    BY <1>0, <1>8 DEF RegistryParts, ActionsHaveRows
  <2>2. \A i \in DOMAIN qActions' : DisabledHasRow(qActions[i])'
    BY <1>0, <1>8 DEF RegistryParts, ActionsHaveRows, DisabledHasRow
  <2> QED
    BY <2>1, <2>2 DEF ActionsHaveRows
<1>10. Untouched'
  <2> SUFFICES ASSUME admin = 0
               PROVE  /\ DOMAIN feed' = {}
                      /\ \A i \in DOMAIN qActions' : qActions'[i].type # "disable_hyper"
                      /\ \A t \in reg' : hyp'[t.hyp].enabled
    BY DEF Untouched
  <2>1. /\ DOMAIN feed = {}
        /\ \A i \in DOMAIN qActions : qActions[i].type # "disable_hyper"
        /\ \A t \in reg : hyp[t.hyp].enabled
    BY DEF RegistryParts, Untouched
  <2>2. \A t \in reg' : hyp'[t.hyp].enabled
    BY <1>3, <2>1 DEF RowStays
  <2> QED
    BY <2>1, <2>2
<1> QED
  BY <1>4, <1>5, <1>6, <1>9, <1>10 DEF RegistryParts

\* What the rewritings of rows do to the status and to what RowStays tells.
LEMMA RowsStay ==
    ASSUME NEW row \in HypRow, NEW kinds, NEW was, NEW caps, NEW k \in Kinds, NEW gone
    PROVE  /\ LET new == Starting(row, kinds)
              IN  RowStays(row, new, gone) /\ (new.status = "Online" => row.status = "Online")
           /\ LET new == Stopping(row, kinds, was)
              IN  /\ RowStays(row, new, gone)
                  /\ \A j \in Kinds : new.ts[j] \in {row.ts[j], "Stopping"}
                  /\ new.status = "Online" =>
                       row.status = "Online" /\ \A j \in Kinds : new.ts[j] = row.ts[j]
           /\ RowStays(row, ThreadStarted(row, caps, k), gone)
           /\ RowStays(row, UpdateHypStatus(row, "Error"), gone)
           /\ RowStays(row, row, gone)
<1>1. LET new == Starting(row, kinds)
      IN  RowStays(row, new, gone) /\ (new.status = "Online" => row.status = "Online")
  BY DEF Starting, RowStays, HypRow
<1>2. LET new == Stopping(row, kinds, was)
      IN  /\ RowStays(row, new, gone)
          /\ \A j \in Kinds : new.ts[j] \in {row.ts[j], "Stopping"}
          /\ new.status = "Online" =>
               row.status = "Online" /\ \A j \in Kinds : new.ts[j] = row.ts[j]
  BY DEF Stopping, UpdateHypStatus, RowStays, HypRow
<1>3. RowStays(row, ThreadStarted(row, caps, k), gone)
  BY DEF ThreadStarted, UpdateHypStatus, RowStays, HypRow
<1>4. RowStays(row, UpdateHypStatus(row, "Error"), gone) /\ RowStays(row, row, gone)
  BY DEF UpdateHypStatus, RowStays, HypRow
<1> QED
  BY <1>1, <1>2, <1>3, <1>4

\* A thread that is not started: the row goes when it was about to and was
\* waiting for nothing else.
LEMMA NotStartedStays ==
    ASSUME NEW row \in HypRow, NEW caps, NEW k \in Kinds, NEW s \in {"Stopping", "Stopped"},
           NEW gone, s = "Stopped" => k \in gone
    PROVE  LET new == ThreadNotStarted(row, caps, k, s)
           IN  /\ new.status # "Online"
               /\ \/ /\ new = NoRow /\ row.status = "Deleting"
                     /\ \A j \in KindsOf(caps) : IF j = k THEN s = "Stopped" ELSE row.ts[j] = "Stopped"
                  \/ /\ RowStays(row, new, gone)
                     /\ \A j \in Kinds : new.ts[j] = IF j = k THEN s ELSE row.ts[j]
<1> DEFINE updated == [row EXCEPT !.ts[k] = s]
           off == UpdateHypStatus(updated, "Offline")
           new == ThreadNotStarted(row, caps, k, s)
<1>1. /\ \A j \in Kinds : updated.ts[j] = IF j = k THEN s ELSE row.ts[j]
      /\ updated.present = row.present /\ updated.enabled = row.enabled /\ updated.status = row.status
  BY DEF HypRow
<1>2. /\ off.ts = updated.ts /\ off.present = updated.present /\ off.enabled = updated.enabled
      /\ off.status = "Offline"
  BY DEF UpdateHypStatus, HypRow
<1>3. \/ new = NoRow /\ row.status = "Deleting" /\ \A j \in KindsOf(caps) : updated.ts[j] = "Stopped"
      \/ new = updated /\ row.status # "Online"
      \/ new = off
  BY DEF ThreadNotStarted
<1>4. KindsOf(caps) \subseteq Kinds
  BY DEF KindsOf, Kinds
<1>5. NoRow.status = "Offline"
  BY DEF NoRow
<1> HIDE DEF updated, off, new
<1>6. new.status # "Online"
  BY <1>1, <1>2, <1>3, <1>5
<1>7. CASE new = NoRow /\ row.status = "Deleting" /\ \A j \in KindsOf(caps) : updated.ts[j] = "Stopped"
  BY <1>1, <1>4, <1>6, <1>7 DEF new
<1>8. CASE new = updated \/ new = off
  <2>1. /\ new.ts = updated.ts /\ new.present = row.present /\ new.enabled = row.enabled
        /\ new.status \in {row.status, "Offline"}
    BY <1>1, <1>2, <1>8
  <2>2. RowStays(row, new, gone)
    BY <1>1, <2>1 DEF RowStays
  <2> QED
    BY <1>1, <1>6, <2>1, <2>2 DEF new
<1> QED
  BY <1>3, <1>7, <1>8

----------------------------------------------------------------------------
(* One lemma per actor.                                                    *)

LEMMA SurvivalChanges ==
    ASSUME TypeOK, TypeOK', LaunchParts, SurvivalParts, ChangesThread
    PROVE  SurvivalParts'
<1> DEFINE c == Head(feed)
<1>0. /\ feed \in Seq(Action) /\ qActions \in Seq(Action) /\ feed # <<>>
      /\ feed' = Tail(feed) /\ UNCHANGED <<orch, reg, pc, admin>>
  BY DEF TypeOK, ChangesThread, threadVars
<1>1. /\ 1 \in DOMAIN feed /\ c = feed[1] /\ c.hyp \in Hyps
      /\ \A i \in DOMAIN feed' : i + 1 \in DOMAIN feed /\ feed'[i] = feed[i + 1]
  <2>1. /\ 1 \in DOMAIN feed /\ c = feed[1] /\ c \in Action
        /\ \A i \in DOMAIN feed' : i + 1 \in DOMAIN feed /\ feed'[i] = feed[i + 1]
    BY <1>0
  <2>2. \A a \in Action : a.hyp \in Hyps
    BY DEF Action
  <2> QED
    BY <2>1, <2>2
<1>2. \/ /\ c.type = "delete" /\ hyp' = [hyp EXCEPT ![c.hyp] = NoRow]
         /\ UNCHANGED qActions
      \/ UNCHANGED hyp /\ qActions' = Append(qActions, c)
  BY DEF ChangesThread
<1>3. NothingEnables /\ \A i \in DOMAIN feed : feed[i].type \in {"disable_hyper", "delete"}
  BY DEF LaunchParts, NothingEnables
<1> HIDE DEF c
<1>4. \A i \in DOMAIN feed' : \E j \in DOMAIN feed : feed'[i] = feed[j]
  BY <1>1
<1>5. \A h \in Hyps : \A gone : RowStays(hyp[h], hyp[h], gone)
  BY DEF RowStays, TypeOK, HypRow
<1>6. CASE c.type = "delete" /\ hyp' = [hyp EXCEPT ![c.hyp] = NoRow] /\ UNCHANGED qActions
  <2>1. \A h \in Hyps : hyp'[h] = IF h = c.hyp THEN NoRow ELSE hyp[h]
    BY <1>6 DEF TypeOK
  <2>2. MayGo(c.hyp) /\ \A t \in reg : t.hyp # c.hyp
    BY <1>1, <1>6 DEF MayGo, SurvivalParts, RegistryParts, DeletedIsIdle
  <2>3. RegistryParts'
    BY <1>0, <1>4, <1>5, <1>6, <2>1, <2>2, RegistryKeeps DEF SurvivalParts
  <2>4. NoRow.status # "Online"
    BY DEF NoRow
  <2>5. OnlineIsStarted'
    BY <2>1, <2>4 DEF SurvivalParts, OnlineIsStarted
  <2>6. ReportIsStopping'
    <3> SUFFICES ASSUME NEW i \in DOMAIN qActions, NEW k \in Kinds, NEW h \in Hyps,
                        IsDead(qActions[i], k, h)
                 PROVE  hyp'[h].present /\ hyp'[h].ts[k] = "Stopping"
      BY <1>6 DEF ReportIsStopping, IsDead
    <3>1. PICK t \in Registered(k, h) : pc[t] = "done"
      BY DEF LaunchParts, ReportsAreTrue
    <3>2. h # c.hyp
      BY <2>2, <3>1, RegisteredMember
    <3> QED
      BY <2>1, <3>2 DEF SurvivalParts, ReportIsStopping
  <2> QED
    BY <1>0, <2>3, <2>5, <2>6 DEF SurvivalParts, OrchestratorSurvives
<1>7. CASE UNCHANGED hyp /\ qActions' = Append(qActions, c)
  <2>0. c \in Action
    BY <1>0 DEF c
  <2>1. \A i \in DOMAIN qActions' :
          (i \in DOMAIN qActions /\ qActions'[i] = qActions[i]) \/ qActions'[i] = feed[1]
    BY <1>0, <1>1, <1>7, <2>0, Appended
  <2>2. RegistryParts'
    BY <1>0, <1>1, <1>4, <1>5, <1>7, <2>1, RegistryKeeps DEF SurvivalParts
  <2>3. ReportIsStopping'
    <3>1. \A k \in Kinds : \A h : ~IsDead(feed[1], k, h)
      BY <1>1, <1>3, DeadTypes DEF IsDead
    <3> QED
      BY <1>7, <2>1, <3>1 DEF SurvivalParts, ReportIsStopping, IsDead
  <2> QED
    BY <1>0, <1>7, <2>2, <2>3 DEF SurvivalParts, OrchestratorSurvives, OnlineIsStarted
<1> QED
  BY <1>2, <1>6, <1>7

LEMMA SurvivalPoll ==
    ASSUME TypeOK, TypeOK', LaunchParts, SurvivalParts, OrchestratorPoll
    PROVE  SurvivalParts'
<1> DEFINE L == [h \in Hyps |->
       IF hyp[h].present /\ hyp[h].enabled /\ Startable(hyp[h])
       THEN ToLaunch(h, hyp[h].ts) ELSE {}]
<1>0. PICK launch : launch = L
  OBVIOUS
<1>1. /\ launch \in [Hyps -> SUBSET Kinds] /\ Launch(launch) /\ orch' = "loop"
      /\ UNCHANGED <<feed, qActions, admin>>
  BY <1>0, ToLaunchType DEF TypeOK, HypRow, OrchestratorPoll
<1>2. \A h \in Hyps : \A k \in launch[h] :
        /\ hyp[h].enabled /\ hyp[h].status # "Online" /\ k \in KindsOf(Caps[h])
        /\ hyp[h].ts[k] \in {"none", "Stopped"}
  BY <1>0 DEF ToLaunch, MayLaunch, Startable, KindsOf
<1> HIDE DEF L
<1>3. \A h \in Hyps : hyp'[h] = Starting(hyp[h], launch[h]) /\ hyp[h] \in HypRow
  BY <1>1 DEF Launch, TypeOK
<1>4. /\ \A h \in Hyps, k \in Kinds :
           hyp'[h].ts[k] = IF k \in launch[h] THEN "Starting" ELSE hyp[h].ts[k]
      /\ \A t \in reg' : t \in reg \/ t.kind \in launch[t.hyp]
      /\ \A h \in Hyps : hyp'[h].present = hyp[h].present
  BY <1>1, LaunchSteps
<1>5. \A h \in Hyps : /\ RowStays(hyp[h], hyp'[h], Forgotten(h, reg'))
                      /\ hyp'[h].status = "Online" => hyp[h].status = "Online"
  <2>1. "worker" \in Kinds
    BY DEF Kinds
  <2> QED
    BY <1>3, <2>1, RowsStay
<1>6. \A t \in reg' : t.hyp \in Hyps /\ t.kind \in Kinds
  BY DEF TypeOK, Thread
<1>7. RegistryParts'
  BY <1>1, <1>2, <1>4, <1>5, <1>6, RegistryKeeps DEF SurvivalParts
<1>8. OnlineIsStarted'
  <2>1. \A h \in Hyps : KindsOf(Caps[h]) \subseteq Kinds
    BY DEF KindsOf, Kinds
  <2> QED
    BY <1>2, <1>4, <1>5, <2>1 DEF SurvivalParts, OnlineIsStarted
<1>9. ReportIsStopping'
  BY <1>1, <1>2, <1>4 DEF SurvivalParts, ReportIsStopping, IsDead
<1> QED
  BY <1>1, <1>7, <1>8, <1>9 DEF SurvivalParts, OrchestratorSurvives

\* What is left of the queue when an action was taken that is no report, and
\* the rows keep the statuses Stopping.
LEMMA ReportsStay ==
    ASSUME SurvivalParts, \A i \in DOMAIN qActions' : \E j \in DOMAIN qActions : qActions'[i] = qActions[j],
           \A h \in Hyps, k \in Kinds : hyp[h].present /\ hyp[h].ts[k] = "Stopping" =>
             hyp'[h].present /\ hyp'[h].ts[k] = "Stopping"
    PROVE  ReportIsStopping'
BY DEF SurvivalParts, ReportIsStopping, IsDead

LEMMA SurvivalDisable ==
    ASSUME TypeOK, TypeOK', LaunchParts, SurvivalParts, OrchestratorDisable
    PROVE  SurvivalParts'
<1>0. PICK a \in Action : a = Head(qActions)
  BY TakeType DEF OrchestratorDisable
<1>1. PICK h \in Hyps : h = a.hyp
  BY <1>0 DEF Action
<1> DEFINE wasOnline == a.row.status = "Online"
           visited == {k \in Kinds : Registered(k, h) # {}}
           toStop  == {k \in visited : a.row.ts[k] = "Started"}
           raises  == {k \in visited : a.row.ts[k] = "none"}
           reached == {k \in toStop : raises \cap Before(k) = {}}
<1>2. /\ Take({"disable_hyper"}) /\ UNCHANGED <<reg, admin, feed>> /\ orch = "loop"
      /\ IF ~hyp[h].present
         THEN /\ UNCHANGED hyp
              /\ orch' = IF wasOnline \/ toStop # {} \/ raises # {} THEN "dead" ELSE orch
         ELSE /\ hyp' = [hyp EXCEPT ![h] = Stopping(@, reached, wasOnline)]
              /\ orch' = IF raises # {} THEN "dead" ELSE orch
  BY <1>0, <1>1 DEF OrchestratorDisable, Take
<1>3. /\ 1 \in DOMAIN qActions /\ a = qActions[1] /\ a.type = "disable_hyper"
      /\ \A i \in DOMAIN qActions' : \E j \in DOMAIN qActions : qActions'[i] = qActions[j]
  BY <1>0, <1>2, Taken DEF Take
<1>4. /\ \A k \in Kinds : a.row.ts[k] # "none"
      /\ wasOnline => hyp[h].present
  BY <1>1, <1>3 DEF SurvivalParts, RegistryParts, ActionsHaveRows, DisabledHasRow, StaysThere
<1>5. raises = {}
  BY <1>4
<1>6. \A i \in Hyps : \A gone : RowStays(hyp[i], hyp[i], gone)
  BY DEF RowStays, TypeOK, HypRow
<1>7. CASE ~hyp[h].present
  <2>1. \A k \in Kinds : Registered(k, h) = {}
    BY <1>7, RegisteredMember DEF SurvivalParts, RegistryParts, RegisteredIsKnown
  <2>2. toStop = {}
    BY <2>1
  <2>3. ~wasOnline
    BY <1>4, <1>7
  <2>4. UNCHANGED <<hyp, orch>>
    BY <1>2, <1>5, <1>7, <2>2, <2>3
  <2> HIDE DEF wasOnline, toStop, visited, raises, reached
  <2>5. RegistryParts'
    BY <1>2, <1>3, <1>6, <2>4, RegistryKeeps DEF SurvivalParts
  <2>6. ReportIsStopping'
    BY <1>3, <2>4, ReportsStay
  <2> QED
    BY <2>4, <2>5, <2>6 DEF SurvivalParts, OrchestratorSurvives, OnlineIsStarted
<1>8. CASE hyp[h].present
  <2> DEFINE new == Stopping(hyp[h], reached, wasOnline)
  <2>1. /\ \A i \in Hyps : hyp'[i] = IF i = h THEN new ELSE hyp[i]
        /\ UNCHANGED orch
    BY <1>2, <1>5, <1>8 DEF TypeOK
  <2>2. hyp[h] \in HypRow /\ "worker" \in Kinds /\ KindsOf(Caps[h]) \subseteq Kinds
    BY DEF TypeOK, Kinds, KindsOf
  <2> HIDE DEF wasOnline, toStop, visited, raises, reached
  <2>3. /\ \A gone : RowStays(hyp[h], new, gone)
        /\ \A j \in Kinds : new.ts[j] \in {hyp[h].ts[j], "Stopping"}
        /\ new.status = "Online" =>
             hyp[h].status = "Online" /\ \A j \in Kinds : new.ts[j] = hyp[h].ts[j]
    BY <2>2, RowsStay
  <2> HIDE DEF new
  <2>4. RegistryParts'
    <3>1. \A i \in Hyps : \A gone : RowStays(hyp[i], hyp'[i], gone)
      BY <1>6, <2>1, <2>3
    <3> QED
      BY <1>2, <1>3, <3>1, RegistryKeeps DEF SurvivalParts
  <2>5. OnlineIsStarted'
    BY <2>1, <2>2, <2>3 DEF SurvivalParts, OnlineIsStarted
  <2>6. ReportIsStopping'
    <3>1. hyp[h].present => new.present
      BY <2>3 DEF RowStays
    <3> QED
      BY <1>3, <2>1, <2>3, <3>1, ReportsStay
  <2> QED
    BY <2>1, <2>4, <2>5, <2>6 DEF SurvivalParts, OrchestratorSurvives
<1> QED
  BY <1>7, <1>8

LEMMA SurvivalDead ==
    ASSUME TypeOK, TypeOK', LaunchParts, SurvivalParts, NEW k \in Kinds, OrchestratorThreadDead(k)
    PROVE  SurvivalParts'
<1>0. PICK h \in Hyps : h = Head(qActions).hyp
  BY TakeType DEF OrchestratorThreadDead
<1>1. /\ Take({DeadType[k]}) /\ UNCHANGED <<feed, admin>> /\ orch = "loop"
  BY DEF OrchestratorThreadDead, Take
<1>2. /\ 1 \in DOMAIN qActions /\ IsDead(qActions[1], k, h)
      /\ \A i \in DOMAIN qActions' :
           i + 1 \in DOMAIN qActions /\ qActions'[i] = qActions[i + 1] /\ i + 1 # 1
  BY <1>0, <1>1, Taken DEF Take, IsDead
<1>3. PICK u \in Registered(k, h) : pc[u] = "done"
  BY <1>2 DEF LaunchParts, ReportsAreTrue
<1>4. u \in reg /\ u.kind = k /\ u.hyp = h
  BY <1>3, RegisteredMember
<1>5. /\ hyp[h].present /\ hyp[h].ts[k] = "Stopping" /\ k \in KindsOf(Caps[h])
  BY <1>2, <1>4 DEF SurvivalParts, ReportIsStopping, RegistryParts, RegisteredIsKnown
<1>6. hyp[h].status # "Online" /\ h \notin OnlineHyps
  BY <1>5 DEF SurvivalParts, OnlineIsStarted, OnlineHyps
<1> DEFINE new == ThreadNotStarted(hyp[h], Caps[h], k, "Stopped")
<1>7. /\ hyp' = [hyp EXCEPT ![h] = new] /\ UNCHANGED orch
      /\ reg' = reg \ Registered(k, h)
  BY <1>0, <1>3, <1>5, <1>6 DEF OrchestratorThreadDead
<1>8. /\ \A i \in Hyps : hyp'[i] = IF i = h THEN new ELSE hyp[i]
      /\ hyp[h] \in HypRow
  BY <1>7 DEF TypeOK
<1>9. /\ \A t \in reg' : t \in reg /\ ~(t.kind = k /\ t.hyp = h)
      /\ \A t \in reg : t.hyp \in Hyps /\ t.kind \in Kinds
  BY <1>7, RegisteredMember DEF TypeOK, Thread
<1>10. k \in Forgotten(h, reg')
  BY <1>9 DEF Forgotten
<1>11. /\ new.status # "Online"
       /\ \/ /\ new = NoRow /\ hyp[h].status = "Deleting"
             /\ \A j \in KindsOf(Caps[h]) : j = k \/ hyp[h].ts[j] = "Stopped"
          \/ /\ RowStays(hyp[h], new, Forgotten(h, reg'))
             /\ \A j \in Kinds : new.ts[j] = IF j = k THEN "Stopped" ELSE hyp[h].ts[j]
  BY <1>8, <1>10, NotStartedStays
<1> HIDE DEF new
<1>12. \A i \in Hyps : \A gone : RowStays(hyp[i], hyp[i], gone)
  BY DEF RowStays, TypeOK, HypRow
<1>13. RegistryParts'
  <2>1. ASSUME new = NoRow, hyp[h].status = "Deleting",
               \A j \in KindsOf(Caps[h]) : j = k \/ hyp[h].ts[j] = "Stopped"
        PROVE  MayGo(h) /\ \A t \in reg' : t.hyp # h
    BY <1>9, <2>1 DEF MayGo, SurvivalParts, RegistryParts, RegisteredIsKnown
  <2>2. \A i \in Hyps :
          \/ hyp'[i] = NoRow /\ MayGo(i) /\ \A t \in reg' : t.hyp # i
          \/ RowStays(hyp[i], hyp'[i], Forgotten(i, reg'))
    BY <1>8, <1>11, <1>12, <2>1
  <2>3. \A i \in DOMAIN qActions' : \E j \in DOMAIN qActions : qActions'[i] = qActions[j]
    BY <1>2
  <2> QED
    BY <1>1, <1>9, <2>2, <2>3, RegistryKeeps DEF SurvivalParts
<1>14. OnlineIsStarted'
  BY <1>8, <1>11 DEF SurvivalParts, OnlineIsStarted
<1>15. ReportIsStopping'
  <2> SUFFICES ASSUME NEW i \in DOMAIN qActions', NEW j \in Kinds, NEW x \in Hyps,
                      IsDead(qActions'[i], j, x)
               PROVE  hyp'[x].present /\ hyp'[x].ts[j] = "Stopping"
    BY DEF ReportIsStopping, IsDead
  <2>1. /\ i + 1 \in DOMAIN qActions /\ i + 1 # 1 /\ IsDead(qActions[i + 1], j, x)
    BY <1>2
  <2>2. ~(j = k /\ x = h)
    BY <1>2, <2>1 DEF LaunchParts, ReportsAreTrue
  <2>3. hyp[x].present /\ hyp[x].ts[j] = "Stopping"
    BY <2>1 DEF SurvivalParts, ReportIsStopping
  <2>4. PICK t \in Registered(j, x) : TRUE
    BY <2>1 DEF LaunchParts, ReportsAreTrue
  <2>5. j \in KindsOf(Caps[x])
    BY <2>4, RegisteredMember DEF SurvivalParts, RegistryParts, RegisteredIsKnown
  <2>6. CASE x # h
    BY <1>8, <2>3, <2>6
  <2>7. CASE x = h
    BY <1>8, <1>11, <2>2, <2>3, <2>5, <2>7 DEF RowStays
  <2> QED
    BY <2>6, <2>7
<1> QED
  BY <1>1, <1>7, <1>13, <1>14, <1>15 DEF SurvivalParts, OrchestratorSurvives

\* A step of a thread that reports nothing, and starts or not.
LEMMA SurvivalKeeps ==
    ASSUME TypeOK, TypeOK', SurvivalParts, UNCHANGED <<feed, qActions, orch, reg, admin>>,
           \A h \in Hyps :
             /\ \A gone : RowStays(hyp[h], hyp'[h], gone)
             /\ hyp'[h].status = "Online" => \A k \in KindsOf(Caps[h]) : hyp'[h].ts[k] = "Started",
           \A h \in Hyps, k \in Kinds : hyp[h].present /\ hyp[h].ts[k] = "Stopping" =>
             \/ hyp'[h].ts[k] = "Stopping"
             \/ \A i \in DOMAIN qActions : ~IsDead(qActions[i], k, h)
    PROVE  SurvivalParts'
<1>1. RegistryParts'
  BY RegistryKeeps DEF SurvivalParts
<1>2. OnlineIsStarted'
  BY DEF OnlineIsStarted
<1>3. ReportIsStopping'
  BY DEF SurvivalParts, ReportIsStopping, RowStays, IsDead
<1> QED
  BY <1>1, <1>2, <1>3 DEF SurvivalParts, OrchestratorSurvives

\* A thread that fails leaves its row in Error, if it touches it.
LEMMA SilentRows ==
    ASSUME TypeOK, NEW t \in Thread, ThreadRuns(t) \/ ThreadFails(t) \/ ActionIsQueued(t),
           ~WorkerConnects(t), ~DiskStarts(t), ~ThreadReportsDeath(t), "reconnect" \notin Faults
    PROVE  /\ UNCHANGED admin
           /\ \A h \in Hyps : hyp'[h] = hyp[h] \/ hyp'[h] = UpdateHypStatus(hyp[h], "Error")
<1>0. ~WorkerReconnects(t)
  BY DEF WorkerReconnects, Fault
<1>1. UNCHANGED admin
  BY DEF ThreadRuns, ThreadFails, WorkerChecksKvm, WorkerSkipsKvm, DiskIsToldToStop,
     ThreadServes, ThreadLeavesLoop, ThreadLosesRow, WorkerCannotConnect, WorkerHasNoKvm,
     WorkerReconnects, WorkerLosesHyp, DiskCannotStart, ThreadCrashes, ActionIsQueued,
     OnlyThread
<1>2. t.hyp \in Hyps
  BY ThreadTypes
<1>3. CASE WorkerLosesHyp(t)
  <2>1. hyp' = [hyp EXCEPT ![t.hyp] = IF @.status = "Online" THEN UpdateHypStatus(@, "Error") ELSE @]
    BY <1>3 DEF WorkerLosesHyp
  <2> QED
    BY <1>1, <1>2, <2>1 DEF TypeOK
<1>4. CASE ~WorkerLosesHyp(t)
  <2>1. hyp' = hyp \/ hyp' = [hyp EXCEPT ![t.hyp] = UpdateHypStatus(@, "Error")]
    BY <1>0, <1>4 DEF ThreadRuns, ThreadFails, WorkerChecksKvm, WorkerSkipsKvm, DiskIsToldToStop,
       ThreadServes, ThreadLeavesLoop, ThreadLosesRow, WorkerCannotConnect, WorkerHasNoKvm,
       DiskCannotStart, ThreadCrashes, ActionIsQueued
  <2> QED
    BY <1>1, <1>2, <2>1 DEF TypeOK
<1> QED
  BY <1>3, <1>4

LEMMA SurvivalThread ==
    ASSUME TypeOK, TypeOK', LaunchParts, SurvivalParts, "reconnect" \notin Faults,
           NEW t \in Thread, ThreadRuns(t) \/ ThreadFails(t) \/ ActionIsQueued(t)
    PROVE  SurvivalParts'
<1>0. /\ t.kind \in Kinds /\ t.hyp \in Hyps /\ "worker" \in Kinds
      /\ \A h \in Hyps : hyp[h] \in HypRow /\ KindsOf(Caps[h]) \subseteq Kinds
  BY ThreadTypes DEF TypeOK, Kinds, KindsOf
<1>1. pc[t] \in Alive => \A i \in DOMAIN qActions : ~IsDead(qActions[i], t.kind, t.hyp)
  <2> SUFFICES ASSUME pc[t] \in Alive, NEW i \in DOMAIN qActions, IsDead(qActions[i], t.kind, t.hyp)
               PROVE  FALSE
    OBVIOUS
  <2>1. PICK u \in Registered(t.kind, t.hyp) : pc[u] = "done"
    BY <1>0 DEF LaunchParts, ReportsAreTrue
  <2>2. u = t
    BY <2>1, RegisteredMember DEF LaunchParts, OneRegistered, RunningIsRegistered
  <2> QED
    BY <2>1, <2>2 DEF Alive
<1>2. CASE WorkerConnects(t) \/ DiskStarts(t)
  <2> DEFINE new == ThreadStarted(hyp[t.hyp], Caps[t.hyp], t.kind)
  <2>1. /\ hyp' = [hyp EXCEPT ![t.hyp] = new] /\ pc[t] \in Alive
        /\ UNCHANGED <<feed, qActions, orch, reg, admin>>
    BY <1>2 DEF WorkerConnects, DiskStarts, Step, OnlyThread, Alive
  <2>2. \A h \in Hyps : hyp'[h] = IF h = t.hyp THEN new ELSE hyp[h]
    BY <1>0, <2>1 DEF TypeOK
  <2>3. /\ \A gone : RowStays(hyp[t.hyp], new, gone)
        /\ \A h \in Hyps : \A gone : RowStays(hyp[h], hyp[h], gone)
    BY <1>0, RowsStay
  <2>4. /\ \A j \in Kinds : new.ts[j] = IF j = t.kind THEN "Started" ELSE hyp[t.hyp].ts[j]
        /\ new.status = "Online" => \/ hyp[t.hyp].status = "Online"
                                    \/ \A j \in KindsOf(Caps[t.hyp]) : new.ts[j] = "Started"
    BY <1>0, StartedFields
  <2> HIDE DEF new
  <2>5. \A h \in Hyps : hyp'[h].status = "Online" =>
          \A k \in KindsOf(Caps[h]) : hyp'[h].ts[k] = "Started"
    BY <1>0, <2>2, <2>4 DEF SurvivalParts, OnlineIsStarted
  <2>6. \A h \in Hyps, k \in Kinds : hyp[h].ts[k] = "Stopping" =>
          hyp'[h].ts[k] = "Stopping" \/ \A i \in DOMAIN qActions : ~IsDead(qActions[i], k, h)
    BY <1>1, <2>1, <2>2, <2>4
  <2> QED
    BY <2>1, <2>2, <2>3, <2>5, <2>6, SurvivalKeeps
<1>3. CASE ThreadReportsDeath(t)
  <2> DEFINE new == ThreadNotStarted(hyp[t.hyp], Caps[t.hyp], t.kind, "Stopping")
             a == NewAction(DeadType[t.kind], t.hyp, NoRow)
  <2>1. /\ hyp' = [hyp EXCEPT ![t.hyp] = new] /\ pc[t] \in Alive
        /\ hyp[t.hyp].present /\ qActions' = Append(qActions, a)
        /\ UNCHANGED <<feed, orch, reg, admin>>
    BY <1>3 DEF ThreadReportsDeath, Step, Present, Alive
  <2>2. \A h \in Hyps : hyp'[h] = IF h = t.hyp THEN new ELSE hyp[h]
    BY <1>0, <2>1 DEF TypeOK
  <2>3. t.kind \in KindsOf(Caps[t.hyp])
    BY <2>1 DEF LaunchParts, RunningIsRegistered, SurvivalParts, RegistryParts, RegisteredIsKnown
  <2>4. /\ new.status # "Online" /\ \A gone : RowStays(hyp[t.hyp], new, gone)
        /\ \A j \in Kinds : new.ts[j] = IF j = t.kind THEN "Stopping" ELSE hyp[t.hyp].ts[j]
    <3>1. /\ new.status # "Online"
          /\ \/ "Stopping" = "Stopped" \/ t.kind \notin KindsOf(Caps[t.hyp])
             \/ /\ RowStays(hyp[t.hyp], new, Kinds)
                /\ \A j \in Kinds : new.ts[j] = IF j = t.kind THEN "Stopping" ELSE hyp[t.hyp].ts[j]
      <4>1. hyp[t.hyp] \in HypRow
        BY <1>0
      <4> QED
        BY <1>0, <4>1, NotStartedStays
    <3> HIDE DEF new
    <3>2. \A gone : RowStays(hyp[t.hyp], new, gone)
      BY <2>3, <3>1 DEF RowStays
    <3> QED
      BY <2>3, <3>1, <3>2
  <2>5. \A h \in Hyps : \A gone : RowStays(hyp[h], hyp[h], gone)
    BY DEF RowStays, TypeOK, HypRow
  <2>6. a \in Action /\ a.type # "disable_hyper" /\ \A k \in Kinds : \A h : IsDead(a, k, h) => k = t.kind /\ h = t.hyp
    BY <1>0, RowTypes, ActionTypes, DeadTypes DEF NewAction, IsDead
  <2>7. qActions \in Seq(Action)
    BY DEF TypeOK
  <2> HIDE DEF new, a
  <2>8. \A i \in DOMAIN qActions' :
          (i \in DOMAIN qActions /\ qActions'[i] = qActions[i]) \/ qActions'[i] = a
    BY <2>1, <2>6, <2>7, Appended
  <2>9. RegistryParts'
    BY <2>1, <2>2, <2>4, <2>5, <2>6, <2>8, RegistryKeeps DEF SurvivalParts
  <2>10. OnlineIsStarted'
    BY <2>2, <2>4 DEF SurvivalParts, OnlineIsStarted
  <2>11. ReportIsStopping'
    <3> SUFFICES ASSUME NEW i \in DOMAIN qActions', NEW k \in Kinds, NEW h \in Hyps,
                        IsDead(qActions'[i], k, h)
                 PROVE  hyp'[h].present /\ hyp'[h].ts[k] = "Stopping"
      BY DEF ReportIsStopping, IsDead
    <3>1. new.present
      BY <2>1, <2>4 DEF RowStays
    <3>2. (hyp[h].present /\ hyp[h].ts[k] = "Stopping") \/ (k = t.kind /\ h = t.hyp)
      BY <2>6, <2>8 DEF SurvivalParts, ReportIsStopping
    <3> QED
      BY <2>2, <2>4, <3>1, <3>2
  <2> QED
    BY <2>1, <2>9, <2>10, <2>11 DEF SurvivalParts, OrchestratorSurvives
<1>4. CASE ~WorkerConnects(t) /\ ~DiskStarts(t) /\ ~ThreadReportsDeath(t)
  <2>1. /\ UNCHANGED <<feed, qActions, orch, reg, admin>>
        /\ \A h \in Hyps : hyp'[h] = hyp[h] \/ hyp'[h] = UpdateHypStatus(hyp[h], "Error")
    BY <1>4, SilentSteps, SilentRows
  <2>2. ASSUME NEW h \in Hyps, NEW gone PROVE RowStays(hyp[h], hyp'[h], gone)
    <3>1. RowStays(hyp[h], hyp[h], gone) /\ RowStays(hyp[h], UpdateHypStatus(hyp[h], "Error"), gone)
      BY <1>0, RowsStay
    <3> QED
      BY <2>1, <3>1
  <2>3. \A h \in Hyps : /\ UpdateHypStatus(hyp[h], "Error").ts = hyp[h].ts
                        /\ UpdateHypStatus(hyp[h], "Error").status = "Error"
    BY <1>0, StatusFields
  <2>4. \A h \in Hyps : /\ hyp'[h].ts = hyp[h].ts
                        /\ hyp'[h].status = "Online" => hyp'[h] = hyp[h]
    BY <2>1, <2>3
  <2> QED
    BY <2>1, <2>2, <2>4, SurvivalKeeps DEF SurvivalParts, OnlineIsStarted
<1> QED
  BY <1>2, <1>3, <1>4

\* What an administrator writes in the running engine.  A disabled row has
\* all its statuses and stays; a removed one is disabled, or has no threads.
LEMMA SurvivalWrite ==
    ASSUME TypeOK, TypeOK', SurvivalParts, admin' # 0, UNCHANGED <<qActions, orch, reg>>,
           NEW h \in Hyps, NEW new \in HypRow, \A i \in Hyps : hyp'[i] = IF i = h THEN new ELSE hyp[i],
           new.present, new.enabled => hyp[h].enabled /\ new.status # "Deleting",
           hyp[h].present => new.ts = hyp[h].ts,
           new.status = "Online" => hyp[h].status = "Online" /\ new.ts = hyp[h].ts,
           new.status = "Deleting" =>
             /\ DOMAIN feed = {}
             /\ \A i \in DOMAIN qActions : qActions[i].type # "disable_hyper",
           \A i \in DOMAIN feed' :
             \/ \E j \in DOMAIN feed : feed'[i] = feed[j]
             \/ /\ feed'[i].type = "disable_hyper" /\ feed'[i].hyp = h /\ feed'[i].row = new
                /\ hyp[h].enabled
             \/ /\ feed'[i].type = "delete" /\ feed'[i].hyp = h
                /\ ~new.enabled /\ new.status = "Deleting" /\ \A t \in reg : t.hyp # h
    PROVE  SurvivalParts'
<1>1. RegisteredIsKnown'
  BY DEF SurvivalParts, RegistryParts, RegisteredIsKnown, TypeOK, Thread
<1>2. EnabledIsWhole'
  BY DEF SurvivalParts, RegistryParts, EnabledIsWhole
<1>3. /\ \A i \in DOMAIN feed : feed[i].hyp \in Hyps
      /\ \A i \in DOMAIN qActions : qActions[i].hyp \in Hyps
  <2>1. \A a \in Action : a.hyp \in Hyps
    BY DEF Action
  <2>2. feed \in Seq(Action) /\ qActions \in Seq(Action)
    BY DEF TypeOK
  <2> QED
    BY <2>1, <2>2
<1>4. DeletedIsIdle'
  BY <1>3 DEF SurvivalParts, RegistryParts, DeletedIsIdle
<1>5. new.status # "Deleting" =>
        \A x \in Hyps : StaysThere(x) => StaysThere(x)'
  BY DEF StaysThere
<1>6. ActionsHaveRows'
  <2>1. CASE new.status = "Deleting"
    BY <2>1 DEF SurvivalParts, RegistryParts, ActionsHaveRows, EnabledIsWhole, DisabledHasRow
  <2>2. CASE new.status # "Deleting"
    <3>1. \A a : a.hyp \in Hyps /\ DisabledHasRow(a) => DisabledHasRow(a)'
      BY <1>5, <2>2 DEF DisabledHasRow
    <3>2. ASSUME NEW i \in DOMAIN feed', feed'[i].type = "disable_hyper", feed'[i].hyp = h,
                 feed'[i].row = new, hyp[h].enabled
          PROVE  DisabledHasRow(feed[i])'
      <4>1. \A k \in Kinds : new.ts[k] # "none"
        BY <3>2 DEF SurvivalParts, RegistryParts, EnabledIsWhole
      <4>2. \A j \in DOMAIN feed' : feed'[j].type = "delete" => feed'[j].hyp # h
        BY <2>2, <3>2 DEF SurvivalParts, RegistryParts, DeletedIsIdle
      <4> QED
        BY <2>2, <3>2, <4>1, <4>2 DEF DisabledHasRow, StaysThere
    <3>3. \A i \in DOMAIN feed' : DisabledHasRow(feed[i])'
      <4> SUFFICES ASSUME NEW i \in DOMAIN feed' PROVE DisabledHasRow(feed[i])'
        OBVIOUS
      <4>1. CASE \E j \in DOMAIN feed : feed'[i] = feed[j]
        BY <1>3, <3>1, <4>1 DEF SurvivalParts, RegistryParts, ActionsHaveRows
      <4>2. CASE feed'[i].type = "delete"
        BY <4>2 DEF DisabledHasRow
      <4> QED
        BY <3>2, <4>1, <4>2
    <3>4. \A i \in DOMAIN qActions' : DisabledHasRow(qActions[i])'
      BY <1>3, <3>1 DEF SurvivalParts, RegistryParts, ActionsHaveRows
    <3> QED
      BY <3>3, <3>4 DEF ActionsHaveRows
  <2> QED
    BY <2>1, <2>2
<1>7. Untouched'
  BY DEF Untouched
<1>8. OnlineIsStarted'
  BY DEF SurvivalParts, OnlineIsStarted
<1>9. ReportIsStopping'
  BY DEF SurvivalParts, ReportIsStopping, IsDead
<1> QED
  BY <1>1, <1>2, <1>4, <1>6, <1>7, <1>8, <1>9
     DEF SurvivalParts, RegistryParts, OrchestratorSurvives

LEMMA SurvivalFresh ==
    ASSUME NEW rows \in [Hyps -> HypRow], FreshEngine(rows), admin' # 0
    PROVE  SurvivalParts'
<1>1. /\ DOMAIN feed' = {} /\ DOMAIN qActions' = {} /\ reg' = {} /\ orch' # "dead"
      /\ \A h \in Hyps : hyp'[h] = RowAfterEngineStart(rows[h])
  BY DEF FreshEngine
<1>2. ASSUME NEW row \in HypRow
      PROVE  LET new == RowAfterEngineStart(row)
             IN  /\ new.enabled => new.present /\ \A k \in Kinds : new.ts[k] = "Stopped"
                 /\ new.status = "Offline"
  BY DEF RowAfterEngineStart, NoRow, HypRow
<1>3. \A h \in Hyps : /\ hyp'[h].enabled => hyp'[h].present /\ \A k \in Kinds : hyp'[h].ts[k] = "Stopped"
                      /\ hyp'[h].status = "Offline"
  BY <1>1, <1>2
<1>4. RegistryParts'
  BY <1>1, <1>3 DEF RegistryParts, RegisteredIsKnown, EnabledIsWhole, DeletedIsIdle,
     ActionsHaveRows, Untouched
<1> QED
  BY <1>1, <1>3, <1>4 DEF SurvivalParts, OrchestratorSurvives, OnlineIsStarted, ReportIsStopping

LEMMA SurvivalAdministrator ==
    ASSUME TypeOK, TypeOK', SurvivalParts, Peaceful, AdministratorNext
    PROVE  SurvivalParts'
<1>0. /\ admin' = admin + 1 /\ admin \in Nat /\ admin < MaxAdmin
      /\ feed \in Seq(Action)
      /\ \A h \in Hyps : hyp[h] \in HypRow
  <2>1. \E op : Administrator(op)
    BY DEF AdministratorNext, EnableHyper, DisableHyper, RemoveHyper,
       InsertHyper, EngineRestart, ApiEnableHyper, RegisterHyper
  <2>2. admin \in 0 .. MaxAdmin /\ MaxAdmin \in Nat
    BY ConstantsAssumption DEF TypeOK
  <2> QED
    BY <2>1, <2>2 DEF Administrator, TypeOK
<1>1. admin' # 0
  BY <1>0
<1>2. ASSUME NEW rows \in [Hyps -> HypRow], FreshEngine(rows) PROVE SurvivalParts'
  BY <1>1, <1>2, SurvivalFresh
<1>3. ASSUME NEW h \in Hyps, NEW new \in HypRow, Write(h, new)
      PROVE  /\ UNCHANGED <<qActions, orch, reg>>
             /\ \A i \in Hyps : hyp'[i] = IF i = h THEN new ELSE hyp[i]
             /\ feed' = feed \/ feed' = feed \o Reaction(h, hyp[h], new)
  BY <1>3 DEF Write, threadVars, TypeOK
<1>4. ASSUME NEW a \in Action, feed' = feed \o <<a>>
      PROVE  \A i \in DOMAIN feed' : feed'[i] = a \/ \E j \in DOMAIN feed : feed'[i] = feed[j]
  <2>1. feed' = Append(feed, a)
    BY <1>0, <1>4
  <2> QED
    BY <1>0, <2>1, Appended
<1>5. ASSUME NEW h \in Hyps, DisableHyper(h) PROVE SurvivalParts'
  <2>0. PICK new : new = [hyp[h] EXCEPT !.enabled = FALSE]
    OBVIOUS
  <2>1. /\ new \in HypRow /\ new.ts = hyp[h].ts /\ new.status = hyp[h].status
        /\ new.present /\ ~new.enabled /\ hyp[h].enabled /\ hyp[h].present /\ Write(h, new)
    BY <1>0, <1>5, <2>0 DEF DisableHyper, HypRow
  <2>2. PICK a \in Action : a = NewAction("disable_hyper", h, new)
    BY <2>1, ActionTypes
  <2>3. /\ Reaction(h, hyp[h], new) = <<a>>
        /\ a.type = "disable_hyper" /\ a.hyp = h /\ a.row = new
    BY <2>1, <2>2 DEF Reaction, NewAction
  <2>4. \A i \in DOMAIN feed' : feed'[i] = a \/ \E j \in DOMAIN feed : feed'[i] = feed[j]
    <3>1. feed' = feed \/ feed' = feed \o <<a>>
      <4>1. feed' = feed \/ feed' = feed \o Reaction(h, hyp[h], new)
        BY <1>3, <2>1
      <4> QED
        BY <2>3, <4>1
    <3>2. CASE feed' = feed
      BY <3>2
    <3>3. CASE feed' = feed \o <<a>>
      <4>1. a \in Action
        OBVIOUS
      <4> HIDE DEF Action
      <4> QED
        BY <1>4, <3>3, <4>1
    <3> QED
      BY <3>1, <3>2, <3>3
  <2>5. hyp[h].status # "Deleting"
    BY <2>1 DEF SurvivalParts, RegistryParts, EnabledIsWhole
  <2> HIDE DEF SurvivalParts
  <2>6. /\ UNCHANGED <<qActions, orch, reg>>
        /\ \A i \in Hyps : hyp'[i] = IF i = h THEN new ELSE hyp[i]
    BY <1>3, <2>1
  <2> QED
    BY <1>1, <2>1, <2>3, <2>4, <2>5, <2>6, SurvivalWrite
<1>6. ASSUME NEW h \in Hyps, RemoveHyper(h) PROVE SurvivalParts'
  <2>0. PICK new : new = [hyp[h] EXCEPT !.enabled = FALSE, !.status = "Deleting"]
    OBVIOUS
  <2>1. /\ new \in HypRow /\ new.ts = hyp[h].ts /\ new.status = "Deleting"
        /\ new.present /\ ~new.enabled /\ hyp[h].present /\ Write(h, new)
        /\ admin < MaxAdmin /\ "remove" \in AdminOps
    BY <1>0, <1>6, <2>0 DEF RemoveHyper, Administrator, HypRow, HypStatus
  <2>2. /\ DOMAIN feed = {}
        /\ \A i \in DOMAIN qActions : qActions[i].type # "disable_hyper"
        /\ ~hyp[h].enabled => \A t \in reg : t.hyp # h
    <3>1. admin = 0
      BY <1>0, <2>1, ConstantsAssumption DEF Peaceful
    <3> QED
      BY <3>1 DEF SurvivalParts, RegistryParts, Untouched
  <2>3. \A i \in DOMAIN feed' :
          \/ /\ feed'[i].type = "disable_hyper" /\ feed'[i].hyp = h /\ feed'[i].row = new
             /\ hyp[h].enabled
          \/ /\ feed'[i].type = "delete" /\ feed'[i].hyp = h
             /\ ~new.enabled /\ new.status = "Deleting" /\ \A t \in reg : t.hyp # h
    <3>1. CASE Reaction(h, hyp[h], new) = <<>>
      <4>1. feed' = feed
        BY <1>0, <1>3, <2>1, <3>1
      <4> QED
        BY <2>2, <4>1
    <3>2. ASSUME NEW type \in {"disable_hyper", "delete"},
                 Reaction(h, hyp[h], new) = <<NewAction(type, h, new)>>,
                 type = "disable_hyper" => hyp[h].enabled,
                 type = "delete" => ~hyp[h].enabled
          PROVE  \A i \in DOMAIN feed' :
                   \/ /\ feed'[i].type = "disable_hyper" /\ feed'[i].hyp = h /\ feed'[i].row = new
                      /\ hyp[h].enabled
                   \/ /\ feed'[i].type = "delete" /\ feed'[i].hyp = h
                      /\ ~new.enabled /\ new.status = "Deleting" /\ \A t \in reg : t.hyp # h
      <4>1. PICK a \in Action : a = NewAction(type, h, new)
        BY <2>1, ActionTypes
      <4>2. a.type = type /\ a.hyp = h /\ a.row = new
        BY <4>1 DEF NewAction
      <4>3. \A i \in DOMAIN feed' : feed'[i] = a
        BY <1>3, <1>4, <2>1, <2>2, <3>2, <4>1
      <4> QED
        BY <2>1, <2>2, <3>2, <4>2, <4>3
    <3> QED
      BY <2>1, <3>1, <3>2 DEF Reaction
  <2>4. /\ UNCHANGED <<qActions, orch, reg>>
        /\ \A i \in Hyps : hyp'[i] = IF i = h THEN new ELSE hyp[i]
    BY <1>3, <2>1
  <2> QED
    BY <1>1, <2>1, <2>2, <2>3, <2>4, SurvivalWrite
<1>7. ASSUME NEW h \in Hyps, NEW new \in HypRow, Write(h, new), Reaction(h, hyp[h], new) = <<>>,
             new.present, new.enabled => hyp[h].enabled,
             hyp[h].present => new.ts = hyp[h].ts, new.status = "Offline"
      PROVE  SurvivalParts'
  <2>1. /\ UNCHANGED <<feed, qActions, orch, reg>>
        /\ \A i \in Hyps : hyp'[i] = IF i = h THEN new ELSE hyp[i]
    BY <1>0, <1>3, <1>7
  <2> QED
    BY <1>1, <1>7, <2>1, SurvivalWrite
<1>8. ASSUME NEW h \in Hyps, NEW e \in BOOLEAN, InsertHyper(h, e) PROVE SurvivalParts'
  <2>0. PICK new : new = [NoRow EXCEPT !.present = TRUE, !.enabled = e]
    OBVIOUS
  <2>1. ~e /\ ~hyp[h].present /\ Write(h, new)
    BY <1>8, <2>0 DEF InsertHyper, Administrator, Peaceful, NoEnabling
  <2>2. /\ new \in HypRow /\ new.present /\ new.enabled = e /\ new.status = "Offline"
    <3>1. NoRow \in HypRow
      BY <1>0, RowTypes
    <3>2. new \in HypRow /\ new.present /\ new.enabled = e /\ new.status = NoRow.status
      BY <2>0, <3>1 DEF HypRow
    <3> QED
      BY <3>2 DEF NoRow
  <2>3. Reaction(h, hyp[h], new) = <<>>
    BY <2>1, <2>2 DEF Reaction
  <2> QED
    BY <1>7, <2>1, <2>2, <2>3
<1>9. ASSUME NEW h \in Hyps, RegisterHyper(h) PROVE SurvivalParts'
  <2>0. PICK new : new = [hyp[h] EXCEPT !.status = "Offline"]
    OBVIOUS
  <2>1. /\ new \in HypRow /\ new.present = hyp[h].present /\ new.enabled = hyp[h].enabled
        /\ new.ts = hyp[h].ts /\ new.status = "Offline"
    BY <1>0, <2>0 DEF HypRow, HypStatus
  <2>2. PICK rows : rows = [hyp EXCEPT ![h].status = "Offline"]
    OBVIOUS
  <2>3. rows \in [Hyps -> HypRow] /\ rows[h] = new
    BY <2>0, <2>1, <2>2 DEF TypeOK
  <2>4. /\ hyp[h].present
        /\ FreshEngine(rows) \/ Write(h, new)
    BY <1>9, <2>2, <2>3 DEF RegisterHyper
  <2>5. Reaction(h, hyp[h], new) = <<>>
    BY <1>0, <2>1, <2>4 DEF Reaction
  <2> QED
    BY <1>2, <1>7, <2>1, <2>3, <2>4, <2>5
<1>10. ASSUME NEW h \in Hyps, ApiEnableHyper(h) PROVE SurvivalParts'
  <2>1. [hyp EXCEPT ![h].enabled = TRUE] \in [Hyps -> HypRow]
    BY DEF TypeOK, HypRow
  <2> QED
    BY <1>2, <1>10, <2>1 DEF ApiEnableHyper
<1>11. CASE EngineRestart
  BY <1>2, <1>11 DEF EngineRestart, TypeOK
<1>12. \A h \in Hyps : ~EnableHyper(h)
  BY DEF EnableHyper, Administrator, Peaceful, NoEnabling
<1> QED
  BY <1>5, <1>6, <1>8, <1>9, <1>10, <1>11, <1>12 DEF AdministratorNext

LEMMA SurvivalInit == Init => SurvivalParts
<1> SUFFICES ASSUME Init PROVE SurvivalParts
  OBVIOUS
<1>1. ASSUME NEW h \in Hyps
      PROVE  /\ hyp[h].status = "Offline"
             /\ hyp[h].enabled => hyp[h].present /\ \A k \in Kinds : hyp[h].ts[k] # "none"
  <2>1. CASE hyp[h] = NoRow
    BY <2>1 DEF NoRow
  <2>2. CASE \E e \in BOOLEAN : hyp[h] = [present |-> TRUE, enabled |-> e, status |-> "Offline",
                                          ts |-> [j \in Kinds |-> "Stopped"]]
    <3>1. PICK e \in BOOLEAN : hyp[h] = [present |-> TRUE, enabled |-> e, status |-> "Offline",
                                         ts |-> [j \in Kinds |-> "Stopped"]]
      BY <2>2
    <3>2. hyp[h].status = "Offline" /\ hyp[h].present /\ hyp[h].ts = [j \in Kinds |-> "Stopped"]
      BY <3>1
    <3> QED
      BY <3>2
  <2> QED
    BY <2>1, <2>2 DEF Init
<1>2. reg = {} /\ DOMAIN feed = {} /\ DOMAIN qActions = {} /\ orch = "first"
  BY DEF Init
<1>3. RegistryParts
  BY <1>1, <1>2 DEF RegistryParts, RegisteredIsKnown, EnabledIsWhole, DeletedIsIdle,
     ActionsHaveRows, Untouched
<1> QED
  BY <1>1, <1>2, <1>3 DEF SurvivalParts, OrchestratorSurvives, OnlineIsStarted, ReportIsStopping

\* Whatever threads fail, and whenever: as long as no hypervisor is enabled
\* in the running engine, no worker reconnects by itself, and a removal is
\* not mixed with other operations, no exception ends the thread of the
\* orchestrator.
THEOREM OrchestratorGoesOn == Peaceful => (Spec => []OrchestratorSurvives)
<1> SUFFICES ASSUME Peaceful PROVE Spec => []OrchestratorSurvives
  OBVIOUS
<1>0. NoEnabling /\ "reconnect" \notin Faults
  BY DEF Peaceful
<1>1. LaunchInv => TypeOK /\ LaunchParts
  BY DEF LaunchInv, LaunchParts
<1>2. LaunchInv /\ LaunchInv' /\ SurvivalParts /\ [Next]_vars => SurvivalParts'
  <2> SUFFICES ASSUME TypeOK, TypeOK', LaunchParts, SurvivalParts, [Next]_vars
               PROVE  SurvivalParts'
    BY DEF LaunchInv, LaunchParts
  <2>1. CASE UNCHANGED vars
    BY <2>1 DEF vars, SurvivalParts, RegistryParts, OrchestratorSurvives, RegisteredIsKnown,
       EnabledIsWhole, DeletedIsIdle, ActionsHaveRows, DisabledHasRow, StaysThere, Untouched,
       OnlineIsStarted, ReportIsStopping, IsDead
  <2>2. ~OrchestratorEnable
    <3>1. OrchestratorEnable => Take({"enable_hyper"}) /\ Head(qActions).type = "enable_hyper"
      BY DEF OrchestratorEnable, Take
    <3> QED
      BY <3>1, Taken, DeadTypes DEF LaunchParts, NothingEnables
  <2>3. CASE OrchestratorNext
    BY <2>2, <2>3, SurvivalPoll, SurvivalDisable, SurvivalDead DEF OrchestratorNext
  <2> QED
    BY <1>0, <2>1, <2>3, SurvivalAdministrator, SurvivalChanges, SurvivalThread DEF Next
<1>3. SurvivalParts => OrchestratorSurvives
  BY DEF SurvivalParts
<1> QED
  BY <1>0, <1>2, <1>3, SurvivalInit, LaunchInvariant, PTL DEF Spec
=============================================================================
