------------------------- MODULE MCOrchestratorRuns -------------------------
(***************************************************************************)
(* Orchestrator for TLC with other constants than those of MCOrchestrator. *)
(* In "stops", with the constants of the configuration, one hypervisor     *)
(* with all kinds of threads is disabled or removed; in "recovers" there   *)
(* are two, one of which takes over the actions of the other.  One of the  *)
(* two is chosen at the start; in both, an administrator does one thing.   *)
(***************************************************************************)
EXTENDS Orchestrator, TLC

CONSTANTS h1, h2

VARIABLE scenario
runVars == <<vars, scenario>>

Both == {"hypervisor", "disk_operations"}
CapsBoth == [h \in Hyps |-> Both]

Two == INSTANCE Orchestrator WITH
    Hyps <- {h1, h2}, Slots <- {1}, Caps <- [h \in {h1, h2} |-> {"hypervisor"}],
    AdminOps <- {"disable", "remove", "restart"}, Faults <- {"connect", "kvm", "lost"},
    MaxAdmin <- 1, MaxFaults <- 2

Runs(s, action) == scenario = s /\ action /\ UNCHANGED scenario

RunInit ==
    \/ scenario = "stops" /\ Init
    \/ scenario = "recovers" /\ Two!Init
RunNext == Runs("recovers", Two!Next) \/ Runs("stops", Next)
RunSpec == RunInit /\ [][RunNext]_runVars

\* The threads of the scenario "recovers"
Workers == {t \in Two!Thread : t.kind = "worker"}

\* Every thread of the engine is scheduled again and again.  A thread tests
\* the attribute stop after every action and takes what is on its queue in
\* order, so leaving the loop needs no more than that either, however many
\* actions arrive.  Administrators, faults and the arrival of actions are not
\* fair: they need never happen.
FairSpec ==
    /\ RunSpec
    /\ WF_runVars(Runs("recovers", Two!ChangesThread) \/ Runs("stops", ChangesThread))
    /\ WF_runVars(Runs("recovers", Two!OrchestratorNext) \/ Runs("stops", OrchestratorNext))
    /\ \A t \in Workers :
        /\ WF_runVars(Runs("recovers", Two!ThreadRuns(t)))
        /\ WF_runVars(Runs("recovers", Two!ThreadLeavesLoop(t)))
    /\ \A t \in Thread :
        /\ WF_runVars(Runs("stops", ThreadRuns(t)))
        /\ WF_runVars(Runs("stops", ThreadLeavesLoop(t)))

----------------------------------------------------------------------------
(* Liveness.                                                               *)

\* Once faults and administrators have come to rest, every enabled hypervisor
\* is Online: check_hyps_from_database starts it again as often as needed.
EnabledComesOnline ==
    \A h \in {h1, h2} :
        <>[](scenario = "recovers" /\ hyp[h].present /\ hyp[h].enabled => h \in Two!OnlineHyps)

\* An action on a queue is served, moved to another hypervisor or cleaned: it
\* does not stay behind on the queue of a thread that died.
ActionsLeaveTheQueue ==
    \A t \in Workers :
        (scenario = "recovers" /\ "action" \in queue[t]) ~> (scenario = "recovers" => "action" \notin queue[t])

Running(t) == pc[t] \in Alive

\* A thread that was told to stop stops, also when it was still looking at
\* the hardware of the hypervisor at that moment.
ToldToStopStops ==
    \A t \in Thread :
        (scenario = "stops" /\ stop[t] /\ Running(t)) ~> (scenario = "stops" => ~Running(t))

\* A hypervisor that is removed while all its threads are Started leaves the
\* table.
RemovedHypLeaves ==
    (/\ scenario = "stops" /\ hyp[h1].status = "Deleting"
     /\ \A k \in KindsOf(Both) : hyp[h1].ts[k] = "Started")
        ~> (scenario = "stops" => ~hyp[h1].present)

\* A death that was reported is collected by the orchestrator, whatever else
\* is on its queue.
Reported(k) == scenario = "stops" /\ Slot(k, h1) = "reported"
ReportsAreCollected == \A k \in Kinds : Reported(k) ~> ~Reported(k)

\* What is to end ends: threads, hypervisors that are removed, and reports.
StopsEnd == ToldToStopStops /\ RemovedHypLeaves /\ ReportsAreCollected
=============================================================================
