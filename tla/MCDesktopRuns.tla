--------------------------- MODULE MCDesktopRuns ---------------------------
(***************************************************************************)
(* Instances of Desktop for TLC, each for the properties that hold under   *)
(* what it lets happen.  One of those a run chooses from is chosen at the  *)
(* start.  What the module states of its own constants is stated of the    *)
(* desktop that all of them have, or, when patient is the only choice, of  *)
(* that instance, whose constants are those of the run.                    *)
(***************************************************************************)
EXTENDS Desktop

CONSTANTS h1, h2, u1, u2, d1, d2, Chosen

VARIABLE scenario
all == <<vars, scenario>>

Alone == [hyps |-> {h1, h2}, desktops |-> {d1}, users |-> {u1}, servers |-> {}, ops |-> {}, faults |-> {},
          patient |-> TRUE, max |-> 4, failing |-> 2]
Scenarios == [
    \* Everything that users do, in two requests that wait for nothing.
    types    |-> [Alone EXCEPT !.users = {u1, u2}, !.patient = FALSE, !.max = 2, !.failing = 0,
                    !.ops = {"start", "stop", "shutdown", "stopping", "delete", "api_delete",
                             "mdelete", "force_failed", "bulk", "restart"}],
    \* Everything that goes wrong.
    faulty   |-> [Alone EXCEPT !.patient = FALSE, !.max = 2, !.failing = 1,
                    !.ops = {"start", "stop", "delete", "restart"},
                    !.faults = {"power_off", "early", "unheard", "bad_xml", "start", "describe",
                                "destroy", "net", "host"}],
    \* Users of two desktops wait for the engine between two operations.
    patient  |-> [Alone EXCEPT !.desktops = {d1, d2}, !.max = 3,
                    !.ops = {"start", "stop", "shutdown", "stopping", "delete"},
                    !.faults = {"power_off", "bad_xml", "start", "net", "host"}],
    \* A server is deleted while its hypervisor reboots or is lost for good.
    lost     |-> [Alone EXCEPT !.hyps = {h1}, !.servers = {d1}, !.max = 1,
                    !.ops = {"shutdown", "delete", "api_delete", "restart"},
                    !.faults = {"net", "host", "lost"}],
    \* Desktops start and are deleted while hypervisors fail.
    resolves |-> [Alone EXCEPT !.ops = Ops, !.faults = Faults],
    \* Desktops stop while connections break, and no guest ends by itself.
    stopping |-> [Alone EXCEPT !.ops = {"start", "stop", "shutdown", "stopping"},
                    !.faults = {"net", "bad_xml", "start"}],
    \* A desktop that the engine keeps running.
    servers  |-> [Alone EXCEPT !.servers = {d1}, !.max = 0, !.failing = 3,
                    !.faults = {"power_off", "bad_xml", "start", "net", "host"}]]

In(s) == INSTANCE Desktop WITH
    Hyps <- Scenarios[s].hyps, Desktops <- Scenarios[s].desktops, Servers <- Scenarios[s].servers,
    Users <- Scenarios[s].users, Ops <- Scenarios[s].ops, Faults <- Scenarios[s].faults,
    Patient <- Scenarios[s].patient, MaxOps <- Scenarios[s].max, MaxFaults <- Scenarios[s].failing

OneInit == \E s \in Chosen : scenario = s /\ In(s)!Init
OneNext == \E s \in Chosen : scenario = s /\ In(s)!Next /\ UNCHANGED scenario
OneSpec == OneInit /\ [][OneNext]_all

\* The threads of the engine are scheduled again and again, and a request
\* goes on or gives up.  A worker looks at its connection when its queue was
\* empty for 2 seconds; what comes again and again by itself, a server that
\* cannot start, comes 10 seconds apart, so that a worker that is idle again
\* and again finds the connection broken.  Users, guests and faults need
\* never do anything.
Live == {"resolves", "stopping", "servers"}
Fair ==
    /\ WF_all(\E s \in Live : scenario = s /\ In(s)!ChangesThread /\ UNCHANGED scenario)
    /\ WF_all(\E s \in Live : scenario = s /\ In(s)!ServersNext /\ UNCHANGED scenario)
    /\ \A h \in {h1, h2} :
        /\ WF_all(\E s \in Live : scenario = s /\ In(s)!WorkerNext(h) /\ UNCHANGED scenario)
        /\ SF_all(\E s \in Live : scenario = s /\ In(s)!WorkerReconnects(h) /\ UNCHANGED scenario)
        /\ WF_all(\E s \in Live : scenario = s /\ In(s)!EventsNext(h) /\ UNCHANGED scenario)
    /\ WF_all(\E s \in Live : scenario = s /\ (In(s)!UserWrites(u1) \/ In(s)!UserGivesUp(u1))
                             /\ UNCHANGED scenario)

FairSpec == OneSpec /\ Fair

\* A server runs at one place at most, and is never without a disk, while it
\* is started again and again: what libvirt runs goes by DesktopPlace.
Served == scenario = "servers"
ServerPlaces == INSTANCE DesktopPlace WITH
    Desktops <- {d1},
    at <- [d \in {d1} |-> IF Served THEN {h \in {h1, h2} : d \in guests[h]} ELSE {}],
    erased <- IF Served THEN erased ELSE {}

----------------------------------------------------------------------------
(* Liveness.                                                               *)

\* The actors settle: no two of them answer each other for ever.
ComesToRest == []<>(scenario = "resolves" => In("resolves")!Quiet)

Is(s, statuses) == scenario = s /\ row[d1].present /\ row[d1].status \in statuses

\* A desktop does not stay in Starting.
StartingResolves == Is("resolves", {"Starting"}) ~> ~Is("resolves", {"Starting"})

\* A desktop that is being deleted leaves the table, or leaves Deleting.
DeletingResolves ==
    Is("resolves", {"Deleting", "DeletingDomainDisk"}) ~> ~Is("resolves", {"Deleting", "DeletingDomainDisk"})

\* A desktop does not stay in Stopping.
StoppingResolves == Is("stopping", {"Stopping"}) ~> ~Is("stopping", {"Stopping"})

\* What was asked for is done, or is told to have failed.
RequestsResolve == StartingResolves /\ DeletingResolves /\ StoppingResolves

\* get_domains_flag_server_to_starting: whatever ends a server, it runs
\* again, and at one place.
ServersRun ==
    /\ ServerPlaces!Spec
    /\ []<>(scenario = "servers" =>
               Is("servers", {"Started"}) /\ In("servers")!Running(d1) = {row[d1].hyp})
=============================================================================
