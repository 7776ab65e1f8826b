---------------------------- MODULE MCResources ----------------------------
(***************************************************************************)
(* Instances of StartResources and Download for TLC, each for the          *)
(* properties that hold under what it lets happen.  One is chosen at the   *)
(* start, and the state of the others stays as it is or is left out.       *)
(*                                                                         *)
(* In "waits", with the constants of the configuration, three desktops of  *)
(* two users share a card of two uids and start with VLANs of their users. *)
(***************************************************************************)
EXTENDS StartResources

CONSTANTS ann, ann2, bob, None

\* The other scenarios of StartResources, and those of Download, have variables
\* of their own.
VARIABLES row2, feed2, engine2, held2, device2, queue2, worker2, guests2, events2, listener2, online2,
          changes, current, thread, curl, file, erasing, client, ops2, faults2, scenario
both == <<row2, feed2, online2, ops2, faults2>>
starting == <<engine2, held2, device2, queue2, worker2, guests2, events2, listener2>>
downloading == <<changes, current, thread, curl, file, erasing, client>>
runVars == <<vars, both, starting, downloading, scenario>>

----------------------------------------------------------------------------
(* StartResources: two hypervisors, or one, each with a card.              *)

CardOfOne == [c \in Cards |-> "h1"]
UserOf == [d \in Desktops |-> IF d = bob THEN "bob" ELSE "ann"]
Unforced == [d \in Desktops |-> "no hypervisor"]

Two == {ann, bob}
Three == {ann, ann2, bob}
TwoHyps == [c \in {"c1", "c2"} |-> IF c = "c1" THEN "h1" ELSE "h2"]
OneHyp == [c \in {"c1"} |-> "h1"]

TwoStart == [desktops |-> Two, card |-> TwoHyps, uids |-> 1, gpu |-> Two, personal |-> {}, bobIn |-> {},
             hurried |-> FALSE, faults |-> {}, max |-> 5, failing |-> 2, ops |-> {"start", "stop", "guest_ends"}]
Starts == [
    \* Three desktops share a card of two uids, and are shut down as well.
    gpu    |-> [TwoStart EXCEPT !.desktops = Three, !.card = OneHyp, !.uids = 2, !.gpu = Three, !.max = 8,
                                !.ops = {"start", "stop", "shutdown", "guest_ends"}],
    \* Two hypervisors and workers that fail, are lost and return.
    fails  |-> [TwoStart EXCEPT !.faults = {"createXML", "lost", "reboot"}],
    \* A desktop with everything, and one that is forced to another hypervisor.
    forced |-> [TwoStart EXCEPT !.gpu = {ann}, !.personal = {ann}, !.bobIn = {"h2"}, !.hurried = TRUE, !.max = 3,
                                !.failing = 1, !.ops = {"start", "stop", "shutdown", "guest_ends"},
                                !.faults = {"createXML", "lost", "reboot", "device"}]]

R(s) == INSTANCE StartResources WITH
    Desktops <- Starts[s].desktops, Hyps <- {Starts[s].card[c] : c \in DOMAIN Starts[s].card},
    Cards <- DOMAIN Starts[s].card, HypOf <- Starts[s].card, PerCard <- Starts[s].uids, Gpu <- Starts[s].gpu,
    NamedModel <- {}, Personal <- Starts[s].personal,
    User <- [d \in Starts[s].desktops |-> IF d = bob THEN "bob" ELSE "ann"], Vlans <- {1, 2},
    Forced <- [d \in Starts[s].desktops |-> IF d = bob /\ Starts[s].bobIn # {} THEN "h2" ELSE "no hypervisor"],
    OnlyForced <- Starts[s].bobIn, Inside <- {}, Hurried <- Starts[s].hurried, Ops <- Starts[s].ops,
    Faults <- Starts[s].faults, MaxOps <- Starts[s].max, MaxFaults <- Starts[s].failing,
    row <- row2, feed <- feed2, engine <- engine2, held <- held2, device <- device2, queue <- queue2,
    worker <- worker2, guests <- guests2, events <- events2, listener <- listener2, online <- online2,
    ops <- ops2, faults <- faults2

ASSUME Assumption
ASSUME \A s \in DOMAIN Starts : R(s)!Assumption

----------------------------------------------------------------------------
(* Download: a medium, with a disk or with a second directory.             *)

OneMedium == [disks |-> {}, dirs |-> {"p1"}, clients |-> {"c1"}, patient |-> FALSE, max |-> 3, failing |-> 2,
              ops |-> {}, faults |-> {}]
Downloads == [
    \* A user who waits.
    settles |-> [OneMedium EXCEPT !.disks = {"d1"}, !.patient = TRUE, !.ops = {"download", "retry", "delete"},
                                  !.faults = {"curl", "url", "no_disk_hyp"}],
    \* Two users who abort, retry and delete.
    aborts  |-> [OneMedium EXCEPT !.clients = {"c1", "c2"}, !.max = 4, !.failing = 1,
                                  !.ops = {"download", "retry", "abort", "delete", "admin_abort"},
                                  !.faults = {"curl", "url", "offline"}],
    \* All that may happen, in two directories.
    scans   |-> [OneMedium EXCEPT !.dirs = {"p1", "p2"}, !.max = 2,
                                  !.ops = {"download", "retry", "abort", "delete", "admin_abort", "scan"},
                                  !.faults = {"url", "curl", "no_disk_hyp", "offline", "kill", "unregistered",
                                              "rm", "restart"}]]

D(s) == INSTANCE Download WITH
    Media <- {"m1"}, Disks <- Downloads[s].disks, Dirs <- Downloads[s].dirs, Numbers <- 1 .. Downloads[s].max,
    Clients <- Downloads[s].clients, Ops <- Downloads[s].ops, Faults <- Downloads[s].faults,
    Patient <- Downloads[s].patient, MaxOps <- Downloads[s].max, MaxFaults <- Downloads[s].failing,
    row <- row2, feed <- feed2, online <- online2, ops <- ops2, faults <- faults2

ASSUME \A s \in DOMAIN Downloads : D(s)!Assumption

----------------------------------------------------------------------------
NoStart ==
    /\ engine2 = None /\ held2 = None /\ device2 = None /\ queue2 = None
    /\ worker2 = None /\ guests2 = None /\ events2 = None /\ listener2 = None
NoDownload ==
    /\ changes = None /\ current = None /\ thread = None /\ curl = None
    /\ file = None /\ erasing = None /\ client = None

RunInit ==
    /\ Init
    /\ \/ /\ scenario = "waits" /\ NoStart /\ NoDownload
          /\ row2 = None /\ feed2 = None /\ online2 = None /\ ops2 = None /\ faults2 = None
       \/ \E s \in DOMAIN Starts : scenario = s /\ R(s)!Init /\ NoDownload
       \/ \E s \in DOMAIN Downloads : scenario = s /\ D(s)!Init /\ NoStart

RunNext ==
    /\ UNCHANGED scenario
    /\ \/ scenario = "waits" /\ Next /\ UNCHANGED <<both, starting, downloading>>
       \/ \E s \in DOMAIN Starts : scenario = s /\ R(s)!Next /\ UNCHANGED <<vars, downloading>>
       \/ \E s \in DOMAIN Downloads : scenario = s /\ D(s)!Next /\ UNCHANGED <<vars, starting>>

RunSpec == RunInit /\ [][RunNext]_runVars

\* Threads, workers and requests go on, workers and hypervisors return, and
\* curl ends.
Starting(A) == scenario = "gpu" /\ A /\ UNCHANGED <<vars, downloading, scenario>>
Downloading(A) == scenario = "settles" /\ A /\ UNCHANGED <<vars, starting, scenario>>
FairSpec ==
    /\ RunSpec
    /\ WF_runVars(Starting(R("gpu")!EngineNext)) /\ WF_runVars(Starting(R("gpu")!HandlesEvent))
    /\ WF_runVars(Starting(R("gpu")!EventReleases)) /\ WF_runVars(Starting(R("gpu")!WorkerNext("h1")))
    /\ WF_runVars(Downloading(D("settles")!ChangesBegin)) /\ WF_runVars(Downloading(D("settles")!HandleChange))
    /\ WF_runVars(Downloading(D("settles")!WorkerErases))
    /\ WF_runVars(Downloading(D("settles")!HypervisorsReturn))
    /\ \A n \in 1 .. 3 : /\ WF_runVars(Downloading(D("settles")!ThreadNext(n)))
                         /\ WF_runVars(Downloading(D("settles")!CurlCreates(n) \/ D("settles")!CurlEnds(n)))
    /\ WF_runVars(Downloading(D("settles")!RequestWrites("c1")))

\* Tables, threads, queues and files are well typed.
RunTypes ==
    /\ scenario = "waits" => TypeOK
    /\ \A s \in DOMAIN Starts : scenario = s => R(s)!TypeOK
    /\ \A s \in DOMAIN Downloads : scenario = s => D(s)!TypeOK

\* With shutdowns, or with workers that fail and are lost, a guest holds its
\* uid as well, and no step takes that of another desktop.
GuestsHoldUids ==
    /\ \A s \in {"gpu", "fails"} : scenario = s => R(s)!GuestHoldsUid
    /\ scenario = "gpu" => R("gpu")!HeldIsUsed
TakesNothing == \A s \in {"gpu", "fails"} : scenario = s => R(s)!TakesFreeUids

\* A row that is Downloaded has its file, which one curl wrote, and the thread
\* that follows the changes of rows goes on.
FilesAreTold ==
    /\ scenario = "settles" => D("settles")!DownloadedHasFile /\ D("settles")!ChangesAreFollowed
    /\ scenario = "aborts" => D("aborts")!OneWriter

\* A row that records the path of a file that is there is not removed.
RemovesWithoutFile == scenario = "settles" => D("settles")!RemovesWithoutFile

\* What the tables say of uids and files stays true of them, beside "waits",
\* which has properties of its own.
ResourcesAreTold ==
    /\ [](RunTypes /\ GuestsHoldUids /\ FilesAreTold)
    /\ [][TakesNothing /\ RemovesWithoutFile]_runVars

\* A start comes to an end.
StartResolves ==
    \A d \in Three :
        (scenario = "gpu" /\ row2[d].status = "Starting") ~> (scenario = "gpu" => row2[d].status # "Starting")

\* A download that was asked for starts, or fails.
DownloadResolves ==
    \A i \in {"m1", "d1"} : (scenario = "settles" /\ row2[i].status = "DownloadStarting") ~>
        (scenario = "settles" => row2[i].status # "DownloadStarting")

\* A deletion that was asked for removes the medium, or is told to have
\* failed, or was overwritten by the end of a download.
RemovalResolves ==
    (scenario = "settles" /\ row2["m1"].status \in {"Deleting", "Deleted"}) ~>
        (scenario = "settles" => row2["m1"].status \notin {"Deleting", "Deleted"})

\* What was asked for ends.
RequestsResolve == StartResolves /\ DownloadResolves /\ RemovalResolves
=============================================================================
