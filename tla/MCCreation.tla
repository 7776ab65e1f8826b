----------------------------- MODULE MCCreation -----------------------------
(***************************************************************************)
(* Instances of Creation for TLC, each for the properties that hold under  *)
(* what it lets happen.  One is chosen at the start.                       *)
(***************************************************************************)
EXTENDS Naturals

CONSTANTS d1, d2, t1, h1, h2, u1, u2, empty, shared, None

VARIABLES row, feed, changes, making, diskThread, diskQueue, job, longQueue, worker,
          workQueue, disk, client, ops, faults, scenario
vars == <<row, feed, changes, making, diskThread, diskQueue, job, longQueue, worker,
          workQueue, disk, client, ops, faults, scenario>>

MostOps == {"from_template", "and_start", "media", "builder", "template", "update", "delete"}
Failures == {"mkdir", "qemu", "refuse", "mv", "rsync", "recreate", "builder", "xml", "test"}

One == [desktops |-> {d1}, hyps |-> {h1}, users |-> {u1}, patient |-> TRUE, max |-> 3, failing |-> 1,
        faults |-> Failures, ops |-> MostOps]
Scenarios == [
    \* A user who waits, and commands that fail.
    alone  |-> [One EXCEPT !.max = 5, !.failing = 3, !.faults = Failures \cup {"template"},
                           !.ops = MostOps \cup {"force_failed"}],
    \* Two requests at once make templates of two desktops.
    works  |-> [One EXCEPT !.desktops = {d1, d2}, !.users = {u1, u2}, !.max = 4,
                           !.faults = {"refuse", "mv", "rsync", "recreate", "xml"},
                           !.ops = {"from_template", "media", "template", "delete"}],
    \* Two desktops whose user waits, and commands that fail.
    ends   |-> [One EXCEPT !.desktops = {d1, d2}, !.failing = 2],
    \* A user who waits for nothing, one disk thread.
    chains |-> [One EXCEPT !.patient = FALSE, !.max = 5, !.failing = 0,
                           !.ops = {"media", "template", "update", "force_failed", "delete"}],
    \* A user who waits for nothing, two disk threads.
    races  |-> [One EXCEPT !.hyps = {h1, h2}, !.patient = FALSE, !.max = 4, !.faults = {"mv"},
                           !.ops = {"from_template", "template", "update", "force_failed"}],
    \* Desktops with two disks, a template that is deleted, and a restart.
    two    |-> [One EXCEPT !.desktops = {d1, d2}, !.patient = FALSE, !.faults = {"restart"},
                           !.ops = {"virtio", "from_template", "template", "delete_template"}]]

In(s) == INSTANCE Creation WITH
    Desktops <- Scenarios[s].desktops, Templates <- {t1}, Base <- empty, Shared <- shared,
    Hyps <- Scenarios[s].hyps, Users <- Scenarios[s].users, Ops <- Scenarios[s].ops,
    Faults <- Scenarios[s].faults, Patient <- Scenarios[s].patient,
    MaxOps <- Scenarios[s].max, MaxFaults <- Scenarios[s].failing

ASSUME \A s \in DOMAIN Scenarios : In(s)!Assumption

Init == \E s \in DOMAIN Scenarios : scenario = s /\ In(s)!Init
Next == \E s \in DOMAIN Scenarios : scenario = s /\ In(s)!Next /\ UNCHANGED scenario
Spec == Init /\ [][Next]_vars

\* The threads of the engine run, and a request writes what it began to.
Step(A) == scenario = "ends" /\ A /\ UNCHANGED scenario
FairSpec ==
    /\ Spec
    /\ WF_vars(Step(In("ends")!ChangesThread)) /\ WF_vars(Step(In("ends")!ChangesThreadStarts))
    /\ WF_vars(Step(In("ends")!DiskThread(h1)))
    /\ WF_vars(Step(In("ends")!VirtBuilder)) /\ WF_vars(Step(In("ends")!Worker))
    /\ WF_vars(Step(In("ends")!UserWrites(u1)))

\* The tables, the threads and the files are well typed.
TypeOK == \A s \in DOMAIN Scenarios : scenario = s => In(s)!TypeOK

\* Each property of the module, where it holds.
ThreadsGoOn == scenario = "alone" => In("alone")!ThreadsGoOn
StoppedIsWhole == scenario = "alone" => In("alone")!StoppedIsWhole
RemovedWithItsDisk == scenario = "alone" => In("alone")!RemovedWithItsDisk
KeepsWork == scenario = "works" => In("works")!KeepsWork
BackingChainsEnd == scenario = "chains" => In("chains")!BackingChainsEnd
TemplateIsWhole == scenario = "races" => In("races")!TemplateIsWhole

\* The table tells of disks that are there, and of all of them, and the
\* threads that make them go on.
DisksAreTold == TypeOK /\ ThreadsGoOn /\ StoppedIsWhole /\ TemplateIsWhole /\ RemovedWithItsDisk

\* What users have on their disks can still be read.
DisksAreKept == KeepsWork /\ BackingChainsEnd

\* A desktop or a template that is created, updated or deleted comes to rest,
\* whatever command fails on the way.
CreationResolves ==
    \A i \in {d1, d2, t1} :
        (scenario = "ends" /\ In("ends")!Working(i)) ~> (scenario = "ends" => ~In("ends")!Working(i))
=============================================================================
