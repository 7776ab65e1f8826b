-------------------------- MODULE StartResources --------------------------
(***************************************************************************)
(* What a desktop takes when it starts, and gives back when it stops: a    *)
(* virtual GPU of a hypervisor and a VLAN of its user's own.               *)
(*                                                                         *)
(* DomainsChangesThread, which is one thread, chooses both: the VLAN among *)
(* those no started desktop has, the GPU among the uids the rows of the    *)
(* hypervisors show as free.  The worker of the hypervisor runs the guest. *)
(* The uid is given back by whoever learns that the guest has gone: the    *)
(* worker that destroys it or the thread of events, in more than one step. *)
(***************************************************************************)
EXTENDS Naturals, Sequences, FiniteSets, SequencesExt

CONSTANTS
    Desktops, Hyps,
    Cards,      \* cards of all hypervisors, and
    HypOf,      \* the hypervisor of each
    PerCard,    \* uids of the default model of each card
    Gpu,        \* desktops whose video is a GPU
    NamedModel, \* those of them whose video names a model
    Personal,   \* desktops with an interface of kind personal
    User,       \* the user of each desktop
    Vlans,      \* the VLANs of the range of the interface
    Forced,     \* the hypervisor each desktop must run in, or NoHyp
    OnlyForced, \* hypervisors only for desktops that must run there
    Inside,     \* pairs of desktops, the id of the first being a part of the id of the second
    Hurried,    \* whether users ask while something is still going on
    Ops, Faults, MaxOps, MaxFaults

AllOps == {"start", "stop", "shutdown", "guest_ends"}
AllFaults == {"createXML", "lost", "reboot", "device"}
NoHyp == "no hypervisor"
NoUid == <<"no card", 0>>
NoVlan == 0
Free == "free"

Assumption ==
    /\ HypOf \in [Cards -> Hyps]
    /\ PerCard \in Nat
    /\ NamedModel \subseteq Gpu /\ Gpu \subseteq Desktops /\ Personal \subseteq Desktops
    /\ Forced \in [Desktops -> Hyps \cup {NoHyp}]
    /\ OnlyForced \subseteq Hyps
    /\ Inside \subseteq Desktops \X Desktops
    /\ Ops \subseteq AllOps /\ Faults \subseteq AllFaults
    /\ MaxOps \in Nat /\ MaxFaults \in Nat
    /\ IsFiniteSet(Desktops) /\ IsFiniteSet(Vlans)
    /\ Free \notin Desktops /\ NoVlan \notin Vlans /\ NoHyp \notin Hyps
    \* A range of numbers: of any of them, one is the smallest.
    /\ \A some \in SUBSET Vlans : some # {} => \E v \in some : \A w \in some : v <= w

VARIABLES
    row,        \* of each desktop: its status, its hyp_started and its personal VLAN
    feed,       \* changes DomainsChangesThread has not handled yet
    engine,     \* what DomainsChangesThread is about to do
    held,       \* nvidia_uids: the desktop written into "started" of each uid
    device,     \* the devices that exist in the hypervisors
    queue,      \* actions of the worker of each hypervisor
    worker,     \* what each worker is about to do
    guests,     \* what libvirt runs in each hypervisor
    events,     \* events Stopped that nobody handled yet
    listener,   \* what the thread of events is about to do
    online,     \* the hypervisors that are Online and have a worker
    ops, faults

vars == <<row, feed, engine, held, device, queue, worker, guests, events, listener, online, ops, faults>>

Uids == Cards \X (1..PerCard)
UidHyp(u) == HypOf[u[1]]
Statuses == {"Stopped", "Starting", "Started", "Stopping", "Shutting-down", "Failed", "Unknown"}
Guests == [desktop : Desktops, uid : Uids \cup {NoUid}, vlan : Vlans \cup {NoVlan}]
Nothing == [pc |-> "idle", desktop |-> "none", hyp |-> NoHyp, uid |-> NoUid]
At(pc, d, h, u) == [pc |-> pc, desktop |-> d, hyp |-> h, uid |-> u]

Rows == [status : Statuses, hyp : Hyps \cup {NoHyp}, vlan : Vlans \cup {NoVlan}]
Changes == [desktop : Desktops, old : Statuses, new : Statuses]
Places == [pc : {"idle", "choose", "reserve", "dead", "started", "uid", "release", "stopped"},
           desktop : Desktops \cup {"none"}, hyp : Hyps \cup {NoHyp}, uid : Uids \cup {NoUid}]
Actions == [type : {"start", "stop", "shutdown"}, desktop : Desktops,
            uid : Uids \cup {NoUid}, vlan : Vlans \cup {NoVlan}]

TypeOK ==
    /\ row \in [Desktops -> Rows] /\ feed \in Seq(Changes)
    /\ engine \in Places /\ worker \in [Hyps -> Places] /\ listener \in Places
    /\ held \in [Uids -> Desktops \cup {Free}] /\ device \in [Uids -> BOOLEAN]
    /\ queue \in [Hyps -> Seq(Actions)]
    /\ guests \in [Hyps -> SUBSET Guests] /\ events \in Seq(Desktops \X Hyps)
    /\ online \subseteq Hyps
    /\ ops \in 0..MaxOps /\ faults \in 0..MaxFaults

Init ==
    /\ row = [d \in Desktops |-> [status |-> "Stopped", hyp |-> NoHyp, vlan |-> NoVlan]]
    /\ feed = <<>> /\ engine = Nothing
    /\ held = [u \in Uids |-> Free]
    /\ device = [u \in Uids |-> TRUE]
    /\ queue = [h \in Hyps |-> <<>>]
    /\ worker = [h \in Hyps |-> Nothing]
    /\ guests = [h \in Hyps |-> {}]
    /\ events = <<>> /\ listener = Nothing
    /\ online = Hyps
    /\ ops = 0 /\ faults = 0

----------------------------------------------------------------------------

\* update_domain_status: Stopped forgets the personal VLAN as well.
PutRow(d, s, h) ==
    row' = [row EXCEPT ![d] = [status |-> s, hyp |-> h, vlan |-> IF s = "Stopped" THEN NoVlan ELSE @.vlan]]
Tell(d, s) ==
    feed' = IF s = row[d].status THEN feed
            ELSE Append(feed, [desktop |-> d, old |-> row[d].status, new |-> s])
Put(d, s, h) == PutRow(d, s, h) /\ Tell(d, s)

Running(d, h) == \E g \in guests[h] : g.desktop = d
GuestOf(d, h) == CHOOSE g \in guests[h] : g.desktop = d
Quiet ==
    /\ feed = <<>> /\ engine.pc \in {"idle", "dead"} /\ events = <<>> /\ listener = Nothing
    /\ \A h \in Hyps : worker[h] = Nothing /\ queue[h] = <<>>

\* update_info_nvidia_hyp_domain: "reserved" and "started" write the same.
TakesUid(u, d) == held' = IF u = NoUid THEN held ELSE [held EXCEPT ![u] = d]

\* domain_stopped_update_nvidia_uids_status: every uid of the hypervisor in
\* whose value the id of the desktop is found.
ReleaseOwn(d, h) ==
    held' = [u \in Uids |-> IF UidHyp(u) = h /\ (held[u] = d \/ <<d, held[u]>> \in Inside) THEN Free ELSE held[u]]

\* Mutant: all uids of the hypervisor are given back.
ReleaseAll(d, h) == held' = [u \in Uids |-> IF UidHyp(u) = h THEN Free ELSE held[u]]
Release(d, h) == ReleaseOwn(d, h)
ReleaseAtEvent(d, h) == ReleaseOwn(d, h)

Fault(f) == f \in Faults /\ faults < MaxFaults /\ faults' = faults + 1

----------------------------------------------------------------------------
(* Users.                                                                  *)

Asks(op) ==
    /\ op \in Ops /\ ops < MaxOps /\ ops' = ops + 1
    /\ Hurried \/ Quiet
userVars == <<engine, held, device, queue, worker, guests, events, listener, online, faults>>

AsksStart(d) ==
    /\ Asks("start") /\ row[d].status \in {"Stopped", "Failed"}
    /\ row' = [row EXCEPT ![d].status = "Starting"] /\ Tell(d, "Starting")
    /\ UNCHANGED userVars

AsksStop(d) ==
    /\ Asks("stop") /\ row[d].status \in {"Started", "Shutting-down"}
    /\ row' = [row EXCEPT ![d].status = "Stopping"] /\ Tell(d, "Stopping")
    /\ UNCHANGED userVars

AsksShutdown(d) ==
    /\ Asks("shutdown") /\ row[d].status = "Started"
    /\ row' = [row EXCEPT ![d].status = "Shutting-down"] /\ Tell(d, "Shutting-down")
    /\ UNCHANGED userVars

\* The guest ends: by itself, or because it was asked to shut down.
GuestEnds(h) ==
    /\ Asks("guest_ends")
    /\ \E g \in guests[h] :
         /\ guests' = [guests EXCEPT ![h] = @ \ {g}]
         /\ events' = IF h \in online THEN Append(events, <<g.desktop, h>>) ELSE events
    /\ UNCHANGED <<row, feed, engine, held, device, queue, worker, listener, online, faults>>

----------------------------------------------------------------------------
(* DomainsChangesThread.                                                   *)

engineVars == <<device, worker, guests, events, listener, online, ops>>
Stops(c) == <<c.old, c.new>> \in {<<"Started", "Stopping">>, <<"Shutting-down", "Stopping">>}
ShutsDown(c) == <<c.old, c.new>> = <<"Started", "Shutting-down">>
StartsNow(c) == c.new = "Starting" /\ c.old \in {"Stopped", "Failed"}
Change(d) == feed # <<>> /\ engine = Nothing /\ Head(feed).desktop = d /\ feed' = Tail(feed)

\* The VLANs of desktops that are Started, and of no others.
ActiveVlans == {row[e].vlan : e \in {e \in Desktops : row[e].status = "Started"}}
UpOf(d) == {e \in Desktops : User[e] = User[d] /\ row[e].status \in {"Started", "Shutting-down"}}

\* Mutant: the VLANs that others use are not looked at.
VlansOfOwn(d) ==
    LET own == {row[e].vlan : e \in UpOf(d)} \ {NoVlan}
    IN IF own # {} THEN own ELSE Vlans
\* A desktop of the user that is up lends its VLAN, if it has one; if not,
\* one that is not active.
VlansFor(d) ==
    LET lent(e) == row[e].vlan
        some == Vlans \ ActiveVlans
        least == IF some = {} THEN {NoVlan} ELSE {CHOOSE v \in some : \A w \in some : v <= w}
    IN IF UpOf(d) = {} THEN least
       ELSE UNION {IF lent(e) = NoVlan THEN least ELSE {lent(e)} : e \in UpOf(d)}

\* recreate_xml_to_start: the row loses its VLAN and takes another one.
TakesVlan(d) ==
    /\ Change(d) /\ StartsNow(Head(feed))
    /\ \E v \in IF d \in Personal THEN VlansFor(d) ELSE {NoVlan} : row' = [row EXCEPT ![d].vlan = v]
    /\ engine' = At("choose", d, NoHyp, NoUid)
    /\ UNCHANGED <<held, queue, faults>> /\ UNCHANGED engineVars

FreeOf(c) == {u \in Uids : u[1] = c /\ held[u] = Free}

\* Mutant: that a uid is started or reserved is not looked at.
UidsNotReserved(hyps, d) == {u \in Uids : UidHyp(u) \in hyps /\ d \notin NamedModel}
\* A uid of a card with the most free ones.  The model a desktop names is
\* never found, as it is cut off its name.
UidsToTake(hyps, d) ==
    LET cards == {c \in Cards : HypOf[c] \in hyps /\ d \notin NamedModel /\ FreeOf(c) # {}}
    IN UNION {FreeOf(c) : c \in {c \in cards : \A b \in cards : Cardinality(FreeOf(b)) <= Cardinality(FreeOf(c))}}

CandidatesOf(d) == IF Forced[d] # NoHyp THEN online \cap {Forced[d]} ELSE online \ OnlyForced

\* get_next: without any hypervisor that is Online the choice of a GPU is a
\* False that cannot be unpacked, and the exception ends the thread.
ChoosesHyp ==
    /\ engine.pc = "choose"
    /\ LET d == engine.desktop IN
       \/ /\ d \in Gpu /\ online # {}
          /\ \E u \in UidsToTake(CandidatesOf(d), d) : engine' = At("reserve", d, UidHyp(u), u)
          /\ UNCHANGED <<row, feed>>
       \/ /\ d \notin Gpu
          /\ \E h \in CandidatesOf(d) : engine' = At("reserve", d, h, NoUid)
          /\ UNCHANGED <<row, feed>>
       \/ /\ \/ d \in Gpu /\ online # {} /\ UidsToTake(CandidatesOf(d), d) = {}
             \/ d \notin Gpu /\ CandidatesOf(d) = {}
          /\ Put(d, "Failed", NoHyp) /\ engine' = Nothing
       \/ /\ d \in Gpu /\ online = {}
          /\ engine' = At("dead", d, NoHyp, NoUid)
          /\ UNCHANGED <<row, feed>>
    /\ UNCHANGED <<held, queue, faults>> /\ UNCHANGED engineVars

\* The uid is written into the row of the hypervisor, whatever is there by
\* now, and the worker is told.
Reserves ==
    /\ engine.pc = "reserve"
    /\ LET d == engine.desktop h == engine.hyp u == engine.uid IN
       /\ TakesUid(u, d)
       /\ queue' = [queue EXCEPT ![h] = Append(@, [type |-> "start", desktop |-> d, uid |-> u, vlan |-> row[d].vlan])]
    /\ engine' = Nothing
    /\ UNCHANGED <<row, feed, faults>> /\ UNCHANGED engineVars

ActionOf(c) == IF Stops(c) THEN "stop" ELSE "shutdown"

\* An action for the worker of hyp_started; without one only the log is told.
HandlesStop(d) ==
    /\ Change(d) /\ (Stops(Head(feed)) \/ ShutsDown(Head(feed)))
    /\ queue' = IF row[d].hyp = NoHyp THEN queue
                ELSE [queue EXCEPT ![row[d].hyp] =
                        Append(@, [type |-> ActionOf(Head(feed)),
                                   desktop |-> d, uid |-> NoUid, vlan |-> NoVlan])]
    /\ UNCHANGED <<row, engine, held, faults>> /\ UNCHANGED engineVars

IgnoresChange(d) ==
    /\ Change(d) /\ ~Stops(Head(feed)) /\ ~ShutsDown(Head(feed)) /\ ~StartsNow(Head(feed))
    /\ UNCHANGED <<row, engine, held, queue, faults>> /\ UNCHANGED engineVars

\* Without workers a status that ends in "ing" is taken back.
RevertsChange(d) ==
    /\ online = {} /\ engine = Nothing /\ feed # <<>> /\ Head(feed).desktop = d
    /\ LET c == Head(feed) IN
       IF c.new \in {"Starting", "Stopping"}
       THEN /\ PutRow(d, c.old, NoHyp)
            /\ feed' = IF c.old = row[d].status THEN Tail(feed)
                       ELSE Append(Tail(feed), [desktop |-> d, old |-> row[d].status, new |-> c.old])
       ELSE row' = row /\ feed' = Tail(feed)
    /\ UNCHANGED <<engine, held, queue, faults>> /\ UNCHANGED engineVars

EngineNext ==
    \/ ChoosesHyp \/ Reserves
    \/ \E d \in Desktops : TakesVlan(d) \/ HandlesStop(d) \/ IgnoresChange(d) \/ RevertsChange(d)

----------------------------------------------------------------------------
(* The worker of hypervisor h.                                             *)

workerVars == <<engine, device, listener, online, ops>>
HeadIs(h, type) == h \in online /\ worker[h] = Nothing /\ queue[h] # <<>> /\ Head(queue[h]).type = type
Pops(h) == queue' = [queue EXCEPT ![h] = Tail(@)]

\* libvirt gives a device to one guest at a time.
CanRun(a, h) ==
    /\ \A k \in Hyps : k = h => ~Running(a.desktop, k)
    /\ a.uid # NoUid => UidHyp(a.uid) = h /\ device[a.uid] /\ \A g \in guests[h] : g.uid # a.uid

CreatesGuest(h) ==
    /\ HeadIs(h, "start") /\ Pops(h)
    /\ LET a == Head(queue[h]) IN
       /\ CanRun(a, h)
       /\ guests' = [guests EXCEPT ![h] = @ \cup {[desktop |-> a.desktop, uid |-> a.uid, vlan |-> a.vlan]}]
       /\ worker' = [worker EXCEPT ![h] = At("started", a.desktop, h, a.uid)]
    /\ UNCHANGED <<row, feed, held, events, faults>> /\ UNCHANGED workerVars

\* The uid stays reserved.
CreationFails(h) ==
    /\ HeadIs(h, "start") /\ Pops(h)
    /\ IF CanRun(Head(queue[h]), h) THEN Fault("createXML")
       ELSE ~Running(Head(queue[h]).desktop, h) /\ UNCHANGED faults
    /\ Put(Head(queue[h]).desktop, "Failed", h)
    /\ UNCHANGED <<held, worker, guests, events>> /\ UNCHANGED workerVars

\* The guest runs already: Started goes to the desktop the worker started
\* before, if there is one.
FindsActive(h) ==
    /\ HeadIs(h, "start") /\ Pops(h) /\ Running(Head(queue[h]).desktop, h)
    /\ \E d \in Desktops : Put(d, "Started", h)
    /\ UNCHANGED <<held, worker, guests, events, faults>> /\ UNCHANGED workerVars

WritesStarted(h) ==
    /\ h \in online /\ worker[h].pc = "started"
    /\ Put(worker[h].desktop, "Started", h)
    /\ worker' = [worker EXCEPT ![h].pc = "uid"]
    /\ UNCHANGED <<held, queue, guests, events, faults>> /\ UNCHANGED workerVars

WritesUid(h) ==
    /\ h \in online /\ worker[h].pc = "uid"
    /\ TakesUid(worker[h].uid, worker[h].desktop)
    /\ worker' = [worker EXCEPT ![h] = Nothing]
    /\ UNCHANGED <<row, feed, queue, guests, events, faults>> /\ UNCHANGED workerVars

DestroysGuest(h) ==
    /\ HeadIs(h, "stop") /\ Pops(h)
    /\ LET d == Head(queue[h]).desktop IN
       IF Running(d, h)
       THEN /\ guests' = [guests EXCEPT ![h] = @ \ {GuestOf(d, h)}]
            /\ events' = Append(events, <<d, h>>)
            /\ worker' = [worker EXCEPT ![h] = At("release", d, h, NoUid)]
            /\ UNCHANGED <<row, feed>>
       ELSE /\ Put(d, "Failed", h)
            /\ UNCHANGED <<guests, events, worker>>
    /\ UNCHANGED <<held, faults>> /\ UNCHANGED workerVars

WorkerReleases(h) ==
    /\ h \in online /\ worker[h].pc = "release"
    /\ Release(worker[h].desktop, h)
    /\ worker' = [worker EXCEPT ![h].pc = "stopped"]
    /\ UNCHANGED <<row, feed, queue, guests, events, faults>> /\ UNCHANGED workerVars

WritesStopped(h) ==
    /\ h \in online /\ worker[h].pc = "stopped"
    /\ Put(worker[h].desktop, "Stopped", NoHyp)
    /\ worker' = [worker EXCEPT ![h] = Nothing]
    /\ UNCHANGED <<held, queue, guests, events, faults>> /\ UNCHANGED workerVars

\* The button of the guest is pressed; if there is no guest, nothing is written.
PressesButton(h) ==
    /\ HeadIs(h, "shutdown") /\ Pops(h)
    /\ LET d == Head(queue[h]).desktop IN
       IF Running(d, h) THEN Put(d, "Shutting-down", h) ELSE UNCHANGED <<row, feed>>
    /\ UNCHANGED <<held, worker, guests, events, faults>> /\ UNCHANGED workerVars

WorkerNext(h) ==
    \/ CreatesGuest(h) \/ CreationFails(h) \/ FindsActive(h) \/ WritesStarted(h) \/ WritesUid(h)
    \/ DestroysGuest(h) \/ WorkerReleases(h) \/ WritesStopped(h) \/ PressesButton(h)

----------------------------------------------------------------------------
(* The thread of events: the status is written first, the uid given back   *)
(* afterwards, and nothing at all when the desktop is Stopped already.     *)

listenerVars == <<engine, device, queue, worker, guests, online, ops, faults>>

HandlesEvent ==
    /\ listener = Nothing /\ events # <<>>
    /\ LET d == Head(events)[1] h == Head(events)[2] IN
       IF row[d].status = "Stopped" THEN UNCHANGED <<row, feed, listener>>
       ELSE Put(d, "Stopped", NoHyp) /\ listener' = At("release", d, h, NoUid)
    /\ events' = Tail(events)
    /\ UNCHANGED held /\ UNCHANGED listenerVars

EventReleases ==
    /\ listener # Nothing
    /\ ReleaseAtEvent(listener.desktop, listener.hyp)
    /\ listener' = Nothing
    /\ UNCHANGED <<row, feed, events>> /\ UNCHANGED listenerVars

----------------------------------------------------------------------------
(* Hypervisors leave and come back.                                        *)

Leave(h) ==
    /\ online' = online \ {h}
    /\ row' = [d \in Desktops |-> IF row[d].hyp = h THEN [row[d] EXCEPT !.status = "Unknown"] ELSE row[d]]
    /\ feed' = feed \o SetToSeq({[desktop |-> d, old |-> row[d].status, new |-> "Unknown"] :
                                  d \in {d \in Desktops : row[d].hyp = h /\ row[d].status # "Unknown"}})

\* An idle worker finds the connection broken, and ends.
WorkerLost(h) ==
    /\ h \in online /\ worker[h] = Nothing /\ queue[h] = <<>> /\ Fault("lost")
    /\ Leave(h)
    /\ UNCHANGED <<engine, held, device, queue, worker, guests, events, listener, ops>>

\* With the hypervisor go its guests and the devices of its cards.
Reboots(h) ==
    /\ h \in online /\ worker[h] = Nothing /\ queue[h] = <<>> /\ Fault("reboot")
    /\ Leave(h)
    /\ guests' = [guests EXCEPT ![h] = {}]
    /\ device' = [u \in Uids |-> device[u] /\ UidHyp(u) # h]
    /\ UNCHANGED <<engine, held, queue, worker, events, listener, ops>>

DeviceVanishes(u) ==
    /\ device[u] /\ \A g \in guests[UidHyp(u)] : g.uid # u
    /\ Fault("device")
    /\ device' = [device EXCEPT ![u] = FALSE]
    /\ UNCHANGED <<row, feed, engine, held, queue, worker, guests, events, listener, online, ops>>

Incomplete(c) == \E u \in Uids : u[1] = c /\ ~device[u]

\* A worker begins with what libvirt runs, and creates the devices that are
\* missing: all uids of a card with a missing one are written as free.
WorkerReturns(h) ==
    /\ h \notin online
    /\ online' = online \cup {h}
    /\ LET status(d) == IF Running(d, h) THEN "Started" ELSE IF row[d].hyp = h THEN "Stopped" ELSE row[d].status
           changed == {d \in Desktops : status(d) # row[d].status}
       IN /\ row' = [d \in Desktops |->
                        IF Running(d, h) THEN [row[d] EXCEPT !.status = "Started", !.hyp = h]
                        ELSE IF row[d].hyp = h THEN [status |-> "Stopped", hyp |-> NoHyp, vlan |-> NoVlan]
                        ELSE row[d]]
          /\ feed' = feed \o SetToSeq({[desktop |-> d, old |-> row[d].status, new |-> status(d)] : d \in changed})
    /\ held' = [u \in Uids |-> IF UidHyp(u) = h /\ Incomplete(u[1]) THEN Free ELSE held[u]]
    /\ device' = [u \in Uids |-> device[u] \/ UidHyp(u) = h]
    /\ UNCHANGED <<engine, queue, worker, guests, events, listener, ops, faults>>

\* The actions of a worker that is gone go to another hypervisor.
MovesAction(h) ==
    /\ h \notin online /\ queue[h] # <<>> /\ Head(queue[h]).type = "start"
    /\ \E k \in online \ OnlyForced : queue' = [queue EXCEPT ![h] = Tail(@), ![k] = Append(@, Head(queue[h]))]
    /\ UNCHANGED <<row, feed, engine, held, device, worker, guests, events, listener, online, ops, faults>>

Next ==
    \/ \E d \in Desktops : AsksStart(d) \/ AsksStop(d) \/ AsksShutdown(d)
    \/ EngineNext \/ HandlesEvent \/ EventReleases
    \/ \E h \in Hyps : \/ GuestEnds(h) \/ WorkerNext(h) \/ WorkerLost(h) \/ Reboots(h)
                       \/ WorkerReturns(h) \/ MovesAction(h)
    \/ \E u \in Uids : DeviceVanishes(u)

Spec == Init /\ [][Next]_vars

----------------------------------------------------------------------------
(* Properties.                                                             *)

\* Once the worker has written the start of a guest, the device the guest runs
\* with is its own in the row of the hypervisor, so that no other start takes
\* it (update_info_nvidia_hyp_domain, domain_stopped_update_nvidia_uids_status,
\* init_nvidia).
GuestHoldsUid ==
    \A h \in Hyps : \A g \in guests[h] :
        g.uid = NoUid \/ held[g.uid] = g.desktop \/ worker[h].desktop = g.desktop

\* When nothing is going on, a uid is held by a desktop that runs with it.
HeldIsUsed ==
    Quiet => \A u \in Uids : UidHyp(u) \in online /\ held[u] # Free =>
        \E g \in guests[UidHyp(u)] : g.uid = u /\ g.desktop = held[u]

\* A uid of a card is held by the guest that has it, and for nobody else.
UidsAreHeld == GuestHoldsUid /\ HeldIsUsed

\* The start of a desktop takes no uid that another one holds by then.
TakesFreeUids == \A u \in Uids : held[u] # held'[u] /\ held'[u] # Free => held[u] = Free
NoTakeover == [][TakesFreeUids]_vars

\* Guests of two users are not in one VLAN
\* (get_and_update_personal_vlan_id_from_domain_id).
UsersApart ==
    LET all == UNION {guests[h] : h \in Hyps}
    IN \A f, g \in all : User[f.desktop] # User[g.desktop] /\ f.vlan = g.vlan => f.vlan = NoVlan

\* Guests of one user are in one VLAN.
UserTogether ==
    LET all == UNION {guests[h] : h \in Hyps}
    IN \A f, g \in all : User[f.desktop] = User[g.desktop] /\ NoVlan \notin {f.vlan, g.vlan} => f.vlan = g.vlan

\* A VLAN that desktops start with belongs to one user, who has no other.
VlansGoByUser == UsersApart /\ UserTogether
===========================================================================
