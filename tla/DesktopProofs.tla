--------------------------- MODULE DesktopProofs ---------------------------
(***************************************************************************)
(* Theorems about Desktop for every set of desktops, hypervisors and       *)
(* users, every set of operations and faults, and every bound; and, when   *)
(* users wait for the engine between two operations (Waiting), about where *)
(* desktops run.  The invariant of the latter follows an operation from    *)
(* the status a user writes to the outcome its worker writes; what guests, *)
(* hypervisors and connections do by themselves in the meantime leaves it  *)
(* where it is.                                                            *)
(***************************************************************************)
EXTENDS Desktop, SequenceTheorems, TLAPS

----------------------------------------------------------------------------
(* The rewriting of rows.                                                  *)

LEMMA PutType ==
    ASSUME NEW r \in DomainRow, NEW status \in Status, NEW hyp \in HypStarted
    PROVE  Put(r, status, hyp) \in DomainRow /\ PutStatus(r, status) \in DomainRow
BY DEF Put, PutStatus, DomainRow

LEMMA CleanedType ==
    ASSUME NEW r \in DomainRow
    PROVE  Cleaned(r) \in DomainRow /\ CleanedOne(r) \in DomainRow
<1>1. /\ {"Failed", "Stopped", "Unknown", "Started"} \subseteq Status
      /\ NoHyp \in HypStarted
  BY DEF Status, HypStarted
<1>2. \A status \in Status, hyp \in HypStarted :
        Put(r, status, hyp) \in DomainRow /\ PutStatus(r, status) \in DomainRow
  BY PutType
<1> QED
  BY <1>1, <1>2 DEF Cleaned, CleanedOne

LEMMA CoherentType ==
    ASSUME NEW h \in Hyps, row \in [Desktops -> DomainRow]
    PROVE  Coherent(h) \in [Desktops -> DomainRow]
<1>1. {"Stopped", "Started"} \subseteq Status /\ NoHyp \in HypStarted /\ h \in HypStarted
  BY DEF Status, HypStarted
<1>2. \A d \in Desktops : /\ Put(row[d], "Started", h) \in DomainRow
                          /\ Put(row[d], "Stopped", NoHyp) \in DomainRow
  BY <1>1, PutType
<1> QED
  BY <1>2 DEF Coherent

LEMMA AfterEventType ==
    ASSUME NEW r \in DomainRow, NEW h \in Hyps, NEW event
    PROVE  AfterEvent(r, h, event) \in DomainRow
<1>1. {"Stopped", "Started"} \subseteq Status /\ NoHyp \in HypStarted /\ h \in HypStarted
  BY DEF Status, HypStarted
<1> QED
  BY <1>1, PutType DEF AfterEvent

----------------------------------------------------------------------------
(* Type correctness.                                                       *)

\* What a request may have to do.
Tasks == Status \cup {"wait", "tidy"}
Requests == [Users -> [d : Desktops, todo : Seq(Tasks)]]

TableTypes ==
    /\ row \in [Desktops -> DomainRow]
    /\ feed \in [Desktops -> Seq(Change)]
    /\ client \in Requests

LEMMA ChangedType ==
    ASSUME NEW old \in DomainRow, NEW new \in DomainRow
    PROVE  Changed(old, new) \in Seq(Change)
<1>1. [old |-> old.status, new |-> new.status] \in Change
  BY DEF DomainRow, Change
<1>2. \A c \in Change : <<c>> \in Seq(Change) /\ <<>> \in Seq(Change)
  OBVIOUS
<1> QED
  BY <1>1, <1>2 DEF Changed

LEMMA NotifiedType ==
    ASSUME NEW S, NEW requests \in [Users -> [d : Desktops, todo : Seq(S)]], NEW rows
    PROVE  Notified(requests, rows) \in [Users -> [d : Desktops, todo : Seq(S)]]
<1>1. ASSUME NEW u \in Users, requests[u].todo # <<>>
      PROVE  [requests[u] EXCEPT !.todo = Tail(@)] \in [d : Desktops, todo : Seq(S)]
  <2>1. requests[u] \in [d : Desktops, todo : Seq(S)]
    OBVIOUS
  <2>2. Tail(requests[u].todo) \in Seq(S)
    BY <1>1, <2>1, HeadTailProperties
  <2> QED
    BY <2>1, <2>2
<1> QED
  BY <1>1 DEF Notified

LEMMA WriteAllType ==
    ASSUME NEW rest \in [Desktops -> Seq(Change)], NEW requests \in Requests,
           NEW rows \in [Desktops -> DomainRow], row \in [Desktops -> DomainRow],
           WriteAll(rest, requests, rows)
    PROVE  TableTypes'
<1>1. \A d \in Desktops : rest[d] \o Changed(row[d], rows[d]) \in Seq(Change)
  BY ChangedType, ConcatProperties
<1>2. feed' \in [Desktops -> Seq(Change)]
  BY <1>1 DEF WriteAll
<1>3. client' \in Requests
  BY NotifiedType DEF WriteAll, Requests
<1> QED
  BY <1>2, <1>3 DEF WriteAll, TableTypes, Requests

LEMMA WriteRowType ==
    ASSUME TableTypes, NEW d \in Desktops, NEW r \in DomainRow, WriteRow(d, r)
    PROVE  TableTypes'
<1>1. [row EXCEPT ![d] = r] \in [Desktops -> DomainRow]
  BY DEF TableTypes
<1> QED
  BY <1>1, WriteAllType DEF WriteRow, TableTypes

WorkerTypes ==
    /\ worker \in [Hyps -> {"none", "online", "silent", "dying"}]
    /\ last \in [Hyps -> SUBSET Desktops]
    /\ broken \in SUBSET Hyps
    /\ listens \in [Hyps -> {"no", "asked", "yes"}]
    /\ queue \in [Hyps -> Seq(Action)]
    /\ doing \in [Hyps -> Seq(Outcome)]
    /\ polled \in SUBSET Servers

LibvirtTypes ==
    /\ guests \in [Hyps -> SUBSET Desktops]
    /\ events \in [Hyps -> Seq(Event)]
    /\ erased \in SUBSET Desktops

BoundTypes ==
    /\ changes \in {"off", "on", "dead"}
    /\ ops \in 0 .. MaxOps
    /\ faults \in 0 .. MaxFaults

LEMMA TypeParts ==
    /\ TypeOK <=> TableTypes /\ WorkerTypes /\ LibvirtTypes /\ BoundTypes
    /\ TypeOK' <=> TableTypes' /\ WorkerTypes' /\ LibvirtTypes' /\ BoundTypes'
BY DEF TypeOK, TableTypes, WorkerTypes, LibvirtTypes, BoundTypes, Requests, Tasks

LEMMA TypeInit == Init => TypeOK
<1> SUFFICES ASSUME Init PROVE TypeOK
  OBVIOUS
<1>1. /\ [present |-> TRUE, status |-> "Stopped", hyp |-> NoHyp] \in DomainRow
      /\ MaxOps \in Nat /\ MaxFaults \in Nat
  BY ConstantsAssumption DEF DomainRow, Status, HypStarted
<1>2. \A S : <<>> \in Seq(S)
  OBVIOUS
<1>3. client \in Requests
  BY <1>2 DEF Init, Requests
<1>4. TableTypes
  BY <1>1, <1>2, <1>3 DEF Init, TableTypes
<1>5. WorkerTypes /\ LibvirtTypes
  BY <1>2 DEF Init, WorkerTypes, LibvirtTypes
<1>6. BoundTypes
  BY <1>1 DEF Init, BoundTypes
<1> QED
  BY <1>4, <1>5, <1>6, TypeParts

\* A fault or none.
LEMMA FaultsType ==
    ASSUME BoundTypes, (\E f : Fault(f)) \/ Sound
    PROVE  faults' \in 0 .. MaxFaults
BY ConstantsAssumption DEF BoundTypes, Fault, Sound

----------------------------------------------------------------------------
(* Users.                                                                  *)

\* What operations write.
LEMMA TodoType ==
    ASSUME NEW S, NEW op, NEW status,
           {"Starting", "Stopping", "Shutting-down", "Deleting", "Failed", "Stopped",
            "Maintenance", "wait", "tidy"} \subseteq S
    PROVE  Todo(op, status) \in Seq(S)
<1>1. \A a, b, c \in S : <<a>> \in Seq(S) /\ <<a, b>> \in Seq(S) /\ <<a, b, c>> \in Seq(S)
  OBVIOUS
<1>2. \A a, b, c, e \in S : <<a, b, c, e>> \in Seq(S)
  OBVIOUS
<1> QED
  BY <1>1, <1>2 DEF Todo

\* What an action leaves alone keeps its type.
LEMMA KeptTypes ==
    /\ TableTypes /\ UNCHANGED tableVars => TableTypes'
    /\ WorkerTypes /\ UNCHANGED workerVars => WorkerTypes'
    /\ LibvirtTypes /\ UNCHANGED libvirtVars => LibvirtTypes'
    /\ BoundTypes /\ UNCHANGED <<changes, bounds>> => BoundTypes'
BY DEF TableTypes, tableVars, WorkerTypes, workerVars, LibvirtTypes, libvirtVars, BoundTypes, bounds

LEMMA NewOpType ==
    ASSUME TypeOK, NEW op, NewOp(op)
    PROVE  WorkerTypes' /\ LibvirtTypes' /\ BoundTypes'
<1>1. BoundTypes'
  BY TypeParts, ConstantsAssumption DEF NewOp, BoundTypes
<1> QED
  BY <1>1, TypeParts, KeptTypes DEF NewOp

LEMMA UserReadsType ==
    ASSUME TypeOK, NEW u \in Users, NEW d \in Desktops, NEW op \in Ops, UserReads(u, d, op)
    PROVE  TypeOK'
<1>1. Todo(op, row[d].status) \in Seq(Tasks)
  BY TodoType DEF Tasks, Status
<1>2. [d |-> d, todo |-> Todo(op, row[d].status)] \in [d : Desktops, todo : Seq(Tasks)]
  BY <1>1
<1>3. TableTypes'
  BY <1>2, TypeParts DEF UserReads, TableTypes, Requests
<1> QED
  BY <1>3, NewOpType, TypeParts DEF UserReads

LEMMA UserWritesType ==
    ASSUME TypeOK, NEW u \in Users, UserWrites(u)
    PROVE  TypeOK'
<1> DEFINE q == client[u]
           w == Head(q.todo)
           r == row[q.d]
           after == IF w # "tidy" THEN PutStatus(r, w)
                    ELSE IF r.status = "Stopped" THEN PutStatus(r, "Maintenance") ELSE r
<1>1. q \in [d : Desktops, todo : Seq(Tasks)] /\ q.todo # <<>>
  BY TypeParts DEF TableTypes, Requests, UserWrites
<1>2. w \in Tasks /\ w # "wait" /\ Tail(q.todo) \in Seq(Tasks)
  BY <1>1, HeadTailProperties DEF UserWrites
<1>3. r \in DomainRow
  BY <1>1, TypeParts DEF TableTypes
<1>4. after \in DomainRow
  <2>1. NoHyp \in HypStarted /\ "Maintenance" \in Status /\ (w # "tidy" => w \in Status)
    BY <1>2 DEF HypStarted, Status, Tasks
  <2>2. PutStatus(r, "Maintenance") \in DomainRow /\ (w # "tidy" => PutStatus(r, w) \in DomainRow)
    BY <2>1, <1>3, PutType
  <2> QED
    BY <2>2, <1>3
<1>5. [client EXCEPT ![u].todo = Tail(@)] \in Requests
  BY <1>1, <1>2, TypeParts DEF TableTypes, Requests
<1>6. [row EXCEPT ![q.d] = after] \in [Desktops -> DomainRow]
  BY <1>4, TypeParts DEF TableTypes
<1>7. WriteAll(feed, [client EXCEPT ![u].todo = Tail(@)], [row EXCEPT ![q.d] = after])
  BY DEF UserWrites
<1>8. TableTypes'
  BY <1>5, <1>6, <1>7, WriteAllType, TypeParts DEF TableTypes
<1> QED
  BY <1>8, KeptTypes, TypeParts DEF UserWrites

LEMMA UserGivesUpType ==
    ASSUME TypeOK, NEW u \in Users, UserGivesUp(u)
    PROVE  TypeOK'
<1>1. client[u] \in [d : Desktops, todo : Seq(Tasks)] /\ <<>> \in Seq(Tasks)
  BY TypeParts DEF TableTypes, Requests
<1>2. TableTypes'
  BY <1>1, TypeParts DEF TableTypes, Requests, UserGivesUp
<1> QED
  BY <1>2, KeptTypes, TypeParts DEF UserGivesUp

LEMMA UserRemovesRowType ==
    ASSUME TypeOK, NEW d \in Desktops, UserRemovesRow(d)
    PROVE  TypeOK'
<1>1. [row[d] EXCEPT !.present = FALSE] \in DomainRow
  BY TypeParts DEF TableTypes, DomainRow
<1>2. TableTypes'
  BY <1>1, WriteRowType, TypeParts DEF UserRemovesRow
<1> QED
  BY <1>2, NewOpType, TypeParts DEF UserRemovesRow

LEMMA EngineRestartType ==
    ASSUME TypeOK, EngineRestart
    PROVE  TypeOK'
<1>1. \A S : <<>> \in Seq(S)
  OBVIOUS
<1>2. row' \in [Desktops -> DomainRow]
  BY CleanedType, TypeParts DEF TableTypes, EngineRestart
<1>3. client' \in Requests
  BY NotifiedType, TypeParts DEF TableTypes, Requests, EngineRestart
<1>4. TableTypes'
  BY <1>1, <1>2, <1>3 DEF TableTypes, Requests, EngineRestart
<1>5. WorkerTypes'
  BY <1>1 DEF WorkerTypes, EngineRestart
<1>6. LibvirtTypes'
  BY <1>1, TypeParts DEF LibvirtTypes, EngineRestart
<1>7. BoundTypes'
  BY TypeParts, ConstantsAssumption DEF BoundTypes, EngineRestart
<1> QED
  BY <1>4, <1>5, <1>6, <1>7, TypeParts

LEMMA UsersType == TypeOK /\ UsersNext => TypeOK'
BY UserReadsType, UserWritesType, UserGivesUpType, UserRemovesRowType, EngineRestartType DEF UsersNext

----------------------------------------------------------------------------
(* DomainsChangesThread.                                                   *)

\* A fault may have been counted, and nothing else that is bounded changes.
LEMMA CountedTypes ==
    ASSUME TypeOK, changes' \in {"off", "on", "dead"}, ops' = ops, (\E f : Fault(f)) \/ Sound
    PROVE  BoundTypes'
BY FaultsType, TypeParts DEF BoundTypes

\* The change at the head of a feed, and what is left.
LEMMA TakenType ==
    ASSUME TypeOK, NEW d \in Desktops, feed[d] # <<>>
    PROVE  /\ Head(feed[d]) \in Change
           /\ Rest(d) \in [Desktops -> Seq(Change)]
<1>1. feed[d] \in Seq(Change)
  BY TypeParts DEF TableTypes
<1>2. Head(feed[d]) \in Change /\ Tail(feed[d]) \in Seq(Change)
  BY <1>1, HeadTailProperties
<1> QED
  BY <1>2, TypeParts DEF Rest, TableTypes

LEMMA HandledType ==
    ASSUME TypeOK, NEW d \in Desktops, NEW r \in DomainRow, feed[d] # <<>>, Handled(d, r)
    PROVE  TableTypes'
<1>1. [row EXCEPT ![d] = r] \in [Desktops -> DomainRow]
  BY TypeParts DEF TableTypes
<1> QED
  BY <1>1, TakenType, WriteAllType, TypeParts DEF Handled, TableTypes

LEMMA EnqueueType ==
    ASSUME TypeOK, NEW h \in Hyps, NEW d \in Desktops, NEW type \in ActionTypes,
           Enqueue(h, type, d)
    PROVE  queue' \in [Hyps -> Seq(Action)]
<1>1. queue[h] \in Seq(Action) /\ [type |-> type, d |-> d] \in Action
  BY TypeParts DEF WorkerTypes, Action
<1>2. Append(queue[h], [type |-> type, d |-> d]) \in Seq(Action)
  BY <1>1, AppendProperties
<1> QED
  BY <1>2, TypeParts DEF Enqueue, WorkerTypes

\* What every reaction leaves alone.
LEMMA ReactedType ==
    ASSUME TypeOK, NEW d \in Desktops, NEW reactions, TakeChange(d, reactions),
           queue' \in [Hyps -> Seq(Action)], TableTypes', changes' \in {"off", "on", "dead"},
           (\E f : Fault(f)) \/ Sound
    PROVE  TypeOK'
<1>1. WorkerTypes'
  BY TypeParts DEF TakeChange, WorkerTypes
<1>2. LibvirtTypes'
  BY TypeParts, KeptTypes DEF TakeChange
<1>3. BoundTypes'
  BY CountedTypes DEF TakeChange
<1> QED
  BY <1>1, <1>2, <1>3, TypeParts

LEMMA DiesType ==
    ASSUME TypeOK, NEW d \in Desktops, NEW reactions, TakeChange(d, reactions), ChangesThreadDies
    PROVE  TypeOK'
<1>1. TableTypes'
  BY TypeParts DEF ChangesThreadDies, TableTypes
<1>2. queue' \in [Hyps -> Seq(Action)] /\ changes' \in {"off", "on", "dead"} /\ Sound
  BY TypeParts DEF ChangesThreadDies, WorkerTypes
<1> QED
  BY <1>1, <1>2, ReactedType

LEMMA ChangesThreadType == TypeOK /\ ChangesThread => TypeOK'
<1> SUFFICES ASSUME TypeOK, ChangesThread PROVE TypeOK'
  OBVIOUS
<1>1. /\ queue \in [Hyps -> Seq(Action)] /\ changes \in {"off", "on", "dead"}
      /\ worker \in [Hyps -> {"none", "online", "silent", "dying"}]
  BY TypeParts DEF WorkerTypes, BoundTypes
<1>2. NoHyp \in HypStarted /\ {"Failed", "Stopped", "DeletingDomainDisk"} \subseteq Status
  BY DEF HypStarted, Status
<1>3. {"start_domain", "shutdown_domain", "stop_domain", "delete_disk"} \subseteq ActionTypes
  BY DEF ActionTypes
<1>4. \A h \in Online : h \in Hyps
  BY DEF Online
<1>5. CASE ChangesThreadStarts
  BY <1>5, KeptTypes, TypeParts, CountedTypes DEF ChangesThreadStarts
<1>6. ASSUME NEW d \in Desktops
      PROVE  /\ row[d] \in DomainRow
             /\ \A status \in Status, hyp \in HypStarted : Put(row[d], status, hyp) \in DomainRow
  <2>1. row[d] \in DomainRow
    BY TypeParts DEF TableTypes
  <2> QED
    BY <2>1, PutType
<1>7. ASSUME NEW d \in Desktops, IgnoresChange(d) PROVE TypeOK'
  <2>1. TableTypes'
    BY <1>6, <1>7, HandledType DEF IgnoresChange, TakeChange
  <2> QED
    BY <2>1, <1>1, <1>7, ReactedType DEF IgnoresChange
<1>8. ASSUME NEW d \in Desktops, RevertsStatus(d) PROVE TypeOK'
  <2>1. feed[d] # <<>> /\ Head(feed[d]).old \in Status
    BY <1>8, TakenType DEF RevertsStatus, TakeChange, Change
  <2>2. TableTypes'
    BY <1>2, <1>6, <1>8, <2>1, HandledType DEF RevertsStatus
  <2> QED
    BY <2>2, <1>1, <1>8, ReactedType DEF RevertsStatus
<1>9. ASSUME NEW d \in Desktops, StartsDomain(d) PROVE TypeOK'
  <2>1. Put(row[d], "Failed", NoHyp) \in DomainRow
    BY <1>2, <1>6
  <2>2. TableTypes'
    BY <2>1, <1>6, <1>9, HandledType DEF StartsDomain, TakeChange
  <2>3. queue' \in [Hyps -> Seq(Action)]
    BY <1>1, <1>3, <1>4, <1>9, EnqueueType DEF StartsDomain
  <2> QED
    BY <2>2, <2>3, <1>1, <1>9, ReactedType DEF StartsDomain
<1>10. ASSUME NEW d \in Desktops, StopsDomain(d) PROVE TypeOK'
  <2>1. TakeChange(d, {"shutdown_domain", "stop_domain"}) /\ feed[d] # <<>>
    BY <1>10 DEF StopsDomain, TakeChange
  <2>2. CASE ChangesThreadDies
    BY <2>1, <2>2, DiesType
  <2>3. CASE ~ChangesThreadDies
    <3>1. /\ Handled(d, row[d]) /\ Sound /\ UNCHANGED changes
          /\ IF row[d].hyp = NoHyp THEN UNCHANGED queue
             ELSE Enqueue(row[d].hyp, Reaction(Head(feed[d])), d)
      BY <1>10, <2>3 DEF StopsDomain
    <3>2. row[d].hyp \in HypStarted
      BY <1>6 DEF DomainRow
    <3>3. Reaction(Head(feed[d])) \in ActionTypes
      BY <2>1, <1>3 DEF TakeChange
    <3>4. queue' \in [Hyps -> Seq(Action)]
      BY <1>1, <3>1, <3>2, <3>3, EnqueueType DEF HypStarted
    <3>5. TableTypes'
      BY <1>6, <2>1, <3>1, HandledType
    <3> QED
      BY <1>1, <2>1, <3>1, <3>4, <3>5, ReactedType
  <2> QED
    BY <2>2, <2>3
<1>11. ASSUME NEW d \in Desktops, DeletesDisks(d) PROVE TypeOK'
  <2>1. TakeChange(d, {"delete_disk"}) /\ feed[d] # <<>>
    BY <1>11 DEF DeletesDisks, TakeChange
  <2>2. CASE ~row[d].present
    BY <1>11, <2>1, <2>2, DiesType DEF DeletesDisks
  <2>3. CASE row[d].present
    <3>1. Put(row[d], "DeletingDomainDisk", NoHyp) \in DomainRow /\ Put(row[d], "Stopped", NoHyp) \in DomainRow
      BY <1>2, <1>6
    <3>2. TableTypes'
      BY <1>11, <2>1, <2>3, <3>1, HandledType DEF DeletesDisks
    <3>3. queue' \in [Hyps -> Seq(Action)]
      BY <1>1, <1>3, <1>4, <1>11, <2>3, EnqueueType DEF DeletesDisks
    <3> QED
      BY <1>1, <1>11, <2>1, <2>3, <3>2, <3>3, ReactedType DEF DeletesDisks
  <2> QED
    BY <2>2, <2>3
<1>12. ASSUME NEW d \in Desktops, RemovesDomain(d) PROVE TypeOK'
  <2>1. [row[d] EXCEPT !.present = FALSE] \in DomainRow
    BY <1>6 DEF DomainRow
  <2>2. TableTypes'
    BY <2>1, <1>12, HandledType DEF RemovesDomain, TakeChange
  <2> QED
    BY <2>2, <1>1, <1>12, ReactedType DEF RemovesDomain
<1> QED
  BY <1>5, <1>7, <1>8, <1>9, <1>10, <1>11, <1>12 DEF ChangesThread

----------------------------------------------------------------------------
(* libvirt.                                                                *)

LEMMA TellType ==
    ASSUME TypeOK, NEW h \in Hyps, NEW d \in Desktops, NEW event \in {"Started", "Stopped"},
           Tell(h, d, event)
    PROVE  events' \in [Hyps -> Seq(Event)]
<1>1. events[h] \in Seq(Event) /\ [d |-> d, event |-> event] \in Event
  BY TypeParts DEF LibvirtTypes, Event
<1>2. Append(events[h], [d |-> d, event |-> event]) \in Seq(Event)
  BY <1>1, AppendProperties
<1> QED
  BY <1>2, TypeParts DEF Tell, LibvirtTypes

LEMMA GuestType ==
    ASSUME TypeOK, NEW h \in Hyps, NEW d \in Desktops, Boots(h, d) \/ Ends(h, d)
    PROVE  guests' \in [Hyps -> SUBSET Desktops] /\ events' \in [Hyps -> Seq(Event)]
<1>1. guests' \in [Hyps -> SUBSET Desktops]
  BY TypeParts DEF Boots, Ends, LibvirtTypes
<1> QED
  BY <1>1, TellType DEF Boots, Ends

LEMMA BreaksType ==
    ASSUME TypeOK, NEW h \in Hyps, Breaks(h), guests' \in [Hyps -> SUBSET Desktops],
           \E f : Fault(f)
    PROVE  TypeOK'
<1>1. TableTypes'
  BY TypeParts, KeptTypes DEF Breaks
<1>2. WorkerTypes'
  BY TypeParts DEF Breaks, WorkerTypes
<1>3. <<>> \in Seq(Event)
  OBVIOUS
<1>4. LibvirtTypes'
  BY <1>3, TypeParts DEF Breaks, LibvirtTypes
<1>5. BoundTypes'
  BY CountedTypes, TypeParts DEF Breaks, BoundTypes
<1> QED
  BY <1>1, <1>2, <1>4, <1>5, TypeParts

LEMMA LibvirtType == TypeOK /\ LibvirtNext => TypeOK'
<1> SUFFICES ASSUME TypeOK, LibvirtNext PROVE TypeOK'
  OBVIOUS
<1>1. ASSUME NEW h \in Hyps, NEW d \in Desktops, GuestPowersOff(h, d) PROVE TypeOK'
  <2>1. LibvirtTypes'
    BY <1>1, GuestType, TypeParts DEF GuestPowersOff, LibvirtTypes
  <2>2. TableTypes' /\ WorkerTypes'
    BY <1>1, KeptTypes, TypeParts DEF GuestPowersOff
  <2>3. BoundTypes'
    BY <1>1, CountedTypes, TypeParts DEF GuestPowersOff, BoundTypes
  <2> QED
    BY <2>1, <2>2, <2>3, TypeParts
<1>2. ASSUME NEW h \in Hyps, ConnectionBreaks(h) PROVE TypeOK'
  BY <1>2, BreaksType, TypeParts DEF ConnectionBreaks, LibvirtTypes
<1>3. ASSUME NEW h \in Hyps, HypervisorReboots(h) PROVE TypeOK'
  BY <1>3, BreaksType, TypeParts DEF HypervisorReboots, LibvirtTypes
<1> QED
  BY <1>1, <1>2, <1>3 DEF LibvirtNext

----------------------------------------------------------------------------
(* The servers.                                                            *)

LEMMA ServersType == TypeOK /\ ServersNext => TypeOK'
<1> SUFFICES ASSUME TypeOK, ServersNext PROVE TypeOK'
  OBVIOUS
<1>1. CASE OrchestratorFindsServers
  <2>1. TableTypes' /\ LibvirtTypes'
    BY <1>1, KeptTypes, TypeParts DEF OrchestratorFindsServers
  <2>2. ServersToStart \in SUBSET Servers
    BY DEF ServersToStart
  <2>3. WorkerTypes'
    BY <1>1, <2>2, TypeParts DEF OrchestratorFindsServers, WorkerTypes
  <2>4. BoundTypes'
    BY <1>1, CountedTypes, TypeParts DEF OrchestratorFindsServers, BoundTypes
  <2> QED
    BY <2>1, <2>3, <2>4, TypeParts
<1>2. ASSUME NEW d \in Desktops, OrchestratorStartsServer(d) PROVE TypeOK'
  <2>1. Put(row[d], "Starting", NoHyp) \in DomainRow
    <3>1. row[d] \in DomainRow /\ "Starting" \in Status /\ NoHyp \in HypStarted
      BY TypeParts DEF TableTypes, Status, HypStarted
    <3> QED
      BY <3>1, PutType
  <2>2. TableTypes'
    BY <1>2, <2>1, WriteRowType, TypeParts DEF OrchestratorStartsServer
  <2>3. LibvirtTypes'
    BY <1>2, KeptTypes, TypeParts DEF OrchestratorStartsServer
  <2>4. WorkerTypes'
    BY <1>2, TypeParts DEF OrchestratorStartsServer, WorkerTypes
  <2>5. BoundTypes'
    BY <1>2, CountedTypes, TypeParts DEF OrchestratorStartsServer, BoundTypes
  <2> QED
    BY <2>2, <2>3, <2>4, <2>5, TypeParts
<1> QED
  BY <1>1, <1>2 DEF ServersNext

----------------------------------------------------------------------------
(* The workers.                                                            *)

\* The action at the head of a queue.
LEMMA ServeType ==
    ASSUME TypeOK, NEW h \in Hyps, NEW type, Serve(h, type)
    PROVE  Desktop(h) \in Desktops /\ queue' \in [Hyps -> Seq(Action)]
<1>1. queue[h] \in Seq(Action) /\ queue[h] # <<>>
  BY TypeParts DEF Serve, WorkerTypes
<1>2. Head(queue[h]) \in Action /\ Tail(queue[h]) \in Seq(Action)
  BY <1>1, HeadTailProperties
<1> QED
  BY <1>2, TypeParts DEF Serve, WorkerTypes, Desktop, Action

LEMMA ToWriteType ==
    ASSUME TypeOK, NEW h \in Hyps, Desktop(h) \in Desktops, NEW status \in Status,
           NEW hyp \in HypStarted, ToWrite(h, status, hyp)
    PROVE  doing' \in [Hyps -> Seq(Outcome)]
<1>1. [d |-> Desktop(h), status |-> status, hyp |-> hyp] \in Outcome
  BY DEF Outcome
<1>2. <<[d |-> Desktop(h), status |-> status, hyp |-> hyp]>> \in Seq(Outcome)
  BY <1>1
<1> QED
  BY <1>2, TypeParts DEF ToWrite, WorkerTypes

\* What serving an action leaves alone.
LEMMA ServedType ==
    ASSUME TypeOK, NEW h \in Hyps, NEW type, Serve(h, type),
           worker' \in [Hyps -> {"none", "online", "silent", "dying"}],
           last' \in [Hyps -> SUBSET Desktops],
           doing' \in [Hyps -> Seq(Outcome)],
           LibvirtTypes',
           (\E f : Fault(f)) \/ Sound
    PROVE  TypeOK'
<1>1. TableTypes'
  BY KeptTypes, TypeParts DEF Serve
<1>2. WorkerTypes'
  BY ServeType, TypeParts DEF Serve, WorkerTypes
<1>3. BoundTypes'
  BY CountedTypes, TypeParts DEF Serve, BoundTypes
<1> QED
  BY <1>1, <1>2, <1>3, TypeParts

\* What the other steps of a worker leave alone.
LEMMA WroteType ==
    ASSUME TypeOK, TableTypes', WorkerTypes', UNCHANGED <<changes, ops>>,
           UNCHANGED libvirtVars, (\E f : Fault(f)) \/ Sound
    PROVE  TypeOK'
<1>1. BoundTypes'
  BY CountedTypes, TypeParts DEF BoundTypes
<1> QED
  BY <1>1, KeptTypes, TypeParts

LEMMA ServingType ==
    ASSUME TypeOK, NEW h \in Hyps,
           \/ WorkerStarts(h) \/ WorkerFindsActive(h) \/ WorkerShutsDown(h)
           \/ WorkerStops(h) \/ WorkerDeletesDisk(h)
    PROVE  TypeOK'
<1> USE DEF WorkerTypes, LibvirtTypes
<1>1. /\ {"Started", "Failed", "Shutting-down", "Stopped", "DiskDeleted"} \subseteq Status
      /\ h \in HypStarted /\ NoHyp \in HypStarted
  BY DEF Status, HypStarted
<1>2. WorkerTypes /\ LibvirtTypes
  BY TypeParts
<1>3. CASE WorkerStarts(h)
  <2>1. Serve(h, "start_domain") /\ Desktop(h) \in Desktops
    BY <1>3, ServeType DEF WorkerStarts
  <2>2. doing' \in [Hyps -> Seq(Outcome)]
    BY <1>1, <1>3, <2>1, ToWriteType DEF WorkerStarts
  <2>3. LibvirtTypes' /\ last' \in [Hyps -> SUBSET Desktops]
    <3>1. guests' \in [Hyps -> SUBSET Desktops] /\ events' \in [Hyps -> Seq(Event)]
      <4>1. \/ Boots(h, Desktop(h)) \/ Ends(h, Desktop(h))
            \/ UNCHANGED <<guests, events>>
        BY <1>3 DEF WorkerStarts
      <4> QED
        BY <1>2, <2>1, <4>1, GuestType
    <3>2. last' = last \/ last' = [last EXCEPT ![h] = {Desktop(h)}]
      BY <1>3 DEF WorkerStarts
    <3>3. erased' = erased
      BY <1>3 DEF WorkerStarts
    <3>4. LibvirtTypes'
      BY <1>2, <3>1, <3>3
    <3>5. last \in [Hyps -> SUBSET Desktops] /\ {Desktop(h)} \in SUBSET Desktops
      BY <1>2, <2>1
    <3>6. last' \in [Hyps -> SUBSET Desktops]
      BY <3>2, <3>5
    <3> QED
      BY <3>4, <3>6
  <2>4. (\E f : Fault(f)) \/ Sound
    BY <1>3 DEF WorkerStarts
  <2>5. worker' \in [Hyps -> {"none", "online", "silent", "dying"}]
    BY <1>2, <1>3 DEF WorkerStarts
  <2> QED
    BY <2>1, <2>2, <2>3, <2>4, <2>5, ServedType
<1>4. CASE WorkerFindsActive(h)
  <2>1. Serve(h, "start_domain")
    BY <1>4 DEF WorkerFindsActive
  <2>2. doing' \in [Hyps -> Seq(Outcome)]
    <3>1. ASSUME NEW d \in last[h]
          PROVE  <<[d |-> d, status |-> "Started", hyp |-> h]>> \in Seq(Outcome)
      <4>1. [d |-> d, status |-> "Started", hyp |-> h] \in Outcome
        BY <1>1, <1>2, <3>1 DEF Outcome
      <4> QED
        BY <4>1
    <3> QED
      BY <1>2, <1>4, <3>1 DEF WorkerFindsActive
  <2>3. LibvirtTypes' /\ last' \in [Hyps -> SUBSET Desktops]
    BY <1>2, <1>4 DEF WorkerFindsActive, libvirtVars
  <2>4. worker' \in [Hyps -> {"none", "online", "silent", "dying"}] /\ Sound
    BY <1>2, <1>4 DEF WorkerFindsActive
  <2> QED
    BY <2>1, <2>2, <2>3, <2>4, ServedType
<1>5. CASE WorkerShutsDown(h)
  <2>1. Serve(h, "shutdown_domain") /\ Desktop(h) \in Desktops
    BY <1>5, ServeType DEF WorkerShutsDown
  <2>2. doing' \in [Hyps -> Seq(Outcome)]
    BY <1>1, <1>2, <1>5, <2>1, ToWriteType DEF WorkerShutsDown
  <2> QED
    BY <1>2, <1>5, <2>1, <2>2, ServedType DEF WorkerShutsDown, libvirtVars
<1>6. CASE WorkerStops(h)
  <2>1. Serve(h, "stop_domain") /\ Desktop(h) \in Desktops
    BY <1>6, ServeType DEF WorkerStops
  <2>2. doing' \in [Hyps -> Seq(Outcome)]
    BY <1>1, <1>6, <2>1, ToWriteType DEF WorkerStops
  <2>3. LibvirtTypes'
    BY <1>2, <1>6, <2>1, GuestType DEF WorkerStops
  <2>4. (\E f : Fault(f)) \/ Sound
    BY <1>6 DEF WorkerStops
  <2> QED
    BY <1>2, <1>6, <2>1, <2>2, <2>3, <2>4, ServedType DEF WorkerStops
<1>7. CASE WorkerDeletesDisk(h)
  <2>1. Serve(h, "delete_disk") /\ Desktop(h) \in Desktops
    BY <1>7, ServeType DEF WorkerDeletesDisk
  <2>2. doing' \in [Hyps -> Seq(Outcome)]
    BY <1>1, <1>7, <2>1, ToWriteType DEF WorkerDeletesDisk
  <2>3. LibvirtTypes'
    BY <1>2, <1>7, <2>1 DEF WorkerDeletesDisk
  <2> QED
    BY <1>2, <1>7, <2>1, <2>2, <2>3, ServedType DEF WorkerDeletesDisk
<1> QED
  BY <1>3, <1>4, <1>5, <1>6, <1>7

LEMMA WorkerWritesType ==
    ASSUME TypeOK, NEW h \in Hyps, WorkerWrites(h)
    PROVE  TypeOK'
<1> DEFINE o == Head(doing[h])
<1>1. doing[h] \in Seq(Outcome) /\ doing[h] # <<>>
  BY TypeParts DEF WorkerTypes, WorkerWrites
<1>2. o \in Outcome /\ Tail(doing[h]) \in Seq(Outcome)
  BY <1>1, HeadTailProperties
<1>3. o.d \in Desktops /\ Put(row[o.d], o.status, o.hyp) \in DomainRow
  BY <1>2, PutType, TypeParts DEF Outcome, TableTypes
<1>4. TableTypes'
  BY <1>3, WriteRowType, TypeParts DEF WorkerWrites
<1>5. WorkerTypes'
  BY <1>2, TypeParts DEF WorkerTypes, WorkerWrites
<1> QED
  BY <1>4, <1>5, WroteType DEF WorkerWrites

\* A worker writes what it finds on its hypervisor.
LEMMA CoherentWritten ==
    ASSUME TypeOK, NEW h \in Hyps, WriteAll(feed, client, Coherent(h))
    PROVE  TableTypes'
BY CoherentType, WriteAllType, TypeParts DEF TableTypes

LEMMA WorkerConnectsType ==
    ASSUME TypeOK, NEW h \in Hyps, WorkerConnects(h)
    PROVE  TypeOK'
<1>1. TableTypes'
  BY CoherentWritten DEF WorkerConnects
<1>2. WorkerTypes'
  BY TypeParts DEF WorkerTypes, WorkerConnects
<1> QED
  BY <1>1, <1>2, WroteType DEF WorkerConnects

LEMMA WorkerReconnectsType ==
    ASSUME TypeOK, NEW h \in Hyps, WorkerReconnects(h)
    PROVE  TypeOK'
<1>1. TableTypes'
  BY CoherentWritten DEF WorkerReconnects
<1>2. WorkerTypes'
  BY TypeParts DEF WorkerTypes, WorkerReconnects, FindsBroken
<1> QED
  BY <1>1, <1>2, WroteType DEF WorkerReconnects, FindsBroken

LEMMA WorkerLeavesType ==
    ASSUME TypeOK, NEW h \in Hyps, WorkerLeaves(h)
    PROVE  TypeOK'
<1> DEFINE after == [d \in Desktops |->
                        IF row[d].hyp = h THEN PutStatus(row[d], "Unknown") ELSE row[d]]
<1>1. after \in [Desktops -> DomainRow]
  <2>1. "Unknown" \in Status /\ NoHyp \in HypStarted
    BY DEF Status, HypStarted
  <2>2. \A d \in Desktops : row[d] \in DomainRow /\ PutStatus(row[d], "Unknown") \in DomainRow
    BY <2>1, PutType, TypeParts DEF TableTypes
  <2> QED
    BY <2>2
<1>2. WriteAll(feed, client, after)
  BY DEF WorkerLeaves
<1>3. TableTypes'
  BY <1>1, <1>2, WriteAllType, TypeParts DEF TableTypes
<1>4. WorkerTypes'
  BY TypeParts DEF WorkerTypes, WorkerLeaves, FindsBroken
<1>5. \E f : Fault(f)
  BY DEF WorkerLeaves
<1> QED
  BY <1>3, <1>4, <1>5, WroteType DEF WorkerLeaves, FindsBroken

LEMMA OrchestratorMovesType ==
    ASSUME TypeOK, NEW h \in Hyps, OrchestratorMoves(h)
    PROVE  TypeOK'
<1> DEFINE a == Head(queue[h])
           rest == [queue EXCEPT ![h] = Tail(@)]
<1>1. queue[h] \in Seq(Action) /\ queue[h] # <<>>
  BY TypeParts DEF WorkerTypes, OrchestratorMoves
<1>2. a \in Action /\ Tail(queue[h]) \in Seq(Action)
  BY <1>1, HeadTailProperties
<1>3. rest \in [Hyps -> Seq(Action)]
  BY <1>2, TypeParts DEF WorkerTypes
<1>4. ASSUME NEW g \in Online, queue' = [rest EXCEPT ![g] = Append(@, a)], UNCHANGED tableVars
      PROVE  queue' \in [Hyps -> Seq(Action)] /\ TableTypes'
  <2>1. g \in Hyps
    BY DEF Online
  <2>2. rest[g] \in Seq(Action)
    BY <1>3, <2>1
  <2>3. Append(rest[g], a) \in Seq(Action)
    BY <1>2, <2>2, AppendProperties
  <2> HIDE DEF rest, a
  <2>4. queue' \in [Hyps -> Seq(Action)]
    BY <1>3, <1>4, <2>1, <2>3
  <2> QED
    BY <1>4, <2>4, KeptTypes, TypeParts
<1>5. ASSUME queue' = rest, WriteRow(a.d, CleanedOne(row[a.d]))
      PROVE  queue' \in [Hyps -> Seq(Action)] /\ TableTypes'
  <2>1. a.d \in Desktops /\ CleanedOne(row[a.d]) \in DomainRow
    BY <1>2, CleanedType, TypeParts DEF Action, TableTypes
  <2>2. TableTypes'
    BY <1>5, <2>1, WriteRowType, TypeParts
  <2> QED
    BY <1>3, <1>5, <2>2
<1>6. queue' \in [Hyps -> Seq(Action)] /\ TableTypes'
  BY <1>4, <1>5 DEF OrchestratorMoves
<1>7. WorkerTypes'
  BY <1>6, TypeParts DEF WorkerTypes, OrchestratorMoves
<1> QED
  BY <1>6, <1>7, WroteType DEF OrchestratorMoves

LEMMA OrchestratorForgetsType ==
    ASSUME TypeOK, NEW h \in Hyps, OrchestratorForgets(h)
    PROVE  TypeOK'
<1>1. WorkerTypes'
  BY TypeParts DEF WorkerTypes, OrchestratorForgets
<1> QED
  BY <1>1, KeptTypes, WroteType, TypeParts DEF OrchestratorForgets

----------------------------------------------------------------------------
(* The thread of events.                                                   *)

LEMMA EventsType ==
    ASSUME TypeOK, NEW h \in Hyps, EventsNext(h)
    PROVE  TypeOK'
<1>1. CASE EventsRegister(h)
  <2>1. WorkerTypes'
    BY <1>1, TypeParts DEF WorkerTypes, EventsRegister
  <2> QED
    BY <1>1, <2>1, KeptTypes, WroteType, TypeParts DEF EventsRegister
<1>2. CASE HandlesEvent(h)
  <2> DEFINE e == Head(events[h])
  <2>1. events[h] \in Seq(Event) /\ events[h] # <<>>
    BY <1>2, TypeParts DEF LibvirtTypes, HandlesEvent
  <2>2. e \in Event /\ Tail(events[h]) \in Seq(Event)
    BY <2>1, HeadTailProperties
  <2>3. e.d \in Desktops /\ AfterEvent(row[e.d], h, e.event) \in DomainRow
    BY <2>2, AfterEventType, TypeParts DEF Event, TableTypes
  <2>4. TableTypes'
    BY <1>2, <2>3, WriteRowType, TypeParts DEF HandlesEvent
  <2>5. LibvirtTypes'
    BY <1>2, <2>2, TypeParts DEF LibvirtTypes, HandlesEvent
  <2>6. WorkerTypes'
    BY <1>2, KeptTypes, TypeParts DEF HandlesEvent
  <2>7. BoundTypes'
    BY <1>2, CountedTypes, TypeParts DEF BoundTypes, HandlesEvent
  <2> QED
    BY <2>4, <2>5, <2>6, <2>7, TypeParts
<1> QED
  BY <1>1, <1>2 DEF EventsNext

----------------------------------------------------------------------------

LEMMA TypeStep == TypeOK /\ [Next]_vars => TypeOK'
<1> SUFFICES ASSUME TypeOK, [Next]_vars PROVE TypeOK'
  OBVIOUS
<1>1. CASE UNCHANGED vars
  BY <1>1, KeptTypes, TypeParts DEF vars, tableVars, workerVars, libvirtVars, bounds
<1>2. ASSUME NEW h \in Hyps, WorkerNext(h) \/ WorkerLeaves(h) \/ EventsNext(h)
      PROVE  TypeOK'
  BY <1>2, ServingType, WorkerWritesType, WorkerConnectsType, WorkerReconnectsType,
     WorkerLeavesType, OrchestratorMovesType, OrchestratorForgetsType, EventsType DEF WorkerNext
<1> QED
  BY <1>1, <1>2, UsersType, ChangesThreadType, LibvirtType, ServersType DEF Next

\* Every step keeps every variable in its type: no status, hypervisor or
\* action that the code does not know reaches the table or a queue.
THEOREM TypeCorrect == Spec => []TypeOK
BY TypeInit, TypeStep, PTL DEF Spec

----------------------------------------------------------------------------
(* The status Started comes with a hypervisor, as long as no worker leaves *)
(* its hypervisor: a change that is taken when the last worker is gone is  *)
(* taken back, and that writes the old status without the hypervisor.  The *)
(* invariant tells that nothing remembers the status Started while there   *)
(* is no worker.                                                           *)

NamedRow == {r \in DomainRow : r.present /\ r.status = "Started" => r.hyp # NoHyp}
NotStartedRow == {r \in DomainRow : r.present => r.status # "Started"}
NamedOutcome == {o \in Outcome : o.status = "Started" => o.hyp # NoHyp}
LaterChange == {c \in Change : c.old # "Started"}
UserTasks == Tasks \ {"Started"}
UserRequests == [Users -> [d : Desktops, todo : Seq(UserTasks)]]

\* Who writes Started names the hypervisor, and users do not write it.
NamesHyps ==
    /\ row \in [Desktops -> NamedRow]
    /\ doing \in [Hyps -> Seq(NamedOutcome)]
    /\ client \in UserRequests

\* Nothing remembers the status Started and nobody is going to write it.
Silence ==
    /\ row \in [Desktops -> NotStartedRow]
    /\ feed \in [Desktops -> Seq(LaterChange)]
    /\ \A h \in Hyps : doing[h] = <<>> /\ events[h] = <<>> /\ listens[h] = "no"

SilentWithoutWorkers == ~ActionsEnabled => Silence

NoneLeaves == \A h \in Hyps : worker[h] # "dying"

HypInv == TypeOK /\ NamesHyps /\ NoneLeaves /\ SilentWithoutWorkers

LEMMA HypInvInit == Init => HypInv
<1> SUFFICES ASSUME Init PROVE HypInv
  OBVIOUS
<1>1. [present |-> TRUE, status |-> "Stopped", hyp |-> NoHyp] \in NamedRow \cap NotStartedRow
  BY DEF NamedRow, NotStartedRow, DomainRow, Status, HypStarted
<1>2. \A S : <<>> \in Seq(S)
  OBVIOUS
<1>3. NamesHyps
  BY <1>1, <1>2 DEF Init, NamesHyps, UserRequests
<1>4. SilentWithoutWorkers
  BY <1>1, <1>2 DEF Init, SilentWithoutWorkers, Silence
<1>5. NoneLeaves
  BY DEF Init, NoneLeaves
<1> QED
  BY <1>3, <1>4, <1>5, TypeInit DEF HypInv

LEMMA PutNamed ==
    ASSUME NEW r \in NamedRow, NEW status \in Status, NEW hyp \in HypStarted
    PROVE  /\ (status = "Started" => hyp # NoHyp) => Put(r, status, hyp) \in NamedRow
           /\ status # "Started" => PutStatus(r, status) \in NamedRow
<1>1. r \in DomainRow
  BY DEF NamedRow
<1>2. Put(r, status, hyp) \in DomainRow /\ PutStatus(r, status) \in DomainRow
  BY <1>1, PutType
<1> QED
  BY <1>1, <1>2 DEF Put, PutStatus, NamedRow, DomainRow

LEMMA PutNotStarted ==
    ASSUME NEW r \in NotStartedRow, NEW status \in Status \ {"Started"}, NEW hyp \in HypStarted
    PROVE  Put(r, status, hyp) \in NotStartedRow /\ PutStatus(r, status) \in NotStartedRow
<1>1. r \in DomainRow
  BY DEF NotStartedRow
<1>2. Put(r, status, hyp) \in DomainRow /\ PutStatus(r, status) \in DomainRow
  BY <1>1, PutType
<1> QED
  BY <1>1, <1>2 DEF Put, PutStatus, NotStartedRow, DomainRow

\* After clean_intermediate_status and the others no desktop is Started.
LEMMA CleanedNotStarted ==
    ASSUME NEW r \in DomainRow
    PROVE  Cleaned(r) \in NamedRow \cap NotStartedRow
<1>1. Cleaned(r) \in DomainRow
  BY CleanedType
<1>2. Cleaned(r).present => Cleaned(r).status # "Started"
  BY DEF Cleaned, Put, PutStatus, DomainRow
<1> QED
  BY <1>1, <1>2 DEF NamedRow, NotStartedRow

LEMMA CoherentNamed ==
    ASSUME NEW h \in Hyps, row \in [Desktops -> NamedRow]
    PROVE  Coherent(h) \in [Desktops -> NamedRow]
<1>1. /\ {"Stopped", "Started"} \subseteq Status
      /\ NoHyp \in HypStarted /\ h \in HypStarted /\ h # NoHyp
  BY ConstantsAssumption DEF Status, HypStarted
<1>2. \A d \in Desktops : /\ Put(row[d], "Started", h) \in NamedRow
                          /\ Put(row[d], "Stopped", NoHyp) \in NamedRow
  BY <1>1, PutNamed
<1> QED
  BY <1>2 DEF Coherent

LEMMA AfterEventNamed ==
    ASSUME NEW r \in NamedRow, NEW h \in Hyps, NEW event
    PROVE  AfterEvent(r, h, event) \in NamedRow
<1>1. /\ {"Stopped", "Started"} \subseteq Status
      /\ NoHyp \in HypStarted /\ h \in HypStarted /\ h # NoHyp
  BY ConstantsAssumption DEF Status, HypStarted
<1> QED
  BY <1>1, PutNamed DEF AfterEvent

----------------------------------------------------------------------------
(* Nobody writes Started without a hypervisor.                             *)

LEMMA WriteAllNamed ==
    ASSUME NEW rest, NEW requests \in UserRequests, NEW rows \in [Desktops -> NamedRow],
           WriteAll(rest, requests, rows)
    PROVE  row' \in [Desktops -> NamedRow] /\ client' \in UserRequests
BY NotifiedType DEF WriteAll, UserRequests

LEMMA WriteRowNamed ==
    ASSUME NamesHyps, NEW d \in Desktops, NEW r \in NamedRow,
           WriteRow(d, r) \/ Handled(d, r)
    PROVE  row' \in [Desktops -> NamedRow] /\ client' \in UserRequests
<1>1. [row EXCEPT ![d] = r] \in [Desktops -> NamedRow]
  BY DEF NamesHyps
<1> QED
  BY <1>1, WriteAllNamed DEF WriteRow, Handled, NamesHyps

LEMMA UsersNamed ==
    ASSUME HypInv, UsersNext
    PROVE  NamesHyps'
<1> USE DEF HypInv
<1>1. {"Maintenance", "Stopped", "Failed"} \subseteq Status /\ NoHyp \in HypStarted
  BY DEF Status, HypStarted
<1>2. ASSUME NEW u \in Users, NEW d \in Desktops, NEW op \in Ops, UserReads(u, d, op)
      PROVE  NamesHyps'
  <2>1. Todo(op, row[d].status) \in Seq(UserTasks)
    BY TodoType DEF UserTasks, Tasks, Status
  <2>2. [d |-> d, todo |-> Todo(op, row[d].status)] \in [d : Desktops, todo : Seq(UserTasks)]
    BY <2>1
  <2> QED
    BY <1>2, <2>2 DEF UserReads, NewOp, workerVars, NamesHyps, UserRequests
<1>3. ASSUME NEW u \in Users, UserWrites(u)
      PROVE  NamesHyps'
  <2> DEFINE q == client[u]
             w == Head(q.todo)
             r == row[q.d]
             after == IF w # "tidy" THEN PutStatus(r, w)
                      ELSE IF r.status = "Stopped" THEN PutStatus(r, "Maintenance") ELSE r
  <2>1. q \in [d : Desktops, todo : Seq(UserTasks)] /\ q.todo # <<>>
    BY <1>3 DEF NamesHyps, UserRequests, UserWrites
  <2>2. w \in UserTasks /\ w # "wait" /\ Tail(q.todo) \in Seq(UserTasks)
    BY <1>3, <2>1, HeadTailProperties DEF UserWrites
  <2>3. r \in NamedRow
    BY <2>1 DEF NamesHyps
  <2>4. after \in NamedRow
    <3>1. w # "tidy" => w \in Status /\ w # "Started"
      BY <2>2 DEF UserTasks, Tasks
    <3>2. /\ PutStatus(r, "Maintenance") \in NamedRow
          /\ w # "tidy" => PutStatus(r, w) \in NamedRow
      BY <1>1, <2>3, <3>1, PutNamed
    <3> QED
      BY <2>3, <3>2
  <2>5. [client EXCEPT ![u].todo = Tail(@)] \in UserRequests
    BY <2>1, <2>2 DEF NamesHyps, UserRequests
  <2>6. [row EXCEPT ![q.d] = after] \in [Desktops -> NamedRow]
    BY <2>4 DEF NamesHyps
  <2>7. /\ WriteAll(feed, [client EXCEPT ![u].todo = Tail(@)], [row EXCEPT ![q.d] = after])
        /\ doing' = doing
    BY <1>3 DEF UserWrites, workerVars
  <2> QED
    BY <2>5, <2>6, <2>7, WriteAllNamed DEF NamesHyps
<1>4. ASSUME NEW u \in Users, UserGivesUp(u)
      PROVE  NamesHyps'
  <2>1. client[u] \in [d : Desktops, todo : Seq(UserTasks)] /\ <<>> \in Seq(UserTasks)
    BY DEF NamesHyps, UserRequests
  <2> QED
    BY <1>4, <2>1 DEF UserGivesUp, workerVars, NamesHyps, UserRequests
<1>5. ASSUME NEW d \in Desktops, UserRemovesRow(d)
      PROVE  NamesHyps'
  <2>1. [row[d] EXCEPT !.present = FALSE] \in NamedRow
    BY DEF NamesHyps, NamedRow, DomainRow
  <2> QED
    BY <1>5, <2>1, WriteRowNamed DEF UserRemovesRow, NewOp, workerVars, NamesHyps
<1>6. CASE EngineRestart
  <2>1. row' \in [Desktops -> NamedRow]
    BY <1>6, CleanedNotStarted, TypeParts DEF EngineRestart, TableTypes
  <2>2. client' \in UserRequests
    BY <1>6, NotifiedType DEF EngineRestart, NamesHyps, UserRequests
  <2>3. doing' \in [Hyps -> Seq(NamedOutcome)]
    BY <1>6 DEF EngineRestart
  <2> QED
    BY <2>1, <2>2, <2>3 DEF NamesHyps
<1> QED
  BY <1>2, <1>3, <1>4, <1>5, <1>6 DEF UsersNext

LEMMA ChangesThreadNamed ==
    ASSUME HypInv, ChangesThread
    PROVE  NamesHyps'
<1> USE DEF HypInv
<1>1. /\ {"Failed", "Stopped", "DeletingDomainDisk"} \subseteq Status
      /\ NoHyp \in HypStarted
  BY DEF Status, HypStarted
<1>2. \A d \in Desktops : /\ row[d] \in NamedRow
                          /\ Put(row[d], "Failed", NoHyp) \in NamedRow
                          /\ Put(row[d], "Stopped", NoHyp) \in NamedRow
                          /\ Put(row[d], "DeletingDomainDisk", NoHyp) \in NamedRow
  BY <1>1, PutNamed DEF NamesHyps
<1>3. CASE ChangesThreadStarts
  BY <1>3 DEF ChangesThreadStarts, tableVars, workerVars, NamesHyps
<1>4. ASSUME NEW d \in Desktops, NEW r \in NamedRow, NEW reactions,
             TakeChange(d, reactions), Handled(d, r)
      PROVE  NamesHyps'
  BY <1>4, WriteRowNamed DEF TakeChange, NamesHyps
<1>5. ASSUME NEW d \in Desktops, NEW reactions, TakeChange(d, reactions), ChangesThreadDies
      PROVE  NamesHyps'
  BY <1>5 DEF TakeChange, ChangesThreadDies, NamesHyps
<1>6. ASSUME NEW d \in Desktops, RevertsStatus(d)
      PROVE  NamesHyps'
  <2> DEFINE c == Head(feed[d])
  <2>1. feed[d] # <<>> /\ Reaction(c) = "revert"
    BY <1>6 DEF RevertsStatus, TakeChange
  <2>2. ~ActionsEnabled
    BY <2>1 DEF Reaction
  <2>3. feed[d] \in Seq(LaterChange)
    BY <2>2 DEF SilentWithoutWorkers, Silence
  <2>4. c \in LaterChange
    BY <2>1, <2>3, HeadTailProperties
  <2>5. c.old \in Status /\ c.old # "Started"
    BY <2>4 DEF LaterChange, Change
  <2>6. Put(row[d], c.old, NoHyp) \in NamedRow
    BY <1>1, <1>2, <2>5, PutNamed
  <2> QED
    BY <1>4, <1>6, <2>6 DEF RevertsStatus
<1>7. ASSUME NEW d \in Desktops, RemovesDomain(d)
      PROVE  NamesHyps'
  <2>1. [row[d] EXCEPT !.present = FALSE] \in NamedRow
    BY <1>2 DEF NamedRow, DomainRow
  <2> QED
    BY <1>4, <1>7, <2>1 DEF RemovesDomain
<1>8. ASSUME NEW d \in Desktops, IgnoresChange(d) \/ StartsDomain(d)
      PROVE  NamesHyps'
  BY <1>2, <1>4, <1>8 DEF IgnoresChange, StartsDomain
<1>9. ASSUME NEW d \in Desktops, StopsDomain(d) \/ DeletesDisks(d)
      PROVE  NamesHyps'
  BY <1>2, <1>4, <1>5, <1>9 DEF StopsDomain, DeletesDisks
<1> QED
  BY <1>3, <1>6, <1>7, <1>8, <1>9 DEF ChangesThread

LEMMA ToWriteNamed ==
    ASSUME HypInv, NEW h \in Hyps, Desktop(h) \in Desktops, NEW status \in Status,
           NEW hyp \in HypStarted, status = "Started" => hyp # NoHyp, ToWrite(h, status, hyp)
    PROVE  doing' \in [Hyps -> Seq(NamedOutcome)]
<1>1. [d |-> Desktop(h), status |-> status, hyp |-> hyp] \in NamedOutcome
  BY DEF NamedOutcome, Outcome
<1>2. <<[d |-> Desktop(h), status |-> status, hyp |-> hyp]>> \in Seq(NamedOutcome)
  BY <1>1
<1> QED
  BY <1>2 DEF ToWrite, HypInv, NamesHyps

LEMMA ServingNamed ==
    ASSUME HypInv, NEW h \in Hyps,
           \/ WorkerStarts(h) \/ WorkerFindsActive(h) \/ WorkerShutsDown(h)
           \/ WorkerStops(h) \/ WorkerDeletesDisk(h)
    PROVE  NamesHyps'
<1> USE DEF HypInv
<1>1. /\ {"Started", "Failed", "Shutting-down", "Stopped", "DiskDeleted"} \subseteq Status
      /\ h \in HypStarted /\ NoHyp \in HypStarted /\ h # NoHyp
  BY ConstantsAssumption DEF Status, HypStarted
<1>2. \E type : Serve(h, type)
  BY DEF WorkerStarts, WorkerFindsActive, WorkerShutsDown, WorkerStops, WorkerDeletesDisk
<1>3. UNCHANGED tableVars /\ Desktop(h) \in Desktops
  BY <1>2, ServeType DEF Serve
<1>4. doing \in [Hyps -> Seq(NamedOutcome)]
  BY DEF NamesHyps
<1>5. ASSUME doing' \in [Hyps -> Seq(NamedOutcome)] PROVE NamesHyps'
  BY <1>3, <1>5 DEF NamesHyps, tableVars
<1>6. CASE WorkerFindsActive(h)
  <2>1. ASSUME NEW d \in last[h],
               doing' = [doing EXCEPT ![h] = <<[d |-> d, status |-> "Started", hyp |-> h]>>]
        PROVE  doing' \in [Hyps -> Seq(NamedOutcome)]
    <3>1. [d |-> d, status |-> "Started", hyp |-> h] \in NamedOutcome
      BY <1>1, TypeParts DEF NamedOutcome, Outcome, WorkerTypes
    <3>2. <<[d |-> d, status |-> "Started", hyp |-> h]>> \in Seq(NamedOutcome)
      BY <3>1
    <3> QED
      BY <1>4, <2>1, <3>2
  <2> QED
    BY <1>4, <1>5, <1>6, <2>1 DEF WorkerFindsActive
<1>7. CASE WorkerStarts(h)
  <2>1. ToWrite(h, "Started", h) \/ ToWrite(h, "Failed", h)
    BY <1>7 DEF WorkerStarts
  <2> QED
    BY <1>1, <1>3, <1>5, <2>1, ToWriteNamed
<1>8. CASE WorkerShutsDown(h)
  <2>1. ToWrite(h, "Shutting-down", h) \/ doing' = doing
    BY <1>8 DEF WorkerShutsDown
  <2> QED
    BY <1>1, <1>3, <1>4, <1>5, <2>1, ToWriteNamed
<1>9. CASE WorkerStops(h)
  <2>1. ToWrite(h, "Stopped", NoHyp) \/ ToWrite(h, "Failed", h)
    BY <1>9 DEF WorkerStops
  <2> QED
    BY <1>1, <1>3, <1>5, <2>1, ToWriteNamed
<1>10. CASE WorkerDeletesDisk(h)
  BY <1>1, <1>3, <1>5, <1>10, ToWriteNamed DEF WorkerDeletesDisk
<1> QED
  BY <1>6, <1>7, <1>8, <1>9, <1>10

LEMMA WorkersNamed ==
    ASSUME HypInv, "lost" \notin Faults, NEW h \in Hyps,
           WorkerNext(h) \/ WorkerLeaves(h) \/ EventsNext(h)
    PROVE  NamesHyps'
<1> USE DEF HypInv
<1>1. ASSUME WorkerWrites(h) PROVE NamesHyps'
  <2> DEFINE o == Head(doing[h])
  <2>1. doing[h] \in Seq(NamedOutcome) /\ doing[h] # <<>>
    BY <1>1 DEF NamesHyps, WorkerWrites
  <2>2. o \in NamedOutcome /\ Tail(doing[h]) \in Seq(NamedOutcome)
    BY <2>1, HeadTailProperties
  <2>3. o.d \in Desktops /\ Put(row[o.d], o.status, o.hyp) \in NamedRow
    BY <2>2, PutNamed DEF NamesHyps, NamedOutcome, Outcome
  <2>4. row' \in [Desktops -> NamedRow] /\ client' \in UserRequests
    BY <1>1, <2>3, WriteRowNamed DEF WorkerWrites
  <2>5. doing' \in [Hyps -> Seq(NamedOutcome)]
    BY <1>1, <2>2 DEF WorkerWrites, NamesHyps
  <2> QED
    BY <2>4, <2>5 DEF NamesHyps
<1>2. ASSUME WriteAll(feed, client, Coherent(h)), doing' = doing PROVE NamesHyps'
  BY <1>2, CoherentNamed, WriteAllNamed DEF NamesHyps
<1>3. ASSUME HandlesEvent(h) PROVE NamesHyps'
  <2> DEFINE e == Head(events[h])
  <2>1. events[h] \in Seq(Event) /\ events[h] # <<>>
    BY <1>3, TypeParts DEF LibvirtTypes, HandlesEvent
  <2>2. e.d \in Desktops
    <3>1. e \in Event
      BY <2>1, HeadTailProperties
    <3> QED
      BY <3>1 DEF Event
  <2>3. AfterEvent(row[e.d], h, e.event) \in NamedRow
    BY <2>2, AfterEventNamed DEF NamesHyps
  <2>4. doing' = doing
    BY <1>3 DEF HandlesEvent, workerVars
  <2>5. row' \in [Desktops -> NamedRow] /\ client' \in UserRequests
    BY <1>3, <2>2, <2>3, WriteRowNamed DEF HandlesEvent
  <2> QED
    BY <2>4, <2>5 DEF NamesHyps
<1>4. ASSUME EventsRegister(h) PROVE NamesHyps'
  BY <1>4 DEF EventsRegister, NamesHyps, tableVars
<1>5. ~OrchestratorMoves(h) /\ ~OrchestratorForgets(h) /\ ~WorkerLeaves(h)
  BY DEF NoneLeaves, OrchestratorMoves, OrchestratorForgets, WorkerLeaves, Fault
<1>6. ASSUME WorkerConnects(h) \/ WorkerReconnects(h) PROVE NamesHyps'
  BY <1>2, <1>6 DEF WorkerConnects, WorkerReconnects, FindsBroken
<1> QED
  BY <1>1, <1>3, <1>4, <1>5, <1>6, ServingNamed DEF WorkerNext, EventsNext

LEMMA OthersNamed ==
    ASSUME HypInv, LibvirtNext \/ ServersNext \/ UNCHANGED vars
    PROVE  NamesHyps'
<1> USE DEF HypInv
<1>1. ASSUME UNCHANGED <<row, client, doing>> PROVE NamesHyps'
  BY <1>1 DEF NamesHyps
<1>2. CASE LibvirtNext
  <2>1. ASSUME NEW h \in Hyps, Breaks(h) PROVE UNCHANGED <<row, client, doing>>
    BY <2>1 DEF Breaks, tableVars
  <2>2. ASSUME NEW h \in Hyps, NEW d \in Desktops, GuestPowersOff(h, d)
        PROVE  UNCHANGED <<row, client, doing>>
    BY <2>2 DEF GuestPowersOff, tableVars, workerVars
  <2>3. \A h \in Hyps : ConnectionBreaks(h) \/ HypervisorReboots(h) => Breaks(h)
    BY DEF ConnectionBreaks, HypervisorReboots
  <2>4. UNCHANGED <<row, client, doing>>
    BY <1>2, <2>1, <2>2, <2>3 DEF LibvirtNext
  <2> QED
    BY <1>1, <2>4
<1>3. CASE OrchestratorFindsServers
  BY <1>1, <1>3 DEF OrchestratorFindsServers, tableVars
<1>4. ASSUME NEW d \in Desktops, OrchestratorStartsServer(d) PROVE NamesHyps'
  <2>1. "Starting" \in Status /\ NoHyp \in HypStarted
    BY DEF Status, HypStarted
  <2>2. Put(row[d], "Starting", NoHyp) \in NamedRow
    BY <2>1, PutNamed DEF NamesHyps
  <2> QED
    BY <1>4, <2>2, WriteRowNamed DEF OrchestratorStartsServer, NamesHyps
<1>5. CASE UNCHANGED vars
  BY <1>1, <1>5 DEF vars
<1> QED
  BY <1>2, <1>3, <1>4, <1>5 DEF ServersNext

----------------------------------------------------------------------------
(* Without workers, nothing remembers the status Started.                  *)

\* The rows are written, and nothing else that matters.
LEMMA SilentWrite ==
    ASSUME Silence, NEW rest \in [Desktops -> Seq(LaterChange)], NEW requests,
           NEW rows \in [Desktops -> NotStartedRow], WriteAll(rest, requests, rows),
           UNCHANGED <<doing, events, listens>>
    PROVE  Silence'
<1>1. ASSUME NEW d \in Desktops
      PROVE  Changed(row[d], rows[d]) \in Seq(LaterChange)
  <2>1. row[d] \in NotStartedRow /\ rows[d] \in NotStartedRow
    BY DEF Silence
  <2>2. row[d].present => [old |-> row[d].status, new |-> rows[d].status] \in LaterChange
    BY <2>1 DEF NotStartedRow, DomainRow, LaterChange, Change
  <2>3. <<>> \in Seq(LaterChange) /\ \A c \in LaterChange : <<c>> \in Seq(LaterChange)
    OBVIOUS
  <2> QED
    BY <2>2, <2>3 DEF Changed
<1>2. \A d \in Desktops : rest[d] \o Changed(row[d], rows[d]) \in Seq(LaterChange)
  BY <1>1, ConcatProperties
<1>3. feed' \in [Desktops -> Seq(LaterChange)]
  BY <1>2 DEF WriteAll
<1> QED
  BY <1>3 DEF WriteAll, Silence

LEMMA SilentRow ==
    ASSUME Silence, NEW d \in Desktops, NEW r \in NotStartedRow,
           WriteRow(d, r) \/ (Handled(d, r) /\ feed[d] # <<>>),
           UNCHANGED <<doing, events, listens>>
    PROVE  Silence'
<1>1. [row EXCEPT ![d] = r] \in [Desktops -> NotStartedRow]
  BY DEF Silence
<1>2. CASE WriteRow(d, r)
  BY <1>1, <1>2, SilentWrite DEF WriteRow, Silence
<1>3. CASE Handled(d, r) /\ feed[d] # <<>>
  <2>1. feed[d] \in Seq(LaterChange)
    BY DEF Silence
  <2>2. Tail(feed[d]) \in Seq(LaterChange)
    BY <1>3, <2>1, HeadTailProperties
  <2>3. Rest(d) \in [Desktops -> Seq(LaterChange)]
    BY <2>2 DEF Rest, Silence
  <2> QED
    BY <1>1, <1>3, <2>3, SilentWrite DEF Handled
<1> QED
  BY <1>2, <1>3

\* What becomes of the workers.
LEMMA WorkerSteps ==
    ASSUME HypInv, "lost" \notin Faults, [Next]_vars
    PROVE  \/ EngineRestart
           \/ worker' = worker
           \/ \E g \in Hyps : \/ worker' = [worker EXCEPT ![g] = "online"]
                            \/ worker' = [worker EXCEPT ![g] = "silent"]
<1>1. CASE UNCHANGED vars
  BY <1>1 DEF vars
<1>2. CASE UsersNext
  BY <1>2 DEF UsersNext, UserReads, UserWrites, UserGivesUp, UserRemovesRow, NewOp, workerVars
<1>3. CASE ChangesThread
  BY <1>3 DEF ChangesThread, ChangesThreadStarts, IgnoresChange, RevertsStatus, StartsDomain,
     StopsDomain, DeletesDisks, RemovesDomain, TakeChange, workerVars
<1>4. CASE LibvirtNext
  <2>1. \A g \in Hyps : Breaks(g) => worker' = worker
    BY DEF Breaks
  <2> QED
    BY <1>4, <2>1 DEF LibvirtNext, GuestPowersOff, ConnectionBreaks, HypervisorReboots, workerVars
<1>5. CASE ServersNext
  BY <1>5 DEF ServersNext, OrchestratorFindsServers, OrchestratorStartsServer
<1>6. ASSUME NEW g \in Hyps, WorkerNext(g) \/ WorkerLeaves(g) \/ EventsNext(g)
      PROVE  \/ worker' = worker
             \/ worker' = [worker EXCEPT ![g] = "online"]
             \/ worker' = [worker EXCEPT ![g] = "silent"]
  <2>1. ~OrchestratorMoves(g) /\ ~OrchestratorForgets(g) /\ ~WorkerLeaves(g)
    BY DEF HypInv, NoneLeaves, OrchestratorMoves, OrchestratorForgets, WorkerLeaves, Fault
  <2>2. CASE WorkerFindsActive(g) \/ WorkerConnects(g)
    BY <2>2 DEF WorkerFindsActive, WorkerConnects
  <2>3. CASE WorkerStarts(g) \/ WorkerShutsDown(g) \/ WorkerStops(g) \/ WorkerDeletesDisk(g)
    BY <2>3 DEF WorkerStarts, WorkerShutsDown, WorkerStops, WorkerDeletesDisk
  <2>4. CASE WorkerWrites(g) \/ WorkerReconnects(g)
    BY <2>4 DEF WorkerWrites, WorkerReconnects
  <2>5. CASE EventsNext(g)
    BY <2>5 DEF EventsNext, EventsRegister, HandlesEvent, workerVars
  <2> QED
    BY <1>6, <2>1, <2>2, <2>3, <2>4, <2>5 DEF WorkerNext
<1> QED
  BY <1>1, <1>2, <1>3, <1>4, <1>5, <1>6 DEF Next

\* Only a restart takes the last worker away.
LEMMA WorkersStay ==
    ASSUME HypInv, "lost" \notin Faults, [Next]_vars, ~EngineRestart, ActionsEnabled
    PROVE  ActionsEnabled'
<1>1. PICK h \in Hyps : worker[h] # "none"
  BY DEF ActionsEnabled
<1>2. worker \in [Hyps -> {"none", "online", "silent", "dying"}]
  BY TypeParts DEF HypInv, WorkerTypes
<1>3. worker'[h] # "none"
  BY <1>1, <1>2, WorkerSteps
<1> QED
  BY <1>3 DEF ActionsEnabled

LEMMA NoneLeavesStep ==
    ASSUME HypInv, "lost" \notin Faults, [Next]_vars
    PROVE  NoneLeaves'
<1>1. worker \in [Hyps -> {"none", "online", "silent", "dying"}]
  BY TypeParts DEF HypInv, WorkerTypes
<1>2. ASSUME NEW h \in Hyps PROVE worker'[h] # "dying"
  BY <1>1, WorkerSteps DEF EngineRestart, HypInv, NoneLeaves
<1> QED
  BY <1>2 DEF NoneLeaves

LEMMA SilentUsers ==
    ASSUME HypInv, Silence, UsersNext, ~EngineRestart
    PROVE  Silence'
<1> USE DEF HypInv
<1>1. "Maintenance" \in Status /\ NoHyp \in HypStarted
  BY DEF Status, HypStarted
<1>2. ASSUME NEW u \in Users, NEW d \in Desktops, NEW op \in Ops, UserReads(u, d, op)
      PROVE  Silence'
  BY <1>2 DEF UserReads, NewOp, workerVars, libvirtVars, Silence
<1>3. ASSUME NEW u \in Users, UserWrites(u)
      PROVE  Silence'
  <2> DEFINE q == client[u]
             w == Head(q.todo)
             r == row[q.d]
             after == IF w # "tidy" THEN PutStatus(r, w)
                      ELSE IF r.status = "Stopped" THEN PutStatus(r, "Maintenance") ELSE r
  <2>1. q \in [d : Desktops, todo : Seq(UserTasks)] /\ q.todo # <<>>
    BY <1>3 DEF NamesHyps, UserRequests, UserWrites
  <2>2. w \in UserTasks /\ w # "wait"
    BY <1>3, <2>1, HeadTailProperties DEF UserWrites
  <2>3. r \in NotStartedRow
    BY <2>1 DEF Silence
  <2>4. after \in NotStartedRow
    <3>1. w # "tidy" => w \in Status \ {"Started"}
      BY <2>2 DEF UserTasks, Tasks
    <3>2. /\ PutStatus(r, "Maintenance") \in NotStartedRow
          /\ w # "tidy" => PutStatus(r, w) \in NotStartedRow
      BY <1>1, <2>3, <3>1, PutNotStarted
    <3> QED
      BY <2>3, <3>2
  <2>5. [row EXCEPT ![q.d] = after] \in [Desktops -> NotStartedRow]
    BY <2>4 DEF Silence
  <2>6. /\ WriteAll(feed, [client EXCEPT ![u].todo = Tail(@)], [row EXCEPT ![q.d] = after])
        /\ UNCHANGED <<doing, events, listens>>
    BY <1>3 DEF UserWrites, workerVars, libvirtVars
  <2>7. feed \in [Desktops -> Seq(LaterChange)]
    BY DEF Silence
  <2> QED
    BY <2>5, <2>6, <2>7, SilentWrite
<1>4. ASSUME NEW u \in Users, UserGivesUp(u)
      PROVE  Silence'
  BY <1>4 DEF UserGivesUp, workerVars, libvirtVars, Silence
<1>5. ASSUME NEW d \in Desktops, UserRemovesRow(d)
      PROVE  Silence'
  <2>1. [row[d] EXCEPT !.present = FALSE] \in NotStartedRow
    BY DEF Silence, NotStartedRow, DomainRow
  <2> QED
    BY <1>5, <2>1, SilentRow DEF UserRemovesRow, NewOp, workerVars, libvirtVars
<1> QED
  BY <1>2, <1>3, <1>4, <1>5 DEF UsersNext

\* The thread of the changes only takes changes back or lets them go.
LEMMA SilentChanges ==
    ASSUME HypInv, Silence, ~ActionsEnabled, ChangesThread
    PROVE  Silence'
<1> USE DEF HypInv
<1>1. CASE ChangesThreadStarts
  BY <1>1 DEF ChangesThreadStarts, tableVars, workerVars, libvirtVars, Silence
<1>2. \A c : Reaction(c) \in {"revert", "nothing"}
  BY DEF Reaction
<1>3. ASSUME NEW d \in Desktops,
             StartsDomain(d) \/ StopsDomain(d) \/ DeletesDisks(d) \/ RemovesDomain(d)
      PROVE  FALSE
  <2>1. Reaction(Head(feed[d])) \in {"start_domain", "shutdown_domain", "stop_domain", "delete_disk", "remove"}
    BY <1>3 DEF StartsDomain, StopsDomain, DeletesDisks, RemovesDomain, TakeChange
  <2> QED
    BY <1>2, <2>1
<1>4. ASSUME NEW d \in Desktops, NEW reactions, NEW r \in NotStartedRow,
             TakeChange(d, reactions), Handled(d, r)
      PROVE  Silence'
  BY <1>4, SilentRow DEF TakeChange, libvirtVars
<1>5. ASSUME NEW d \in Desktops, IgnoresChange(d) PROVE Silence'
  BY <1>4, <1>5 DEF IgnoresChange, Silence
<1>6. ASSUME NEW d \in Desktops, RevertsStatus(d) PROVE Silence'
  <2> DEFINE c == Head(feed[d])
  <2>1. feed[d] \in Seq(LaterChange) /\ feed[d] # <<>>
    BY <1>6 DEF RevertsStatus, TakeChange, Silence
  <2>2. c \in LaterChange
    BY <2>1, HeadTailProperties
  <2>3. c.old \in Status \ {"Started"} /\ NoHyp \in HypStarted /\ row[d] \in NotStartedRow
    BY <2>2 DEF LaterChange, Change, HypStarted, Silence
  <2>4. Put(row[d], c.old, NoHyp) \in NotStartedRow
    BY <2>3, PutNotStarted
  <2> QED
    BY <1>4, <1>6, <2>4 DEF RevertsStatus
<1> QED
  BY <1>1, <1>3, <1>5, <1>6 DEF ChangesThread

LEMMA SilentLibvirt ==
    ASSUME HypInv, Silence, LibvirtNext
    PROVE  Silence'
<1> USE DEF HypInv
<1>1. ASSUME NEW h \in Hyps, Breaks(h) PROVE Silence'
  <2>1. \A g \in Hyps : events'[g] = <<>> /\ listens'[g] = "no"
    BY <1>1, TypeParts DEF Breaks, Silence, LibvirtTypes, WorkerTypes
  <2> QED
    BY <1>1, <2>1 DEF Breaks, tableVars, Silence
<1>2. ASSUME NEW h \in Hyps, NEW d \in Desktops, GuestPowersOff(h, d) PROVE Silence'
  <2>1. UNCHANGED events
    BY <1>2 DEF GuestPowersOff, Ends, Tell, Silence
  <2> QED
    BY <1>2, <2>1 DEF GuestPowersOff, tableVars, workerVars, Silence
<1>3. \A h \in Hyps : ConnectionBreaks(h) \/ HypervisorReboots(h) => Breaks(h)
  BY DEF ConnectionBreaks, HypervisorReboots
<1> QED
  BY <1>1, <1>2, <1>3 DEF LibvirtNext

LEMMA SilentServers ==
    ASSUME HypInv, Silence, ServersNext
    PROVE  Silence'
<1>1. CASE OrchestratorFindsServers
  BY <1>1 DEF OrchestratorFindsServers, tableVars, libvirtVars, Silence
<1>2. ASSUME NEW d \in Desktops, OrchestratorStartsServer(d) PROVE Silence'
  <2>1. "Starting" \in Status \ {"Started"} /\ NoHyp \in HypStarted
    BY DEF Status, HypStarted
  <2>2. Put(row[d], "Starting", NoHyp) \in NotStartedRow
    BY <2>1, PutNotStarted DEF Silence
  <2> QED
    BY <1>2, <2>2, SilentRow DEF OrchestratorStartsServer, libvirtVars
<1> QED
  BY <1>1, <1>2 DEF ServersNext

\* Without a worker none of these steps is taken but a worker that connects,
\* and then there is a worker.
LEMMA SilentWorkers ==
    ASSUME HypInv, Silence, ~ActionsEnabled, NEW h \in Hyps,
           WorkerNext(h) \/ WorkerLeaves(h) \/ EventsNext(h)
    PROVE  ActionsEnabled'
<1>1. worker[h] = "none"
  BY DEF ActionsEnabled
<1>2. doing[h] = <<>> /\ events[h] = <<>> /\ listens[h] = "no"
  BY DEF Silence
<1>3. WorkerConnects(h)
  BY <1>1, <1>2 DEF WorkerNext, WorkerLeaves, EventsNext, WorkerStarts, WorkerFindsActive, WorkerShutsDown,
     WorkerStops, WorkerDeletesDisk, Serve, WorkerWrites, WorkerReconnects, FindsBroken, OrchestratorMoves,
     OrchestratorForgets, EventsRegister, HandlesEvent
<1> QED
  BY <1>3, TypeParts DEF WorkerConnects, ActionsEnabled, HypInv, WorkerTypes

LEMMA SilentStep ==
    ASSUME HypInv, "lost" \notin Faults, [Next]_vars
    PROVE  SilentWithoutWorkers'
<1>1. CASE EngineRestart
  <2>1. row' \in [Desktops -> NotStartedRow]
    BY <1>1, CleanedNotStarted, TypeParts DEF EngineRestart, HypInv, TableTypes
  <2>2. <<>> \in Seq(LaterChange)
    OBVIOUS
  <2>3. Silence'
    BY <1>1, <2>1, <2>2 DEF EngineRestart, Silence
  <2> QED
    BY <2>3 DEF SilentWithoutWorkers
<1>2. CASE ~EngineRestart /\ ActionsEnabled
  BY <1>2, WorkersStay DEF SilentWithoutWorkers
<1>3. CASE ~EngineRestart /\ ~ActionsEnabled
  <2>1. Silence
    BY <1>3 DEF HypInv, SilentWithoutWorkers
  <2>2. UNCHANGED vars => Silence'
    BY <2>1 DEF vars, Silence
  <2>3. Silence' \/ ActionsEnabled'
    BY <1>3, <2>1, <2>2, SilentUsers, SilentChanges, SilentLibvirt, SilentServers, SilentWorkers DEF Next
  <2> QED
    BY <2>3 DEF SilentWithoutWorkers
<1> QED
  BY <1>1, <1>2, <1>3

----------------------------------------------------------------------------

LEMMA HypInvStep ==
    ASSUME "lost" \notin Faults
    PROVE  HypInv /\ [Next]_vars => HypInv'
<1> SUFFICES ASSUME HypInv, [Next]_vars PROVE HypInv'
  OBVIOUS
<1>1. TypeOK'
  BY TypeStep DEF HypInv
<1>2. NamesHyps'
  BY UsersNamed, ChangesThreadNamed, WorkersNamed, OthersNamed DEF Next
<1> QED
  BY <1>1, <1>2, NoneLeavesStep, SilentStep DEF HypInv

LEMMA HypInvStarted == HypInv => StartedHasHyp
BY DEF HypInv, NamesHyps, NamedRow, StartedHasHyp

\* Unless a worker leaves its hypervisor no desktop is ever Started without
\* one in hyp_started, whatever users do meanwhile, whatever else fails and
\* however often the engine restarts.
THEOREM StartedNamesHyp ==
    ASSUME "lost" \notin Faults
    PROVE  Spec => []StartedHasHyp
BY HypInvInit, HypInvStep, HypInvStarted, PTL DEF Spec

----------------------------------------------------------------------------
(* A row that left the table does not come back: every write goes by Put,  *)
(* which leaves a row that is not there alone.                             *)

NoneReturns == \A d \in Desktops : row'[d].present => row[d].present

LEMMA PutPresent ==
    ASSUME NEW r \in DomainRow, NEW status, NEW hyp
    PROVE  Put(r, status, hyp).present = r.present /\ PutStatus(r, status).present = r.present
BY DEF Put, PutStatus, DomainRow

LEMMA RewrittenPresent ==
    ASSUME NEW r \in DomainRow, NEW h, NEW event
    PROVE  /\ Cleaned(r).present = r.present
           /\ CleanedOne(r).present = r.present
           /\ AfterEvent(r, h, event).present = r.present
BY PutPresent DEF Cleaned, CleanedOne, AfterEvent

\* One row is written, by whom or whatever, and is there only if it was.
LEMMA OneWritten ==
    ASSUME TypeOK, NEW d, NEW r, r.present => row[d].present,
           WriteRow(d, r) \/ Handled(d, r)
    PROVE  NoneReturns
<1>1. row \in [Desktops -> DomainRow]
  BY TypeParts DEF TableTypes
<1>2. row' = [row EXCEPT ![d] = r]
  BY DEF WriteRow, Handled, WriteAll
<1> QED
  BY <1>1, <1>2 DEF NoneReturns

LEMMA KeptRows == UNCHANGED tableVars \/ UNCHANGED row => NoneReturns
BY DEF tableVars, NoneReturns

LEMMA UsersReturnNone == TypeOK /\ UsersNext => NoneReturns
<1> SUFFICES ASSUME TypeOK, UsersNext PROVE NoneReturns
  OBVIOUS
<1>1. row \in [Desktops -> DomainRow] /\ client \in Requests
  BY TypeParts DEF TableTypes
<1>2. ASSUME NEW u \in Users, UserWrites(u) PROVE NoneReturns
  <2>1. client[u].d \in Desktops /\ row[client[u].d] \in DomainRow
    BY <1>1 DEF Requests
  <2>2. PICK r : /\ r.present = row[client[u].d].present
                 /\ row' = [row EXCEPT ![client[u].d] = r]
    BY <1>2, <2>1, PutPresent DEF UserWrites, WriteAll
  <2> QED
    BY <1>1, <2>1, <2>2 DEF NoneReturns
<1>3. ASSUME NEW d \in Desktops, UserRemovesRow(d) PROVE NoneReturns
  BY <1>3, OneWritten DEF UserRemovesRow
<1>4. CASE EngineRestart
  BY <1>1, <1>4, RewrittenPresent DEF EngineRestart, NoneReturns
<1>5. ASSUME NEW u \in Users, NEW d \in Desktops, NEW op \in Ops, UserReads(u, d, op)
      PROVE  NoneReturns
  BY <1>5, KeptRows DEF UserReads
<1>6. ASSUME NEW u \in Users, UserGivesUp(u) PROVE NoneReturns
  BY <1>6, KeptRows DEF UserGivesUp
<1> QED
  BY <1>2, <1>3, <1>4, <1>5, <1>6 DEF UsersNext

LEMMA ChangesReturnNone == TypeOK /\ ChangesThread => NoneReturns
<1> SUFFICES ASSUME TypeOK, ChangesThread PROVE NoneReturns
  OBVIOUS
<1>1. CASE ChangesThreadStarts
  BY <1>1, KeptRows DEF ChangesThreadStarts
<1>2. ASSUME NEW d \in Desktops PROVE row[d] \in DomainRow
  BY TypeParts DEF TableTypes
<1>3. CASE ChangesThreadDies
  BY <1>3, KeptRows DEF ChangesThreadDies
<1>4. ASSUME NEW d \in Desktops, NEW status, NEW hyp,
             Handled(d, row[d]) \/ Handled(d, Put(row[d], status, hyp))
      PROVE  NoneReturns
  BY <1>2, <1>4, PutPresent, OneWritten
<1>5. ASSUME NEW d \in Desktops, IgnoresChange(d) \/ RevertsStatus(d) PROVE NoneReturns
  BY <1>4, <1>5 DEF IgnoresChange, RevertsStatus
<1>6. ASSUME NEW d \in Desktops, StartsDomain(d) PROVE NoneReturns
  BY <1>4, <1>6 DEF StartsDomain
<1>7. ASSUME NEW d \in Desktops, StopsDomain(d) PROVE NoneReturns
  <2>1. ChangesThreadDies \/ Handled(d, row[d])
    BY <1>7 DEF StopsDomain
  <2> QED
    BY <2>1, <1>3, <1>4
<1>8. ASSUME NEW d \in Desktops, DeletesDisks(d) PROVE NoneReturns
  BY <1>3, <1>4, <1>8 DEF DeletesDisks
<1>9. ASSUME NEW d \in Desktops, RemovesDomain(d) PROVE NoneReturns
  BY <1>2, <1>9, OneWritten DEF RemovesDomain, DomainRow
<1> QED
  BY <1>1, <1>5, <1>6, <1>7, <1>8, <1>9 DEF ChangesThread

LEMMA WorkersReturnNone ==
    ASSUME TypeOK, NEW h \in Hyps, WorkerNext(h) \/ WorkerLeaves(h) \/ EventsNext(h)
    PROVE  NoneReturns
<1>1. row \in [Desktops -> DomainRow]
  BY TypeParts DEF TableTypes
<1>2. CASE WorkerStarts(h) \/ WorkerFindsActive(h) \/ WorkerShutsDown(h) \/ WorkerStops(h)
           \/ WorkerDeletesDisk(h)
  <2>1. \E type : Serve(h, type)
    BY <1>2 DEF WorkerStarts, WorkerFindsActive, WorkerShutsDown, WorkerStops, WorkerDeletesDisk
  <2> QED
    BY <2>1, KeptRows DEF Serve
<1>3. CASE WorkerWrites(h)
  <2>1. doing[h] \in Seq(Outcome) /\ doing[h] # <<>>
    BY <1>3, TypeParts DEF WorkerTypes, WorkerWrites
  <2>2. Head(doing[h]) \in Outcome
    BY <2>1, HeadTailProperties
  <2>3. Head(doing[h]).d \in Desktops
    BY <2>2 DEF Outcome
  <2> QED
    BY <1>1, <1>3, <2>3, PutPresent, OneWritten DEF WorkerWrites
<1>4. ASSUME WorkerConnects(h) \/ WorkerReconnects(h) PROVE NoneReturns
  <2>1. row' = Coherent(h)
    BY <1>4 DEF WorkerConnects, WorkerReconnects, WriteAll
  <2> QED
    BY <1>1, <2>1, PutPresent DEF Coherent, NoneReturns
<1>5. CASE WorkerLeaves(h)
  <2>1. row' = [d \in Desktops |->
                  IF row[d].hyp = h THEN PutStatus(row[d], "Unknown") ELSE row[d]]
    BY <1>5 DEF WorkerLeaves, WriteAll
  <2> QED
    BY <1>1, <2>1, PutPresent DEF NoneReturns
<1>6. CASE OrchestratorMoves(h)
  <2>1. queue[h] \in Seq(Action) /\ queue[h] # <<>>
    BY <1>6, TypeParts DEF WorkerTypes, OrchestratorMoves
  <2>2. Head(queue[h]) \in Action
    BY <2>1, HeadTailProperties
  <2>3. Head(queue[h]).d \in Desktops
    BY <2>2 DEF Action
  <2>4. UNCHANGED tableVars
        \/ WriteRow(Head(queue[h]).d, CleanedOne(row[Head(queue[h]).d]))
    BY <1>6 DEF OrchestratorMoves
  <2> QED
    BY <1>1, <2>3, <2>4, KeptRows, RewrittenPresent, OneWritten
<1>7. CASE OrchestratorForgets(h) \/ EventsRegister(h)
  BY <1>7, KeptRows DEF OrchestratorForgets, EventsRegister
<1>8. CASE HandlesEvent(h)
  <2>1. events[h] \in Seq(Event) /\ events[h] # <<>>
    BY <1>8, TypeParts DEF LibvirtTypes, HandlesEvent
  <2>2. Head(events[h]) \in Event
    BY <2>1, HeadTailProperties
  <2>3. Head(events[h]).d \in Desktops
    BY <2>2 DEF Event
  <2> QED
    BY <1>1, <1>8, <2>3, RewrittenPresent, OneWritten DEF HandlesEvent
<1> QED
  BY <1>2, <1>3, <1>4, <1>5, <1>6, <1>7, <1>8 DEF WorkerNext, EventsNext

LEMMA OthersReturnNone == TypeOK /\ (LibvirtNext \/ ServersNext) => NoneReturns
<1> SUFFICES ASSUME TypeOK, LibvirtNext \/ ServersNext PROVE NoneReturns
  OBVIOUS
<1>1. CASE LibvirtNext
  BY <1>1, KeptRows DEF LibvirtNext, GuestPowersOff, ConnectionBreaks, HypervisorReboots, Breaks
<1>2. CASE OrchestratorFindsServers
  BY <1>2, KeptRows DEF OrchestratorFindsServers
<1>3. ASSUME NEW d \in Desktops, OrchestratorStartsServer(d) PROVE NoneReturns
  <2>1. row[d] \in DomainRow
    BY TypeParts DEF TableTypes
  <2> QED
    BY <1>3, <2>1, PutPresent, OneWritten DEF OrchestratorStartsServer
<1> QED
  BY <1>1, <1>2, <1>3 DEF ServersNext

\* No worker, event, request, poll or restart brings the row of a desktop
\* back that left the table, however late it writes and whatever failed: an
\* outcome about a deleted desktop is not written any more.
THEOREM NoRowReturns == Spec => RowsDoNotReturn
<1>1. TypeOK /\ [Next]_vars => [NoneReturns]_vars
  <2> SUFFICES ASSUME TypeOK, Next PROVE NoneReturns
    OBVIOUS
  <2> QED
    BY UsersReturnNone, ChangesReturnNone, WorkersReturnNone, OthersReturnNone DEF Next
<1>2. [NoneReturns]_vars => [\A d \in Desktops : row'[d].present => row[d].present]_vars
  BY DEF NoneReturns
<1> QED
  BY <1>1, <1>2, TypeCorrect, PTL DEF Spec, RowsDoNotReturn

----------------------------------------------------------------------------
(* Where desktops run, when users wait for the engine between two          *)
(* operations, whatever happens to guests, hypervisors and connections.    *)

Waiting ==
    /\ Patient /\ Servers = {}
    /\ Ops \subseteq {"start", "stop", "shutdown", "stopping", "delete"}
    /\ Faults \subseteq {"power_off", "bad_xml", "start", "net", "host"}

Ending(d) == [d |-> d, event |-> "Stopped"]
EndWaits(d, h) == \E i \in DOMAIN events[h] : events[h][i] = Ending(d)
HasNews(d, h) == \E i \in DOMAIN events[h] : events[h][i].d = d
NoNews(d) == \A h \in Hyps : ~HasNews(d, h)
RunsNowhere(d) == \A h \in Hyps : d \notin guests[h]
OnlyAt(d, h) == \A k \in Hyps : d \in guests[k] => k = h
Gone(d) == RunsNowhere(d) /\ NoNews(d)

\* Workers stay, and nothing comes from a hypervisor nobody listens to.
WorkersListen ==
    /\ changes # "dead" /\ polled = {}
    /\ changes = "off" => \A h \in Hyps : worker[h] = "none"
    /\ \A h \in Hyps :
        /\ worker[h] \in {"none", "online"}
        /\ worker[h] = "none" => guests[h] = {} /\ queue[h] = <<>> /\ doing[h] = <<>> /\ listens[h] = "no"
        /\ listens[h] # "yes" => events[h] = <<>>
        /\ h \in broken => listens[h] # "yes"

RowsNameWorkers ==
    \A d \in Desktops :
        /\ row[d].hyp # NoHyp => worker[row[d].hyp] = "online"
        /\ row[d].status = "Stopped" => row[d].hyp = NoHyp

RunOnce == \A h \in Hyps : \A d \in guests[h] : OnlyAt(d, h)

\* An end that waits to be told is the last news of a desktop, and a start is
\* followed by an end unless the desktop runs.
EndsAreLast ==
    \A d \in Desktops, h \in Hyps : \A i \in DOMAIN events[h] : events[h][i] = Ending(d) =>
        RunsNowhere(d) /\ \A k \in Hyps : \A j \in DOMAIN events[k] : events[k][j] = Ending(d) => k = h /\ j = i
StartsAreTrue ==
    \A d \in Desktops, h \in Hyps : \A i \in DOMAIN events[h] : events[h][i] = [d |-> d, event |-> "Started"] =>
        d \in guests[h] \/ \E j \in DOMAIN events[h] : j > i /\ events[h][j] = Ending(d)
NewsAreTrue == EndsAreLast /\ StartsAreTrue

\* What the table tells of a desktop, unless a worker is about to write about
\* it: where it runs, or somebody will find out that it does not.
Truth(d) ==
    row[d].present =>
    /\ \A h \in Hyps : d \in guests[h] => row[d].hyp = h /\ (row[d].status = "Failed" => h \in broken)
    /\ row[d].status = "Started" =>
        /\ row[d].hyp \in Hyps
        /\ d \in guests[row[d].hyp] \/ row[d].hyp \in broken \/ EndWaits(d, row[d].hyp)

\* Changes that DomainsChangesThread ignores.
Passive(c) ==
    \/ c.new \in {"Stopped", "Started", "Failed", "DeletingDomainDisk"}
    \/ c.new = "Shutting-down" /\ c.old # "Started"
Ignored(d) == \A i \in DOMAIN feed[d] : Passive(feed[d][i])
OneActive(d, c) ==
    \E i \in DOMAIN feed[d] : feed[d][i] = c /\ \A j \in DOMAIN feed[d] : j # i => Passive(feed[d][j])

NoTodo == \A u \in Users : client[u].todo = <<>>
NoQueue == \A h \in Hyps : queue[h] = <<>>
NoOutcome == \A h \in Hyps : doing[h] = <<>>

Idle(d) == Ignored(d) /\ Truth(d) /\ (d \in erased => ~row[d].present /\ RunsNowhere(d))

AtRest == NoTodo /\ NoQueue /\ NoOutcome /\ \A d \in Desktops : Idle(d)

----------------------------------------------------------------------------
(* What an operation is at: a user is to write a status, the change of it  *)
(* waits, an action does, or a worker is to write its outcome.             *)

Down == {"Stopped", "Failed"}
Up == {"Started", "Shutting-down"}

\* The news of a desktop come from the hypervisor it is at, and there are
\* none when it is told not to run.
OwnNews(d) ==
    /\ row[d].status \in Down => Gone(d)
    /\ \A h \in Hyps : HasNews(d, h) => row[d].hyp = h

Asked(d, u, w) ==
    /\ client[u] = [d |-> d, todo |-> <<w>>] /\ \A v \in Users : v # u => client[v].todo = <<>>
    /\ NoQueue /\ NoOutcome
    /\ Ignored(d) /\ Truth(d) /\ d \notin erased /\ row[d].status \in Down \cup Up
    /\ \/ w \in {"Stopping", "Shutting-down"}
       \/ w = "Starting" /\ row[d].status \in Down /\ Gone(d)
       \/ w = "Deleting" /\ OwnNews(d)

Wanted(d, c) ==
    \/ c.new \in {"Stopping", "Shutting-down"} /\ c.old \in Down \cup Up /\ d \notin erased
    \/ c.new \in {"Starting", "Deleting"} /\ c.old \in Down /\ Gone(d) /\ d \notin erased
    \/ c.new = "Deleting" /\ c.old \in Up /\ d \notin erased
    \/ /\ c.new = "DiskDeleted" /\ c.old = "DeletingDomainDisk" /\ ActionsEnabled
       /\ Gone(d) /\ row[d].status = "DiskDeleted" /\ row[d].hyp = NoHyp
Told(d, c) == NoTodo /\ NoQueue /\ NoOutcome /\ Truth(d) /\ OneActive(d, c) /\ ~Passive(c) /\ Wanted(d, c)

BeingDeleted(d) == Gone(d) /\ row[d].status = "DeletingDomainDisk" /\ row[d].hyp = NoHyp

Queued(d, h, type) ==
    /\ NoTodo /\ NoOutcome
    /\ queue[h] = <<[type |-> type, d |-> d]>> /\ \A k \in Hyps : k # h => queue[k] = <<>>
    /\ Ignored(d) /\ Truth(d) /\ d \notin erased
    /\ \/ type \in {"stop_domain", "shutdown_domain"} /\ OnlyAt(d, h)
       \/ type = "start_domain" /\ Gone(d)
       \/ type = "delete_disk" /\ BeingDeleted(d)

Begun(d, h) ==
    /\ OnlyAt(d, h) /\ d \notin erased
    /\ d \in guests[h] \/ h \in broken
    /\ \A k \in Hyps : ~EndWaits(d, k)

\* What an outcome that is to be written says of the desktop
Due(d, h, s) ==
    \/ s = "Started" /\ Begun(d, h)
    \/ /\ s = "Failed" /\ Truth(d) /\ d \notin erased
       /\ \A k \in Hyps : d \in guests[k] => k = h /\ h \in broken
    \/ s = "Shutting-down" /\ Truth(d) /\ OnlyAt(d, h) /\ d \notin erased
    \/ s = "Stopped" /\ RunsNowhere(d) /\ d \notin erased
    \/ s = "DiskDeleted" /\ BeingDeleted(d) /\ Truth(d)

Working(d, h, s) ==
    /\ NoTodo /\ NoQueue /\ Ignored(d)
    /\ \A k \in Hyps : k # h => doing[k] = <<>>
    /\ doing[h] = <<[d |-> d, status |-> s, hyp |-> IF s \in {"Stopped", "DiskDeleted"} THEN NoHyp ELSE h]>>
    /\ Due(d, h, s)

Stage(d) ==
    \/ \E u \in Users, w \in Status : Asked(d, u, w)
    \/ \E c \in Change : Told(d, c)
    \/ \E h \in Hyps, type \in ActionTypes : Queued(d, h, type)
    \/ \E h \in Hyps, s \in Status : Working(d, h, s)

Busy(d) == changes = "on" /\ row[d].present /\ Stage(d) /\ \A e \in Desktops : e # d => Idle(e)

PlaceBase == WorkersListen /\ RowsNameWorkers /\ RunOnce /\ NewsAreTrue
OneIsBusy == AtRest \/ \E d \in Desktops : Busy(d)
PlaceInv == PlaceBase /\ OneIsBusy
----------------------------------------------------------------------------
(* Sequences, and what is written.                                         *)

LEMMA TailIndices ==
    ASSUME NEW S, NEW s \in Seq(S), s # <<>>
    PROVE  /\ Tail(s) \in Seq(S) /\ DOMAIN s = 1 .. Len(s) /\ Len(s) \in Nat \ {0} /\ 1 \in DOMAIN s
           /\ Head(s) = s[1] /\ DOMAIN Tail(s) = 1 .. (Len(s) - 1)
           /\ \A i \in DOMAIN Tail(s) : i + 1 \in DOMAIN s /\ Tail(s)[i] = s[i + 1]
           /\ \A i \in DOMAIN s : i # 1 => i - 1 \in DOMAIN Tail(s) /\ Tail(s)[i - 1] = s[i]
OBVIOUS

LEMMA AppendIndices ==
    ASSUME NEW S, NEW s \in Seq(S), NEW e \in S
    PROVE  /\ Append(s, e) \in Seq(S) /\ Len(s) \in Nat /\ DOMAIN s = 1 .. Len(s)
           /\ DOMAIN Append(s, e) = 1 .. (Len(s) + 1) /\ Append(s, e)[Len(s) + 1] = e
           /\ \A i \in DOMAIN s : i \in DOMAIN Append(s, e) /\ Append(s, e)[i] = s[i]
           /\ \A i \in DOMAIN Append(s, e) : i = Len(s) + 1 \/ i \in DOMAIN s
OBVIOUS

LEMMA EmptySequence == DOMAIN <<>> = {} /\ \A S : <<>> \in Seq(S)
OBVIOUS

LEMMA SingleSequence ==
    ASSUME NEW e
    PROVE  Tail(<<e>>) = <<>> /\ Head(<<e>>) = e /\ <<e>> # <<>> /\ DOMAIN <<e>> = {1} /\ <<e>>[1] = e
OBVIOUS

\* A row that is written adds a change of its status, if there is one.
LEMMA FeedGrows ==
    ASSUME NEW s \in Seq(Change), NEW old \in DomainRow, NEW new \in DomainRow
    PROVE  LET t == s \o Changed(old, new)
           IN  /\ t \in Seq(Change)
               /\ old.status = new.status \/ ~old.present \/ ~new.present => t = s
               /\ old.status # new.status /\ old.present /\ new.present =>
                    t = Append(s, [old |-> old.status, new |-> new.status])
<1>1. s \o <<>> = s
  BY ConcatProperties
<1>2. old.present /\ new.present => [old |-> old.status, new |-> new.status] \in Change
  BY DEF Change, DomainRow
<1>3. \A c \in Change : s \o <<c>> = Append(s, c) /\ Append(s, c) \in Seq(Change)
  OBVIOUS
<1> QED
  BY <1>1, <1>2, <1>3 DEF Changed

NobodyWaits(requests) == \A u \in Users : requests[u].todo = <<>> \/ Head(requests[u].todo) # "wait"

LEMMA NobodyIsNotified ==
    ASSUME NEW requests \in Requests, NobodyWaits(requests), NEW rows
    PROVE  Notified(requests, rows) = requests
BY DEF Notified, NobodyWaits, Requests

\* What a write does when nobody waits for a status.
LEMMA AllWritten ==
    ASSUME TypeOK, changes = "on", NEW rest \in [Desktops -> Seq(Change)],
           NEW requests \in Requests, NobodyWaits(requests),
           NEW rows \in [Desktops -> DomainRow], WriteAll(rest, requests, rows)
    PROVE  /\ row' = rows /\ client' = requests
           /\ \A d \in Desktops : feed'[d] = rest[d] \o Changed(row[d], rows[d])
BY NobodyIsNotified DEF WriteAll

LEMMA RowWritten ==
    ASSUME TypeOK, changes = "on", NobodyWaits(client), NEW d \in Desktops, NEW r \in DomainRow, WriteRow(d, r)
    PROVE  /\ row' = [row EXCEPT ![d] = r] /\ client' = client
           /\ feed'[d] = feed[d] \o Changed(row[d], r)
           /\ \A e \in Desktops : e # d => row'[e] = row[e] /\ feed'[e] = feed[e]
<1>1. /\ [row EXCEPT ![d] = r] \in [Desktops -> DomainRow] /\ client \in Requests
      /\ feed \in [Desktops -> Seq(Change)] /\ row \in [Desktops -> DomainRow]
  BY DEF TypeOK, Requests, Tasks
<1>2. /\ row' = [row EXCEPT ![d] = r] /\ client' = client
      /\ \A e \in Desktops : feed'[e] = feed[e] \o Changed(row[e], [row EXCEPT ![d] = r][e])
  BY <1>1, AllWritten DEF WriteRow
<1>3. \A e \in Desktops : e # d => [row EXCEPT ![d] = r][e] = row[e] /\
        feed[e] \o Changed(row[e], row[e]) = feed[e]
  BY <1>1, FeedGrows
<1> QED
  BY <1>1, <1>2, <1>3

LEMMA ChangeHandled ==
    ASSUME TypeOK, changes = "on", NobodyWaits(client), NEW d \in Desktops, feed[d] # <<>>,
           NEW r \in DomainRow, Handled(d, r)
    PROVE  /\ row' = [row EXCEPT ![d] = r] /\ client' = client
           /\ feed'[d] = Tail(feed[d]) \o Changed(row[d], r)
           /\ \A e \in Desktops : e # d => row'[e] = row[e] /\ feed'[e] = feed[e]
<1>1. /\ [row EXCEPT ![d] = r] \in [Desktops -> DomainRow] /\ client \in Requests
      /\ feed \in [Desktops -> Seq(Change)] /\ row \in [Desktops -> DomainRow]
  BY DEF TypeOK, Requests, Tasks
<1>2. Tail(feed[d]) \in Seq(Change)
  BY <1>1, TailIndices
<1>3. Rest(d) \in [Desktops -> Seq(Change)] /\ Rest(d)[d] = Tail(feed[d]) /\
        \A e \in Desktops : e # d => Rest(d)[e] = feed[e]
  BY <1>1, <1>2 DEF Rest
<1>4. /\ row' = [row EXCEPT ![d] = r] /\ client' = client
      /\ \A e \in Desktops : feed'[e] = Rest(d)[e] \o Changed(row[e], [row EXCEPT ![d] = r][e])
  BY <1>1, <1>3, AllWritten DEF Handled
<1>5. \A e \in Desktops : e # d => [row EXCEPT ![d] = r][e] = row[e] /\
        feed[e] \o Changed(row[e], row[e]) = feed[e]
  BY <1>1, FeedGrows
<1> QED
  BY <1>1, <1>3, <1>4, <1>5

----------------------------------------------------------------------------
(* What happens by itself changes nobody's stage.                          *)

WorksOn(d, h) == doing[h] # <<>> /\ Head(doing[h]).d = d /\ OnlyAt(d, h)

\* All that guests, connections, and the news of them do to a desktop.
Drifts(d) ==
    /\ row'[d].present = row[d].present /\ (d \in erased' <=> d \in erased)
    /\ \A h \in Hyps : d \in guests'[h] => d \in guests[h]
    /\ Gone(d) => Gone(d)'
    /\ Truth(d) => Truth(d)'
    /\ row[d].present /\ Truth(d) /\ OwnNews(d) => OwnNews(d)'
    /\ \/ row'[d] = row[d]
       \/ row'[d].status = "Started" /\ ~Gone(d)
       \/ row'[d].status = "Stopped" /\ ~(Gone(d) /\ row[d].hyp = NoHyp)
    /\ Ignored(d) => Ignored(d)'
    /\ \A c \in Change : ~Passive(c) /\ OneActive(d, c) => OneActive(d, c)'
    /\ \A h \in Hyps : WorksOn(d, h) =>
        /\ d \in guests[h] \/ h \in broken => d \in guests'[h] \/ h \in broken'
        /\ h \in broken => h \in broken'
        /\ \A k \in Hyps : EndWaits(d, k)' => EndWaits(d, k)

LEMMA IdleDrifts ==
    ASSUME NEW d \in Desktops, Drifts(d), Idle(d)
    PROVE  Idle(d)'
BY DEF Drifts, Idle, RunsNowhere

LEMMA DeletedDrifts ==
    ASSUME NEW d \in Desktops, Drifts(d), Gone(d), row[d].hyp = NoHyp
    PROVE  row'[d] = row[d] /\ Gone(d)'
BY DEF Drifts

LEMMA AskedDrifts ==
    ASSUME NEW d \in Desktops, Drifts(d), row[d].present, UNCHANGED <<client, queue, doing>>,
           NEW u \in Users, NEW w \in Status, Asked(d, u, w)
    PROVE  Asked(d, u, w)'
<1>1. NoQueue' /\ NoOutcome' /\ Ignored(d)' /\ Truth(d)' /\ d \notin erased'
  BY DEF Asked, Drifts, NoQueue, NoOutcome
<1>2. row'[d].status \in Down \cup Up
  BY DEF Asked, Drifts, Down, Up
<1>3. w = "Starting" => row'[d].status \in Down /\ Gone(d)'
  <2> SUFFICES ASSUME w = "Starting"
               PROVE  row'[d].status \in Down /\ Gone(d)'
    OBVIOUS
  <2>1. row[d].status \in Down /\ Gone(d)
    BY DEF Asked
  <2> QED
    BY <2>1 DEF Drifts, Down
<1>4. w = "Deleting" => OwnNews(d)'
  BY DEF Asked, Drifts
<1>5. /\ client'[u] = [d |-> d, todo |-> <<w>>] /\ \A v \in Users : v # u => client'[v].todo = <<>>
      /\ w \in {"Stopping", "Shutting-down"} \/ w = "Starting" \/ w = "Deleting"
  BY DEF Asked
<1> QED
  BY <1>1, <1>2, <1>3, <1>4, <1>5 DEF Asked

LEMMA ToldDrifts ==
    ASSUME NEW d \in Desktops, Drifts(d), UNCHANGED <<client, queue, doing>>,
           ActionsEnabled => ActionsEnabled', NEW c \in Change, Told(d, c)
    PROVE  Told(d, c)'
<1>1. NoTodo' /\ NoQueue' /\ NoOutcome' /\ Truth(d)' /\ OneActive(d, c)'
  BY DEF Told, Drifts, NoTodo, NoQueue, NoOutcome
<1>2. Wanted(d, c)
  BY DEF Told
<1>3. Wanted(d, c)'
  <2>1. CASE c.new = "DiskDeleted"
    BY <1>2, <2>1, DeletedDrifts DEF Wanted
  <2>2. CASE c.new # "DiskDeleted"
    <3>1. Gone(d) => Gone(d)'
      BY DEF Drifts
    <3>2. d \notin erased => d \notin erased'
      BY DEF Drifts
    <3> QED
      BY <1>2, <2>2, <3>1, <3>2 DEF Wanted
  <2> QED
    BY <2>1, <2>2
<1> QED
  BY <1>1, <1>3 DEF Told

LEMMA QueuedDrifts ==
    ASSUME NEW d \in Desktops, Drifts(d), UNCHANGED <<client, queue, doing>>,
           NEW h \in Hyps, NEW type \in ActionTypes, Queued(d, h, type)
    PROVE  Queued(d, h, type)'
<1>1. NoTodo' /\ NoOutcome' /\ Ignored(d)' /\ Truth(d)' /\ d \notin erased'
  BY DEF Queued, Drifts, NoTodo, NoOutcome
<1>2. OnlyAt(d, h) => OnlyAt(d, h)'
  BY DEF OnlyAt, Drifts
<1>3. Gone(d) => Gone(d)'
  BY DEF Drifts
<1>4. BeingDeleted(d) => BeingDeleted(d)'
  BY DeletedDrifts DEF BeingDeleted
<1> QED
  BY <1>1, <1>2, <1>3, <1>4 DEF Queued

LEMMA WorkingDrifts ==
    ASSUME NEW d \in Desktops, Drifts(d), UNCHANGED <<client, queue, doing>>,
           NEW h \in Hyps, NEW s \in Status, Working(d, h, s)
    PROVE  Working(d, h, s)'
<1>1. /\ NoTodo' /\ NoQueue' /\ Ignored(d)' /\ (d \notin erased => d \notin erased')
      /\ Truth(d) => Truth(d)'
  BY DEF Working, Drifts, NoTodo, NoQueue
<1>2. doing[h] # <<>> /\ Head(doing[h]).d = d
  <2>1. PICK o : o = [d |-> d, status |-> s, hyp |-> IF s \in {"Stopped", "DiskDeleted"} THEN NoHyp ELSE h]
    OBVIOUS
  <2>2. doing[h] = <<o>> /\ o.d = d
    BY <2>1 DEF Working
  <2> QED
    BY <2>2, SingleSequence
<1>3. OnlyAt(d, h) => /\ OnlyAt(d, h)' /\ WorksOn(d, h)
  BY <1>2 DEF OnlyAt, Drifts, WorksOn
<1>4. Begun(d, h) => Begun(d, h)'
  BY <1>1, <1>3 DEF Begun, Drifts
<1>5. BeingDeleted(d) => BeingDeleted(d)'
  BY DeletedDrifts DEF BeingDeleted
<1>6. ASSUME \A k \in Hyps : d \in guests[k] => k = h /\ h \in broken
      PROVE  \A k \in Hyps : d \in guests'[k] => k = h /\ h \in broken'
  BY <1>3, <1>6 DEF Drifts, OnlyAt
<1>7. RunsNowhere(d) => RunsNowhere(d)'
  BY DEF RunsNowhere, Drifts
<1>8. doing' = doing
  OBVIOUS
<1> QED
  BY <1>1, <1>3, <1>4, <1>5, <1>6, <1>7, <1>8 DEF Working, Due

LEMMA BusyDrifts ==
    ASSUME \A d \in Desktops : Drifts(d), UNCHANGED <<client, queue, doing>>,
           ActionsEnabled => ActionsEnabled', changes = "on" => changes' = "on", OneIsBusy
    PROVE  OneIsBusy'
<1>1. \A d \in Desktops : Idle(d) => Idle(d)'
  BY IdleDrifts
<1>2. CASE AtRest
  BY <1>1, <1>2 DEF AtRest, NoTodo, NoQueue, NoOutcome, OneIsBusy
<1>3. ASSUME NEW d \in Desktops, Busy(d)
      PROVE  Busy(d)'
  <2>1. Drifts(d) /\ Stage(d) /\ row[d].present
    BY <1>3 DEF Busy
  <2>2. Stage(d)'
    BY <2>1, AskedDrifts, ToldDrifts, QueuedDrifts, WorkingDrifts DEF Stage
  <2>3. changes' = "on" /\ row'[d].present
    BY <1>3, <2>1 DEF Busy, Drifts
  <2>4. \A e \in Desktops : e # d => Idle(e)'
    BY <1>1, <1>3 DEF Busy
  <2> QED
    BY <2>2, <2>3, <2>4 DEF Busy
<1> QED
  BY <1>2, <1>3 DEF OneIsBusy

----------------------------------------------------------------------------
(* What happens by itself.                                                 *)

LEMMA NobodyIsWaiting == OneIsBusy => NobodyWaits(client)
<1> SUFFICES ASSUME OneIsBusy PROVE NobodyWaits(client)
  OBVIOUS
<1>1. NoTodo => NobodyWaits(client)
  BY DEF NoTodo, NobodyWaits
<1>2. ASSUME NEW d \in Desktops, NEW u \in Users, NEW w \in Status, Asked(d, u, w)
      PROVE  NobodyWaits(client)
  <2>1. w # "wait" /\ client[u].todo = <<w>> /\ \A v \in Users : v # u => client[v].todo = <<>>
    BY <1>2 DEF Asked
  <2>2. Head(client[u].todo) # "wait"
    BY <2>1, SingleSequence
  <2> QED
    BY <2>1, <2>2 DEF NobodyWaits
<1> QED
  BY <1>1, <1>2 DEF OneIsBusy, AtRest, Busy, Stage, Told, Queued, Working

LEMMA FeedDrifts ==
    ASSUME TypeOK, NEW d \in Desktops, NEW r \in DomainRow, r = row[d] \/ r.status \in {"Started", "Stopped"},
           feed'[d] = feed[d] \o Changed(row[d], r)
    PROVE  /\ Ignored(d) => Ignored(d)'
           /\ \A c \in Change : OneActive(d, c) => OneActive(d, c)'
<1>1. feed[d] \in Seq(Change) /\ row[d] \in DomainRow
  BY DEF TypeOK
<1>2. CASE feed'[d] = feed[d]
  BY <1>2 DEF Ignored, OneActive
<1>3. CASE feed'[d] # feed[d]
  <2> DEFINE c == [old |-> row[d].status, new |-> r.status]
  <2>0. row[d].status # r.status /\ row[d].present /\ r.present
    BY <1>1, <1>3, FeedGrows
  <2>1. feed'[d] = Append(feed[d], c) /\ c \in Change /\ r # row[d]
    <3>1. c \in Change
      BY <1>1 DEF Change, DomainRow
    <3>2. feed'[d] = Append(feed[d], c)
      BY <1>1, <2>0, FeedGrows
    <3> QED
      BY <2>0, <3>1, <3>2
  <2>2. Passive(c)
    BY <2>1 DEF Passive
  <2> HIDE DEF c
  <2>3. /\ \A i \in DOMAIN feed[d] : i \in DOMAIN feed'[d] /\ feed'[d][i] = feed[d][i]
        /\ \A i \in DOMAIN feed'[d] : i \in DOMAIN feed[d] \/ feed'[d][i] = c
    BY <1>1, <2>1, AppendIndices
  <2> QED
    BY <2>2, <2>3 DEF Ignored, OneActive
<1> QED
  BY <1>2, <1>3

\* What is about a desktop stays as it is.
SameNews(d) ==
    \A h \in Hyps : /\ d \in guests'[h] <=> d \in guests[h]
                    /\ EndWaits(d, h)' <=> EndWaits(d, h)
                    /\ HasNews(d, h)' <=> HasNews(d, h)

LEMMA SameDrifts ==
    ASSUME NEW d \in Desktops, SameNews(d), row'[d] = row[d], feed'[d] = feed[d],
           d \in erased' <=> d \in erased, broken \subseteq broken'
    PROVE  Drifts(d)
<1>1. Gone(d) <=> Gone(d)'
  BY DEF SameNews, Gone, RunsNowhere, NoNews
<1>2. Truth(d) => Truth(d)'
  BY DEF SameNews, Truth
<1>3. OwnNews(d) => OwnNews(d)'
  BY <1>1 DEF SameNews, OwnNews
<1>4. (Ignored(d) => Ignored(d)') /\ \A c \in Change : OneActive(d, c) => OneActive(d, c)'
  BY DEF Ignored, OneActive
<1> QED
  BY <1>1, <1>2, <1>3, <1>4 DEF SameNews, Drifts

LEMMA ListensDrifts ==
    ASSUME TypeOK, PlaceBase, NEW h \in Hyps, EventsRegister(h)
    PROVE  PlaceBase' /\ \A d \in Desktops : Drifts(d)
<1>1. WorkersListen'
  <2>1. /\ UNCHANGED <<changes, polled, worker, guests, queue, doing, broken, events>>
        /\ \A k \in Hyps : k # h => listens'[k] = listens[k]
        /\ listens'[h] = IF h \in broken THEN "no" ELSE "yes"
    BY DEF EventsRegister, TypeOK, libvirtVars
  <2>2. listens[h] = "asked" /\ WorkersListen
    BY DEF EventsRegister, PlaceBase
  <2> QED
    BY <2>1, <2>2 DEF WorkersListen
<1>2. RowsNameWorkers' /\ RunOnce' /\ NewsAreTrue'
  BY DEF EventsRegister, PlaceBase, RowsNameWorkers, RunOnce, OnlyAt, NewsAreTrue, EndsAreLast,
       StartsAreTrue, RunsNowhere, libvirtVars, tableVars
<1>3. \A d \in Desktops : SameNews(d)
  BY DEF EventsRegister, SameNews, EndWaits, HasNews, libvirtVars
<1> QED
  BY <1>1, <1>2, <1>3, SameDrifts DEF EventsRegister, PlaceBase, libvirtVars, tableVars

LEMMA StartDrifts ==
    ASSUME TypeOK, PlaceBase, ChangesThreadStarts
    PROVE  PlaceBase' /\ \A d \in Desktops : Drifts(d)
<1>1. WorkersListen'
  BY DEF ChangesThreadStarts, PlaceBase, WorkersListen, TypeOK, workerVars, libvirtVars
<1>2. RowsNameWorkers' /\ RunOnce' /\ NewsAreTrue'
  BY DEF ChangesThreadStarts, PlaceBase, RowsNameWorkers, RunOnce, OnlyAt, NewsAreTrue, EndsAreLast,
       StartsAreTrue, RunsNowhere,
         libvirtVars, tableVars, workerVars
<1>3. \A d \in Desktops : SameNews(d)
  BY DEF ChangesThreadStarts, SameNews, EndWaits, HasNews, libvirtVars
<1> QED
  BY <1>1, <1>2, <1>3, SameDrifts DEF ChangesThreadStarts, PlaceBase, libvirtVars, tableVars, workerVars

LEMMA EndIsLast ==
    ASSUME NewsAreTrue, NEW k \in Hyps, NEW i \in DOMAIN events[k], NEW e \in Desktops, events[k][i] = Ending(e)
    PROVE  RunsNowhere(e) /\ \A l \in Hyps : \A j \in DOMAIN events[l] : events[l][j] = Ending(e) => l = k /\ j = i
<1>1. RunsNowhere(e)
  BY DEF NewsAreTrue, EndsAreLast, StartsAreTrue
<1>2. ASSUME NEW l \in Hyps, NEW j \in DOMAIN events[l], events[l][j] = Ending(e)
      PROVE  l = k /\ j = i
  BY <1>2 DEF NewsAreTrue, EndsAreLast, StartsAreTrue
<1> QED
  BY <1>1, <1>2

LEMMA StartIsTrue ==
    ASSUME NewsAreTrue, NEW k \in Hyps, NEW i \in DOMAIN events[k], NEW e \in Desktops,
           events[k][i] = [d |-> e, event |-> "Started"]
    PROVE  e \in guests[k] \/ \E j \in DOMAIN events[k] : j > i /\ events[k][j] = Ending(e)
BY DEF NewsAreTrue, EndsAreLast, StartsAreTrue

LEMMA BreaksDrifts ==
    ASSUME TypeOK, PlaceBase, NEW h \in Hyps, Breaks(h),
           guests' = guests \/ guests' = [guests EXCEPT ![h] = {}]
    PROVE  PlaceBase' /\ \A d \in Desktops : Drifts(d)
<1>1. /\ guests \in [Hyps -> SUBSET Desktops] /\ \A k \in Hyps : k # h => guests'[k] = guests[k] /\
           events'[k] = events[k]
      /\ events'[h] = <<>> /\ guests'[h] \in {guests[h], {}} /\ h \in broken' /\ broken \subseteq broken'
      /\ UNCHANGED <<row, feed, client, changes, worker, queue, doing, erased, polled>>
      /\ broken' = broken \cup {h}
      /\ \A k \in Hyps : listens'[k] = (IF k = h /\ listens[k] = "yes" THEN "no" ELSE listens[k])
  BY DEF Breaks, TypeOK, tableVars
<1>2. DOMAIN events'[h] = {}
  BY <1>1, EmptySequence
<1>3. WorkersListen'
  BY <1>1 DEF PlaceBase, WorkersListen
<1>4. RowsNameWorkers'
  BY <1>1 DEF PlaceBase, RowsNameWorkers
<1>5. RunOnce'
  BY <1>1 DEF PlaceBase, RunOnce, OnlyAt
<1>6. NewsAreTrue'
  <2>1. \A k \in Hyps : \A j \in DOMAIN events'[k] : k # h /\ j \in DOMAIN events[k] /\
          events'[k] = events[k] /\ guests'[k] = guests[k]
    BY <1>1, <1>2
  <2>2. \A d \in Desktops : RunsNowhere(d) => RunsNowhere(d)'
    BY <1>1 DEF RunsNowhere
  <2>3. EndsAreLast'
    <3> SUFFICES ASSUME NEW e \in Desktops, NEW k \in Hyps, NEW i \in DOMAIN events'[k], events'[k][i] = Ending(e)
                 PROVE  RunsNowhere(e)' /\
                        \A l \in Hyps : \A j \in DOMAIN events'[l] : events'[l][j] = Ending(e) => l = k /\ j = i
      BY DEF EndsAreLast, Ending
    <3>1. i \in DOMAIN events[k] /\ events[k][i] = Ending(e) /\ NewsAreTrue
      BY <2>1 DEF PlaceBase
    <3>2. RunsNowhere(e) /\ \A l \in Hyps : \A j \in DOMAIN events[l] : events[l][j] = Ending(e) => l = k /\ j = i
      BY <3>1, EndIsLast
    <3> QED
      BY <2>1, <2>2, <3>2
  <2>4. StartsAreTrue'
    <3> SUFFICES ASSUME NEW e \in Desktops, NEW k \in Hyps, NEW i \in DOMAIN events'[k],
                        events'[k][i] = [d |-> e, event |-> "Started"]
                 PROVE  e \in guests'[k] \/ \E j \in DOMAIN events'[k] : j > i /\ events'[k][j] = Ending(e)
      BY DEF StartsAreTrue, Ending
    <3>1. i \in DOMAIN events[k] /\ events[k][i] = [d |-> e, event |-> "Started"] /\ NewsAreTrue
      BY <2>1 DEF PlaceBase
    <3>2. e \in guests[k] \/ \E j \in DOMAIN events[k] : j > i /\ events[k][j] = Ending(e)
      BY <3>1, StartIsTrue
    <3> QED
      BY <2>1, <3>2
  <2> QED
    BY <2>3, <2>4 DEF NewsAreTrue
<1>7. ASSUME NEW d \in Desktops
      PROVE  Drifts(d)
  <2>1. \A k \in Hyps : /\ HasNews(d, k)' => HasNews(d, k)
                        /\ EndWaits(d, k)' => EndWaits(d, k)
                        /\ k # h => (EndWaits(d, k)' <=> EndWaits(d, k))
    BY <1>1, <1>2 DEF HasNews, EndWaits
  <2>2. Gone(d) => Gone(d)'
    BY <1>1, <2>1 DEF Gone, RunsNowhere, NoNews
  <2>3. Truth(d) => Truth(d)'
    BY <1>1, <2>1 DEF Truth
  <2>4. OwnNews(d) => OwnNews(d)'
    BY <1>1, <2>1, <2>2 DEF OwnNews
  <2>5. (Ignored(d) => Ignored(d)') /\ \A c \in Change : OneActive(d, c) => OneActive(d, c)'
    BY <1>1 DEF Ignored, OneActive
  <2> QED
    BY <1>1, <2>1, <2>2, <2>3, <2>4, <2>5 DEF Drifts
<1> QED
  BY <1>3, <1>4, <1>5, <1>6, <1>7 DEF PlaceBase

LEMMA EndsNews ==
    ASSUME TypeOK, PlaceBase, NEW h \in Hyps, NEW d \in Desktops, d \in guests[h], Ends(h, d)
    PROVE  /\ RunOnce' /\ NewsAreTrue' /\ RunsNowhere(d)'
           /\ \A k \in Hyps : guests'[k] \subseteq guests[k]
           /\ \A k \in Hyps : listens[k] # "yes" => events'[k] = <<>>
           /\ listens[h] = "yes" => EndWaits(d, h)'
           /\ \A k \in Hyps : HasNews(d, k)' => HasNews(d, k) \/ k = h
           /\ \A e \in Desktops : e # d => SameNews(e)
<1>1. /\ guests \in [Hyps -> SUBSET Desktops] /\ events \in [Hyps -> Seq(Event)] /\ Ending(d) \in Event
      /\ Ending(d).d = d
  BY DEF TypeOK, Ending, Event
<1>2. /\ guests'[h] = guests[h] \ {d} /\ \A k \in Hyps : k # h => guests'[k] = guests[k]
      /\ \A k \in Hyps : k # h => events'[k] = events[k]
      /\ events'[h] = IF listens[h] = "yes" THEN Append(events[h], Ending(d)) ELSE events[h]
  BY <1>1 DEF Ends, Tell, Ending
<1>3. \A k \in Hyps : d \in guests[k] => k = h
  BY DEF PlaceBase, RunOnce, OnlyAt
<1>4. RunsNowhere(d)' /\ \A k \in Hyps : guests'[k] \subseteq guests[k]
  BY <1>2, <1>3 DEF RunsNowhere
<1>5. RunOnce'
  BY <1>4 DEF PlaceBase, RunOnce, OnlyAt
<1>6. \A k \in Hyps : events[k] \in Seq(Event)
  BY <1>1
<1> DEFINE n == Len(events[h]) + 1
<1>7. /\ \A k \in Hyps : \A i \in DOMAIN events[k] : i \in DOMAIN events'[k] /\ events'[k][i] = events[k][i]
      /\ \A k \in Hyps : \A i \in DOMAIN events'[k] :
            i \in DOMAIN events[k] \/ (k = h /\ i = n /\ events'[k][i] = Ending(d) /\ listens[h] = "yes")
      /\ listens[h] = "yes" => n \in DOMAIN events'[h] /\ events'[h][n] = Ending(d)
                               /\ \A i \in DOMAIN events[h] : n > i
  <2>1. /\ Append(events[h], Ending(d)) \in Seq(Event) /\ Len(events[h]) \in Nat /\
             DOMAIN events[h] = 1 .. Len(events[h])
        /\ n \in DOMAIN Append(events[h], Ending(d)) /\ Append(events[h], Ending(d))[n] = Ending(d)
        /\ \A i \in DOMAIN events[h] : i \in DOMAIN Append(events[h], Ending(d)) /\
             Append(events[h], Ending(d))[i] = events[h][i]
        /\ \A i \in DOMAIN Append(events[h], Ending(d)) : i = n \/ i \in DOMAIN events[h]
    BY <1>1, <1>6, AppendIndices
  <2>2. \A i \in DOMAIN events[h] : n > i
    BY <2>1
  <2>3. CASE listens[h] = "yes"
    <3>1. events'[h] = Append(events[h], Ending(d))
      BY <1>2, <2>3
    <3> HIDE DEF n
    <3> QED
      BY <1>2, <2>1, <2>2, <2>3, <3>1
  <2>4. CASE listens[h] # "yes"
    BY <1>2, <2>4
  <2> QED
    BY <2>3, <2>4
<1> HIDE DEF n
<1>8. \A k \in Hyps : listens[k] # "yes" => events'[k] = <<>> /\ events[k] = <<>>
  BY <1>2 DEF PlaceBase, WorkersListen
<1>9. \A k \in Hyps : ~EndWaits(d, k)
  BY DEF PlaceBase, NewsAreTrue, EndsAreLast, StartsAreTrue, EndWaits, RunsNowhere
<1>10. \A e \in Desktops : e # d => Ending(e) # Ending(d) /\ Ending(d).d # e
  BY DEF Ending
<1>11. ASSUME NEW e \in Desktops, e # d
       PROVE  SameNews(e)
  <2>1. \A k \in Hyps : e \in guests'[k] <=> e \in guests[k]
    BY <1>2, <1>11
  <2>2. \A k \in Hyps : EndWaits(e, k)' <=> EndWaits(e, k)
    <3>1. Ending(e)' = Ending(e) /\ Ending(e) # Ending(d)
      BY <1>10, <1>11 DEF Ending
    <3> QED
      BY <1>7, <3>1 DEF EndWaits
  <2>3. \A k \in Hyps : HasNews(e, k)' <=> HasNews(e, k)
    <3>1. Ending(d).d # e
      BY <1>10, <1>11
    <3> QED
      BY <1>7, <3>1 DEF HasNews
  <2> QED
    BY <2>1, <2>2, <2>3 DEF SameNews
<1>12. EndsAreLast'
  <2> SUFFICES ASSUME NEW e \in Desktops, NEW k \in Hyps, NEW i \in DOMAIN events'[k], events'[k][i] = Ending(e)
               PROVE  RunsNowhere(e)' /\
                      \A l \in Hyps : \A j \in DOMAIN events'[l] : events'[l][j] = Ending(e) => l = k /\ j = i
    BY DEF EndsAreLast, Ending
  <2>1. CASE e = d
    <3>1. k = h /\ i = n
      BY <1>7, <1>9, <2>1 DEF EndWaits
    <3>2. \A l \in Hyps : \A j \in DOMAIN events'[l] : events'[l][j] = Ending(e) => l = h /\ j = n
      BY <1>7, <1>9, <2>1 DEF EndWaits
    <3> QED
      BY <1>4, <2>1, <3>1, <3>2
  <2>2. CASE e # d
    <3>1. Ending(e) # Ending(d)
      BY <1>10, <2>2
    <3>2. \A l \in Hyps : \A j \in DOMAIN events'[l] : events'[l][j] = Ending(e) =>
            j \in DOMAIN events[l] /\ events[l][j] = Ending(e)
      BY <1>7, <3>1
    <3>3. i \in DOMAIN events[k] /\ events[k][i] = Ending(e) /\ NewsAreTrue
      BY <3>2 DEF PlaceBase
    <3>4. RunsNowhere(e) /\ \A l \in Hyps : \A j \in DOMAIN events[l] : events[l][j] = Ending(e) => l = k /\ j = i
      BY <3>3, EndIsLast
    <3> QED
      BY <1>4, <3>2, <3>4 DEF RunsNowhere
  <2> QED
    BY <2>1, <2>2
<1>15. StartsAreTrue'
  <2> SUFFICES ASSUME NEW e \in Desktops, NEW k \in Hyps, NEW i \in DOMAIN events'[k],
                      events'[k][i] = [d |-> e, event |-> "Started"]
               PROVE  e \in guests'[k] \/ \E j \in DOMAIN events'[k] : j > i /\ events'[k][j] = Ending(e)
    BY DEF StartsAreTrue, Ending
  <2>1. Ending(d) # [d |-> e, event |-> "Started"]
    BY DEF Ending
  <2>2. i \in DOMAIN events[k] /\ events[k][i] = [d |-> e, event |-> "Started"] /\ NewsAreTrue
    BY <1>7, <2>1 DEF PlaceBase
  <2>3. e \in guests[k] \/ \E j \in DOMAIN events[k] : j > i /\ events[k][j] = Ending(e)
    BY <2>2, StartIsTrue
  <2>4. CASE e = d
    <3>1. d \in guests[k] /\ events[k] # <<>>
      BY <1>9, <2>2, <2>3, <2>4, EmptySequence DEF EndWaits
    <3>2. k = h /\ listens[h] = "yes"
      BY <1>3, <1>8, <3>1
    <3> QED
      BY <1>7, <2>2, <2>4, <3>2
  <2>5. CASE e # d
    BY <1>2, <1>7, <2>3, <2>5
  <2> QED
    BY <2>4, <2>5
<1>13. listens[h] = "yes" => EndWaits(d, h)'
  <2>1. Ending(d)' = Ending(d)
    BY DEF Ending
  <2> QED
    BY <1>7, <2>1 DEF EndWaits
<1>14. \A k \in Hyps : HasNews(d, k)' => HasNews(d, k) \/ k = h
  BY <1>7 DEF HasNews
<1> QED
  BY <1>4, <1>5, <1>8, <1>11, <1>12, <1>13, <1>14, <1>15 DEF NewsAreTrue

LEMMA PowerOffDrifts ==
    ASSUME TypeOK, PlaceBase, "early" \notin Faults, "unheard" \notin Faults,
           NEW h \in Hyps, NEW d \in Desktops, GuestPowersOff(h, d)
    PROVE  PlaceBase' /\ \A e \in Desktops : Drifts(e)
<1>1. /\ d \in guests[h] /\ Ends(h, d)
      /\ UNCHANGED <<row, feed, client, changes, worker, broken, listens, queue, doing, polled, erased>>
      /\ \A i \in DOMAIN doing[h] : doing[h][i].d # d
      /\ worker[h] = "online" /\ h \notin broken => listens[h] = "yes"
  BY DEF GuestPowersOff, tableVars, workerVars
<1>2. /\ RunOnce' /\ NewsAreTrue' /\ RunsNowhere(d)'
      /\ \A k \in Hyps : guests'[k] \subseteq guests[k]
      /\ \A k \in Hyps : listens[k] # "yes" => events'[k] = <<>>
      /\ listens[h] = "yes" => EndWaits(d, h)'
      /\ \A k \in Hyps : HasNews(d, k)' => HasNews(d, k) \/ k = h
      /\ \A e \in Desktops : e # d => SameNews(e)
  BY <1>1, EndsNews
<1>3. WorkersListen'
  BY <1>1, <1>2 DEF PlaceBase, WorkersListen
<1>4. RowsNameWorkers'
  BY <1>1 DEF PlaceBase, RowsNameWorkers
<1>5. \A e \in Desktops : e # d => Drifts(e)
  BY <1>1, <1>2, SameDrifts
<1>6. worker[h] = "online" /\ (h \in broken \/ listens[h] = "yes")
  BY <1>1 DEF PlaceBase, WorkersListen
<1>7. Drifts(d)
  <2>1. ~Gone(d)
    BY <1>1 DEF Gone, RunsNowhere
  <2>2. row[d].present /\ Truth(d) => row[d].hyp = h
    BY <1>1 DEF Truth
  <2>3. Truth(d) => Truth(d)'
    <3>1. ASSUME Truth(d), row[d].present
          PROVE  Truth(d)'
      <4>1. row[d].hyp = h /\ row'[d] = row[d] /\ (h \in broken' \/ EndWaits(d, h)')
        BY <1>1, <1>2, <1>6, <2>2, <3>1
      <4>2. \A k \in Hyps : d \notin guests'[k]
        BY <1>2 DEF RunsNowhere
      <4>3. Truth(d)' <=> (row'[d].present =>
                /\ \A k \in Hyps : d \in guests'[k] => row'[d].hyp = k /\
                     (row'[d].status = "Failed" => k \in broken')
                /\ row'[d].status = "Started" =>
                    /\ row'[d].hyp \in Hyps
                    /\ d \in guests'[row'[d].hyp] \/ row'[d].hyp \in broken' \/ EndWaits(d, row[d].hyp)')
        BY <1>1 DEF Truth, EndWaits
      <4> QED
        BY <4>1, <4>2, <4>3
    <3> QED
      BY <1>1, <3>1 DEF Truth
  <2>4. row[d].present /\ Truth(d) /\ OwnNews(d) => OwnNews(d)'
    BY <1>1, <1>2, <2>1, <2>2 DEF OwnNews
  <2>5. (Ignored(d) => Ignored(d)') /\ \A c \in Change : OneActive(d, c) => OneActive(d, c)'
    BY <1>1 DEF Ignored, OneActive
  <2>6. \A k \in Hyps : ~WorksOn(d, k)
    <3> SUFFICES ASSUME NEW k \in Hyps, WorksOn(d, k) PROVE FALSE
      OBVIOUS
    <3>1. k = h /\ doing[k] # <<>> /\ Head(doing[k]).d = d
      BY <1>1 DEF WorksOn, OnlyAt
    <3>2. doing[h] \in Seq(Outcome)
      BY DEF TypeOK
    <3> QED
      BY <1>1, <3>1, <3>2, TailIndices
  <2> QED
    BY <1>1, <1>2, <2>1, <2>3, <2>4, <2>5, <2>6 DEF Drifts
<1> QED
  BY <1>2, <1>3, <1>4, <1>5, <1>7 DEF PlaceBase

LEMMA PassiveDrifts ==
    ASSUME TypeOK, PlaceBase, OneIsBusy, NEW d \in Desktops, IgnoresChange(d), Passive(Head(feed[d]))
    PROVE  PlaceBase' /\ \A e \in Desktops : Drifts(e)
<1>1. /\ UNCHANGED <<changes, worker, broken, listens, queue, doing, polled, guests, events, erased>>
      /\ changes = "on" /\ feed[d] # <<>> /\ Handled(d, row[d])
  BY DEF IgnoresChange, TakeChange, libvirtVars
<1>2. row \in [Desktops -> DomainRow] /\ row[d] \in DomainRow /\ feed[d] \in Seq(Change)
  BY DEF TypeOK
<1>3. /\ row' = [row EXCEPT ![d] = row[d]] /\ client' = client
      /\ feed'[d] = Tail(feed[d]) \o Changed(row[d], row[d])
      /\ \A e \in Desktops : e # d => row'[e] = row[e] /\ feed'[e] = feed[e]
  BY <1>1, <1>2, NobodyIsWaiting, ChangeHandled
<1>4. row' = row /\ feed'[d] = Tail(feed[d])
  <2>1. Tail(feed[d]) \in Seq(Change)
    BY <1>1, <1>2, TailIndices
  <2>2. Tail(feed[d]) \o Changed(row[d], row[d]) = Tail(feed[d])
    BY <1>2, <2>1, FeedGrows
  <2> QED
    BY <1>2, <1>3, <2>2
<1>5. WorkersListen'
  BY <1>1 DEF PlaceBase, WorkersListen
<1>6. RowsNameWorkers'
  BY <1>1, <1>4 DEF PlaceBase, RowsNameWorkers
<1>7. RunOnce' /\ NewsAreTrue'
  BY <1>1 DEF PlaceBase, RunOnce, OnlyAt, NewsAreTrue, EndsAreLast, StartsAreTrue, RunsNowhere, Ending
<1>8. ASSUME NEW e \in Desktops
      PROVE  Drifts(e)
  <2>1. SameNews(e)
    BY <1>1 DEF SameNews, EndWaits, HasNews
  <2>2. CASE e # d
    BY <1>1, <1>3, <1>4, <2>1, <2>2, SameDrifts
  <2>3. CASE e = d
    <3>1. Gone(d) <=> Gone(d)'
      BY <2>1, <2>3 DEF SameNews, Gone, RunsNowhere, NoNews
    <3>2. Truth(d) => Truth(d)'
      BY <1>1, <1>4, <2>1, <2>3 DEF SameNews, Truth
    <3>3. OwnNews(d) => OwnNews(d)'
      BY <1>4, <2>1, <2>3, <3>1 DEF SameNews, OwnNews
    <3>4. /\ \A i \in DOMAIN feed'[d] : i + 1 \in DOMAIN feed[d] /\ feed'[d][i] = feed[d][i + 1] /\ i \in Nat
          /\ \A i \in DOMAIN feed[d] : (i # 1 => i - 1 \in DOMAIN feed'[d] /\ feed'[d][i - 1] = feed[d][i]) /\ i \in Nat
          /\ Head(feed[d]) = feed[d][1]
      BY <1>1, <1>2, <1>4, TailIndices
    <3>5. Ignored(d) => Ignored(d)'
      BY <3>4 DEF Ignored
    <3>6. ASSUME NEW c \in Change, ~Passive(c), OneActive(d, c)
          PROVE  OneActive(d, c)'
      <4>1. PICK i \in DOMAIN feed[d] : feed[d][i] = c /\ \A j \in DOMAIN feed[d] : j # i => Passive(feed[d][j])
        BY <3>6 DEF OneActive
      <4>2. i # 1
        BY <3>4, <3>6, <4>1
      <4>3. i - 1 \in DOMAIN feed'[d] /\ feed'[d][i - 1] = c
        BY <3>4, <4>1, <4>2
      <4>4. \A j \in DOMAIN feed'[d] : j # i - 1 => Passive(feed'[d][j])
        BY <3>4, <4>1
      <4> QED
        BY <4>3, <4>4 DEF OneActive
    <3> QED
      BY <1>1, <1>4, <2>1, <2>3, <3>1, <3>2, <3>3, <3>5, <3>6 DEF SameNews, Drifts
  <2> QED
    BY <2>2, <2>3
<1> QED
  BY <1>5, <1>6, <1>7, <1>8 DEF PlaceBase

\* Rows that stay, or become Started or Stopped.
LEMMA RowsRewritten ==
    ASSUME TypeOK, OneIsBusy, changes = "on", NEW rows \in [Desktops -> DomainRow],
           \A d \in Desktops : rows[d] = row[d] \/ rows[d].status \in {"Started", "Stopped"},
           WriteAll(feed, client, rows)
    PROVE  /\ row' = rows /\ client' = client
           /\ \A d \in Desktops : /\ Ignored(d) => Ignored(d)'
                                  /\ \A c \in Change : OneActive(d, c) => OneActive(d, c)'
<1>1. feed \in [Desktops -> Seq(Change)] /\ client \in Requests /\ NobodyWaits(client)
  BY NobodyIsWaiting DEF TypeOK, Requests, Tasks
<1>2. /\ row' = rows /\ client' = client
      /\ \A d \in Desktops : feed'[d] = feed[d] \o Changed(row[d], rows[d])
  BY <1>1, AllWritten
<1> QED
  BY <1>2, FeedDrifts

LEMMA CoherentRows ==
    ASSUME TypeOK, NEW h \in Hyps
    PROVE  /\ Coherent(h) \in [Desktops -> DomainRow]
           /\ \A d \in Desktops : Coherent(h)[d] = row[d] \/ Coherent(h)[d].status \in {"Started", "Stopped"}
           /\ \A d \in Desktops : Coherent(h)[d].present = row[d].present
<1>1. \A d \in Desktops : row[d] \in DomainRow
  BY DEF TypeOK
<1> QED
  BY <1>1 DEF Coherent, Put, DomainRow, Status, HypStarted

LEMMA ConnectsDrifts ==
    ASSUME TypeOK, PlaceBase, OneIsBusy, NEW h \in Hyps, WorkerConnects(h)
    PROVE  PlaceBase' /\ \A d \in Desktops : Drifts(d)
<1>1. /\ UNCHANGED <<changes, queue, doing, polled, guests, events, erased>>
      /\ changes = "on" /\ worker[h] = "none"
      /\ worker' = [worker EXCEPT ![h] = "online"]
      /\ broken' = broken \ {h} /\ listens' = [listens EXCEPT ![h] = "asked"]
      /\ WriteAll(feed, client, Coherent(h))
  BY DEF WorkerConnects, libvirtVars, PlaceBase, WorkersListen, TypeOK
<1>2. guests[h] = {} /\ doing[h] = <<>> /\ events[h] = <<>> /\ \A d \in Desktops : row[d].hyp # h
  <2>1. h # NoHyp
    BY ConstantsAssumption
  <2> QED
    BY <1>1, <2>1 DEF PlaceBase, WorkersListen, RowsNameWorkers
<1>3. Coherent(h) = row
  <2>1. \A d \in Desktops : Coherent(h)[d] = row[d]
    BY <1>2 DEF Coherent
  <2>2. Coherent(h) = [d \in Desktops |-> Coherent(h)[d]] /\ row = [d \in Desktops |-> row[d]]
    BY DEF Coherent, TypeOK
  <2> QED
    BY <2>1, <2>2
<1>4. /\ row' = row /\ client' = client
      /\ \A d \in Desktops : /\ Ignored(d) => Ignored(d)'
                             /\ \A c \in Change : OneActive(d, c) => OneActive(d, c)'
  <2>1. WriteAll(feed, client, row) /\ row \in [Desktops -> DomainRow]
    BY <1>1, <1>3 DEF TypeOK
  <2> QED
    BY <1>1, <2>1, RowsRewritten
<1>5. /\ worker'[h] = "online" /\ listens'[h] = "asked" /\ h \notin broken'
      /\ \A k \in Hyps : k # h => worker'[k] = worker[k] /\ listens'[k] = listens[k] /\
           (k \in broken' <=> k \in broken)
  BY <1>1 DEF TypeOK
<1>6. WorkersListen'
  BY <1>1, <1>2, <1>5 DEF PlaceBase, WorkersListen
<1>7. RowsNameWorkers'
  BY <1>1, <1>4, <1>5 DEF PlaceBase, RowsNameWorkers, TypeOK, DomainRow, HypStarted
<1>8. RunOnce'
  BY <1>1 DEF PlaceBase, RunOnce, OnlyAt
<1>9. NewsAreTrue'
  BY <1>1 DEF PlaceBase, NewsAreTrue, EndsAreLast, StartsAreTrue, Ending, RunsNowhere
<1>10. ASSUME NEW d \in Desktops
       PROVE  Drifts(d)
  <2>1. SameNews(d)
    BY <1>1 DEF SameNews, EndWaits, HasNews
  <2>2. Gone(d) <=> Gone(d)'
    BY <2>1 DEF SameNews, Gone, RunsNowhere, NoNews
  <2>3. OwnNews(d) => OwnNews(d)'
    BY <1>4, <2>1, <2>2 DEF SameNews, OwnNews
  <2>4. Truth(d) => Truth(d)'
    BY <1>2, <1>4, <1>5, <2>1 DEF SameNews, Truth
  <2>5. \A k \in Hyps : WorksOn(d, k) => k # h
    BY <1>2 DEF WorksOn
  <2> QED
    BY <1>1, <1>4, <1>5, <2>1, <2>2, <2>3, <2>4, <2>5 DEF SameNews, Drifts
<1> QED
  BY <1>6, <1>7, <1>8, <1>9, <1>10 DEF PlaceBase

LEMMA ReconnectsDrifts ==
    ASSUME TypeOK, PlaceBase, OneIsBusy, NEW h \in Hyps, WorkerReconnects(h)
    PROVE  PlaceBase' /\ \A d \in Desktops : Drifts(d)
<1>1. /\ UNCHANGED <<changes, worker, listens, queue, doing, polled, guests, events, erased>>
      /\ worker[h] = "online" /\ h \in broken /\ doing[h] = <<>>
      /\ broken' = broken \ {h}
      /\ WriteAll(feed, client, Coherent(h))
  BY DEF WorkerReconnects, FindsBroken, libvirtVars
<1>2. events[h] = <<>> /\ changes = "on" /\ h # NoHyp
  BY <1>1, ConstantsAssumption DEF PlaceBase, WorkersListen, TypeOK
<1>3. /\ row' = Coherent(h) /\ client' = client
      /\ \A d \in Desktops : /\ Ignored(d) => Ignored(d)'
                             /\ \A c \in Change : OneActive(d, c) => OneActive(d, c)'
  BY <1>1, <1>2, CoherentRows, RowsRewritten
<1>4. ASSUME NEW d \in Desktops
      PROVE  /\ row'[d].present = row[d].present
             /\ ~row[d].present => row'[d] = row[d]
             /\ row[d].present /\ d \in guests[h] => row'[d].status = "Started" /\ row'[d].hyp = h
             /\ row[d].present /\ d \notin guests[h] /\ row[d].hyp = h =>
                  row'[d].status = "Stopped" /\ row'[d].hyp = NoHyp
             /\ row[d].present /\ d \notin guests[h] /\ row[d].hyp # h => row'[d] = row[d]
  <2>1. row'[d] = Coherent(h)[d] /\ row[d] \in DomainRow
    BY <1>3 DEF TypeOK
  <2> QED
    BY <2>1 DEF Coherent, Put, DomainRow
<1>5. WorkersListen'
  BY <1>1 DEF PlaceBase, WorkersListen
<1>6. RowsNameWorkers'
  <2> SUFFICES ASSUME NEW d \in Desktops
               PROVE  /\ row'[d].hyp # NoHyp => worker'[row'[d].hyp] = "online"
                      /\ row'[d].status = "Stopped" => row'[d].hyp = NoHyp
    BY DEF RowsNameWorkers
  <2> QED
    BY <1>1, <1>4 DEF PlaceBase, RowsNameWorkers
<1>7. RunOnce'
  BY <1>1 DEF PlaceBase, RunOnce, OnlyAt
<1>8. NewsAreTrue'
  BY <1>1 DEF PlaceBase, NewsAreTrue, EndsAreLast, StartsAreTrue, Ending, RunsNowhere
<1>9. ASSUME NEW d \in Desktops
      PROVE  Drifts(d)
  <2>1. SameNews(d)
    BY <1>1 DEF SameNews, EndWaits, HasNews
  <2>2. Gone(d) <=> Gone(d)'
    BY <2>1 DEF SameNews, Gone, RunsNowhere, NoNews
  <2>3. \A k \in Hyps : k # h => (k \in broken' <=> k \in broken)
    BY <1>1
  <2>4. ~HasNews(d, h)
    BY <1>2, EmptySequence DEF HasNews
  <2>5. \A k \in Hyps : WorksOn(d, k) => k # h /\ d \notin guests[h]
    BY <1>1 DEF WorksOn, OnlyAt
  <2>6. d \in guests[h] => \A k \in Hyps : d \in guests[k] => k = h
    BY DEF PlaceBase, RunOnce, OnlyAt
  <2>7. CASE ~row[d].present \/ (d \notin guests[h] /\ row[d].hyp # h)
    <3>1. row'[d] = row[d]
      BY <1>4, <2>7
    <3>2. OwnNews(d) => OwnNews(d)'
      BY <2>1, <2>2, <3>1 DEF SameNews, OwnNews
    <3>3. Truth(d) => Truth(d)'
      BY <2>1, <2>3, <2>7, <3>1 DEF SameNews, Truth
    <3> QED
      BY <1>1, <1>3, <2>1, <2>2, <2>3, <2>5, <3>1, <3>2, <3>3 DEF SameNews, Drifts
  <2>8. CASE row[d].present /\ d \in guests[h]
    <3>1. row'[d].status = "Started" /\ row'[d].hyp = h /\ ~Gone(d) /\ row'[d].present
      BY <1>4, <2>8 DEF Gone, RunsNowhere
    <3>2. Truth(d) => row[d].hyp = h
      BY <2>8 DEF Truth
    <3>3. row[d].present /\ Truth(d) /\ OwnNews(d) => OwnNews(d)'
      BY <2>1, <3>1, <3>2 DEF SameNews, OwnNews, Down
    <3>4. Truth(d)'
      BY <1>1, <2>6, <2>8, <3>1 DEF Truth
    <3> QED
      BY <1>1, <1>3, <2>1, <2>2, <2>5, <2>8, <3>1, <3>3, <3>4 DEF SameNews, Drifts
  <2>9. CASE row[d].present /\ d \notin guests[h] /\ row[d].hyp = h
    <3>1. row'[d].status = "Stopped" /\ row'[d].hyp = NoHyp /\ row'[d].present
      BY <1>4, <2>9
    <3>2. Truth(d) => RunsNowhere(d)
      BY <2>9 DEF Truth, RunsNowhere
    <3>3. row[d].present /\ Truth(d) /\ OwnNews(d) => OwnNews(d)'
      <4> SUFFICES ASSUME Truth(d), OwnNews(d) PROVE OwnNews(d)'
        OBVIOUS
      <4>1. \A k \in Hyps : ~HasNews(d, k)
        BY <2>4, <2>9 DEF OwnNews
      <4>2. Gone(d)'
        BY <2>2, <3>2, <4>1 DEF Gone, NoNews
      <4> QED
        BY <2>1, <4>1, <4>2 DEF OwnNews, SameNews
    <3>4. Truth(d) => Truth(d)'
      BY <1>1, <3>1, <3>2 DEF Truth, RunsNowhere
    <3> QED
      BY <1>1, <1>2, <1>3, <2>1, <2>2, <2>3, <2>5, <2>9, <3>1, <3>3, <3>4 DEF SameNews, Drifts
  <2> QED
    BY <2>7, <2>8, <2>9
<1> QED
  BY <1>5, <1>6, <1>7, <1>8, <1>9 DEF PlaceBase

LEMMA HandlesDrifts ==
    ASSUME TypeOK, PlaceBase, OneIsBusy, NEW h \in Hyps, HandlesEvent(h)
    PROVE  PlaceBase' /\ \A d \in Desktops : Drifts(d)
<1>1. events[h] \in Seq(Event) /\ events[h] # <<>> /\ events \in [Hyps -> Seq(Event)] /\
        row \in [Desktops -> DomainRow]
  BY DEF TypeOK, HandlesEvent
<1>2. PICK x \in Event : x = Head(events[h])
  BY <1>1, TailIndices
<1>3. PICK d \in Desktops : d = x.d
  BY DEF Event
<1>4. x = Ending(d) \/ x = [d |-> d, event |-> "Started"]
  BY <1>3 DEF Event, Ending
<1>5. PICK r \in DomainRow : r = AfterEvent(row[d], h, x.event)
  BY <1>1 DEF AfterEvent, Put, DomainRow, Status, HypStarted
<1>6. /\ UNCHANGED <<changes, worker, broken, listens, queue, doing, polled, guests, erased>>
      /\ events' = [events EXCEPT ![h] = Tail(events[h])] /\ WriteRow(d, r)
  BY <1>2, <1>3, <1>5 DEF HandlesEvent, workerVars
<1>7. listens[h] = "yes" /\ worker[h] = "online" /\ changes = "on" /\ h # NoHyp
  BY <1>1, ConstantsAssumption DEF PlaceBase, WorkersListen, TypeOK
<1>8. /\ row' = [row EXCEPT ![d] = r] /\ client' = client
      /\ feed'[d] = feed[d] \o Changed(row[d], r)
      /\ \A e \in Desktops : e # d => row'[e] = row[e] /\ feed'[e] = feed[e]
  BY <1>6, <1>7, NobodyIsWaiting, RowWritten
<1>9. row'[d] = r /\ r.present = row[d].present
  BY <1>1, <1>5, <1>8 DEF AfterEvent, Put, DomainRow
<1>10. /\ \A k \in Hyps : k # h => events'[k] = events[k]
       /\ 1 \in DOMAIN events[h] /\ events[h][1] = x
       /\ \A i \in DOMAIN events'[h] : i \in Nat \ {0} /\ i + 1 \in DOMAIN events[h] /\
            events'[h][i] = events[h][i + 1]
       /\ \A i \in DOMAIN events[h] : i \in Nat /\
            (i # 1 => i - 1 \in DOMAIN events'[h] /\ events'[h][i - 1] = events[h][i])
  BY <1>1, <1>2, <1>6, TailIndices
<1>11. \A k \in Hyps, e \in Desktops : /\ EndWaits(e, k)' => EndWaits(e, k)
                                       /\ HasNews(e, k)' => HasNews(e, k)
  BY <1>10 DEF EndWaits, HasNews, Ending
<1>12. ASSUME NEW e \in Desktops, e # d
       PROVE  SameNews(e)
  <2>1. events[h][1] # Ending(e) /\ events[h][1].d # e
    BY <1>3, <1>10, <1>12 DEF Ending
  <2>2. \A k \in Hyps : EndWaits(e, k) => EndWaits(e, k)'
    BY <1>10, <2>1 DEF EndWaits, Ending
  <2>3. \A k \in Hyps : HasNews(e, k) => HasNews(e, k)'
    BY <1>10, <2>1 DEF HasNews
  <2> QED
    BY <1>6, <1>11, <2>2, <2>3 DEF SameNews
<1>13. EndsAreLast'
  <2> SUFFICES ASSUME NEW e \in Desktops, NEW k \in Hyps, NEW i \in DOMAIN events'[k], events'[k][i] = Ending(e)
               PROVE  RunsNowhere(e)' /\
                      \A l \in Hyps : \A j \in DOMAIN events'[l] : events'[l][j] = Ending(e) => l = k /\ j = i
    BY DEF EndsAreLast, Ending
  <2>1. PICK p \in DOMAIN events[k] : events[k][p] = Ending(e) /\ p = IF k = h THEN i + 1 ELSE i
    BY <1>10
  <2>2. RunsNowhere(e) /\ \A l \in Hyps : \A j \in DOMAIN events[l] : events[l][j] = Ending(e) => l = k /\ j = p
    BY <2>1, EndIsLast DEF PlaceBase
  <2>3. RunsNowhere(e)'
    BY <1>6, <2>2 DEF RunsNowhere
  <2>4. ASSUME NEW l \in Hyps, NEW j \in DOMAIN events'[l], events'[l][j] = Ending(e)
        PROVE  l = k /\ j = i
    <3>1. CASE l = h
      <4>1. j \in Nat /\ j + 1 \in DOMAIN events[h] /\ events[h][j + 1] = Ending(e)
        BY <1>10, <2>4, <3>1
      <4>2. h = k /\ j + 1 = p
        BY <2>2, <4>1
      <4> QED
        BY <1>10, <2>1, <3>1, <4>1, <4>2
    <3>2. CASE l # h
      BY <1>10, <2>1, <2>2, <2>4, <3>2
    <3> QED
      BY <3>1, <3>2
  <2> QED
    BY <2>3, <2>4
<1>14. StartsAreTrue'
  <2> SUFFICES ASSUME NEW e \in Desktops, NEW k \in Hyps, NEW i \in DOMAIN events'[k],
                      events'[k][i] = [d |-> e, event |-> "Started"]
               PROVE  e \in guests'[k] \/ \E j \in DOMAIN events'[k] : j > i /\ events'[k][j] = Ending(e)
    BY DEF StartsAreTrue, Ending
  <2>1. CASE k = h
    <3>1. i \in Nat /\ i + 1 \in DOMAIN events[h] /\ events[h][i + 1] = [d |-> e, event |-> "Started"]
      BY <1>10, <2>1
    <3>2. e \in guests[h] \/ \E j \in DOMAIN events[h] : j > i + 1 /\ events[h][j] = Ending(e)
      BY <3>1, StartIsTrue DEF PlaceBase
    <3>3. ASSUME NEW j \in DOMAIN events[h], j > i + 1, events[h][j] = Ending(e)
          PROVE  j - 1 \in DOMAIN events'[h] /\ j - 1 > i /\ events'[h][j - 1] = Ending(e)
      BY <1>10, <3>1, <3>3
    <3> QED
      BY <1>6, <2>1, <3>2, <3>3
  <2>2. CASE k # h
    <3>1. e \in guests[k] \/ \E j \in DOMAIN events[k] : j > i /\ events[k][j] = Ending(e)
      BY <1>10, <2>2, StartIsTrue DEF PlaceBase
    <3> QED
      BY <1>6, <1>10, <2>2, <3>1
  <2> QED
    BY <2>1, <2>2
<1>15. WorkersListen'
  BY <1>6, <1>7, <1>10 DEF PlaceBase, WorkersListen
<1>16. RunOnce'
  BY <1>6 DEF PlaceBase, RunOnce, OnlyAt
<1>17. RowsNameWorkers'
  <2>1. r.hyp # NoHyp => worker[r.hyp] = "online"
    BY <1>1, <1>5, <1>7 DEF AfterEvent, Put, DomainRow, PlaceBase, RowsNameWorkers
  <2>2. r.status = "Stopped" => r.hyp = NoHyp
    BY <1>1, <1>5 DEF AfterEvent, Put, DomainRow, PlaceBase, RowsNameWorkers
  <2> QED
    BY <1>6, <1>8, <1>9, <2>1, <2>2 DEF PlaceBase, RowsNameWorkers
<1>18. \A e \in Desktops : e # d => Drifts(e)
  BY <1>6, <1>8, <1>12, SameDrifts
<1>19. (Ignored(d) => Ignored(d)') /\ \A c \in Change : OneActive(d, c) => OneActive(d, c)'
  <2>1. r = row[d] \/ r.status \in {"Started", "Stopped"}
    BY <1>1, <1>5 DEF AfterEvent, Put, DomainRow
  <2> QED
    BY <1>8, <2>1, FeedDrifts
<1>20. HasNews(d, h) /\ ~Gone(d)
  BY <1>3, <1>10 DEF HasNews, Gone, NoNews
<1>21. \A k \in Hyps : guests'[k] = guests[k]
  BY <1>6
<1>24. /\ d \in erased' <=> d \in erased
       /\ \A k \in Hyps : d \in guests'[k] => d \in guests[k]
       /\ \A k \in Hyps : WorksOn(d, k) =>
            /\ d \in guests[k] \/ k \in broken => d \in guests'[k] \/ k \in broken'
            /\ k \in broken => k \in broken'
            /\ \A l \in Hyps : EndWaits(d, l)' => EndWaits(d, l)
  BY <1>6, <1>11
<1>22. ASSUME x = [d |-> d, event |-> "Started"]
       PROVE  Drifts(d)
  <2>1. (r = row[d] /\ ~row[d].present) \/ (r.present /\ r.status = "Started" /\ r.hyp = h)
    BY <1>1, <1>5, <1>22 DEF AfterEvent, Put, DomainRow
  <2>2. d \in guests[h] \/ EndWaits(d, h)'
    <3>1. d \in guests[h] \/ \E j \in DOMAIN events[h] : j > 1 /\ events[h][j] = Ending(d)
      BY <1>10, <1>22, StartIsTrue DEF PlaceBase
    <3> QED
      BY <1>10, <3>1 DEF EndWaits, Ending
  <2>3. \A k \in Hyps : d \in guests[k] => k = h
    <3>1. d \in guests[h] => \A k \in Hyps : d \in guests[k] => k = h
      BY DEF PlaceBase, RunOnce, OnlyAt
    <3>2. EndWaits(d, h) => RunsNowhere(d)
      BY EndIsLast DEF EndWaits, PlaceBase
    <3> QED
      BY <1>11, <2>2, <3>1, <3>2 DEF RunsNowhere
  <2>4. Truth(d)'
    <3> SUFFICES ASSUME r.present PROVE Truth(d)'
      BY <1>9 DEF Truth
    <3>1. r.status = "Started" /\ r.hyp = h
      BY <1>9, <2>1
    <3> QED
      BY <1>9, <1>21, <2>2, <2>3, <3>1 DEF Truth, EndWaits
  <2>5. row[d].present /\ OwnNews(d) => OwnNews(d)'
    <3> SUFFICES ASSUME row[d].present, OwnNews(d) PROVE OwnNews(d)'
      OBVIOUS
    <3>1. r.status = "Started" /\ r.hyp = h
      BY <1>9, <2>1
    <3>2. \A k \in Hyps : HasNews(d, k)' => k = h
      BY <1>11, <1>20 DEF OwnNews
    <3> QED
      BY <1>9, <3>1, <3>2 DEF OwnNews, Down
  <2> QED
    <3>1. row'[d] = row[d] \/ (row'[d].status = "Started" /\ ~Gone(d))
      BY <1>9, <1>20, <2>1
    <3> QED
      BY <1>9, <1>19, <1>20, <1>24, <2>4, <2>5, <3>1 DEF Drifts
<1>23. ASSUME x = Ending(d)
       PROVE  Drifts(d)
  <2>1. \/ r = row[d] /\ (row[d].present => row[d].status = "Stopped")
        \/ r.status = "Stopped" /\ r.hyp = NoHyp
    BY <1>1, <1>5, <1>23 DEF AfterEvent, Put, DomainRow, Ending
  <2>2. RunsNowhere(d) /\ \A l \in Hyps : \A j \in DOMAIN events[l] : events[l][j] = Ending(d) => l = h /\ j = 1
    BY <1>10, <1>23, EndIsLast DEF PlaceBase
  <2>3. Truth(d)'
    BY <1>9, <1>21, <2>1, <2>2 DEF Truth, RunsNowhere
  <2>4. row[d].present /\ OwnNews(d) => OwnNews(d)'
    <3> SUFFICES ASSUME row[d].present, OwnNews(d) PROVE OwnNews(d)'
      OBVIOUS
    <3>1. row[d].status \notin Down
      BY <1>20 DEF OwnNews
    <3>2. r.status = "Stopped" /\ r.hyp = NoHyp
      BY <2>1, <3>1 DEF Down
    <3>3. \A k \in Hyps : ~HasNews(d, k)'
      <4> SUFFICES ASSUME NEW k \in Hyps, HasNews(d, k)' PROVE FALSE
        OBVIOUS
      <4>1. k = h
        BY <1>11, <1>20 DEF OwnNews
      <4>2. PICK i \in DOMAIN events'[h] : events'[h][i].d = d
        BY <4>1 DEF HasNews
      <4>3. i \in Nat \ {0} /\ i + 1 \in DOMAIN events[h] /\ events[h][i + 1].d = d /\ events[h][i + 1] \in Event
        BY <1>1, <1>10, <4>2
      <4>4. events[h][i + 1] = Ending(d) \/ events[h][i + 1] = [d |-> d, event |-> "Started"]
        BY <4>3 DEF Event, Ending
      <4>5. events[h][i + 1] # Ending(d)
        BY <1>10, <2>2, <4>2, <4>3
      <4>6. PICK j \in DOMAIN events[h] : j > i + 1 /\ events[h][j] = Ending(d)
        BY <2>2, <4>3, <4>4, <4>5, StartIsTrue DEF PlaceBase, RunsNowhere
      <4> QED
        BY <1>10, <2>2, <4>3, <4>6
    <3>4. Gone(d)'
      BY <1>21, <2>2, <3>3 DEF Gone, RunsNowhere, NoNews
    <3> QED
      BY <3>3, <3>4 DEF OwnNews
  <2> QED
    <3>1. row'[d] = row[d] \/ (row'[d].status = "Stopped" /\ ~Gone(d))
      BY <1>9, <1>20, <2>1
    <3> QED
      BY <1>9, <1>19, <1>20, <1>24, <2>3, <2>4, <3>1 DEF Drifts
<1> QED
  BY <1>4, <1>13, <1>14, <1>15, <1>16, <1>17, <1>18, <1>22, <1>23 DEF PlaceBase, NewsAreTrue

----------------------------------------------------------------------------
(* Who takes a step is the one that is at it.                              *)

LEMMA OnlyHead ==
    ASSUME NEW s \in Seq(Change), s # <<>>, ~Passive(Head(s)), NEW c \in Change, NEW i \in DOMAIN s, s[i] = c,
           \A j \in DOMAIN s : j # i => Passive(s[j])
    PROVE  c = Head(s) /\ \A j \in DOMAIN Tail(s) : Passive(Tail(s)[j])
<1>1. /\ 1 \in DOMAIN s /\ Head(s) = s[1]
      /\ \A j \in DOMAIN Tail(s) : j + 1 \in DOMAIN s /\ Tail(s)[j] = s[j + 1] /\ j + 1 # 1
  BY TailIndices
<1>2. i = 1
  BY <1>1
<1> QED
  BY <1>1, <1>2

LEMMA ActiveHead ==
    ASSUME TypeOK, OneIsBusy, NEW d \in Desktops, feed[d] # <<>>, ~Passive(Head(feed[d]))
    PROVE  /\ Busy(d) /\ Told(d, Head(feed[d])) /\ Head(feed[d]) \in Change
           /\ Tail(feed[d]) \in Seq(Change) /\ \A i \in DOMAIN Tail(feed[d]) : Passive(Tail(feed[d])[i])
<1>1. feed[d] \in Seq(Change)
  BY DEF TypeOK
<1>2. 1 \in DOMAIN feed[d] /\ Head(feed[d]) = feed[d][1] /\ Tail(feed[d]) \in Seq(Change) /\
        Head(feed[d]) \in Change
  BY <1>1, TailIndices
<1>3. ~Ignored(d) /\ ~Idle(d)
  BY <1>2 DEF Ignored, Idle
<1>4. Busy(d)
  BY <1>3 DEF OneIsBusy, AtRest, Busy
<1>5. PICK c \in Change : Told(d, c)
  BY <1>3, <1>4 DEF Busy, Stage, Asked, Queued, Working
<1>6. PICK i \in DOMAIN feed[d] : feed[d][i] = c /\ \A j \in DOMAIN feed[d] : j # i => Passive(feed[d][j])
  BY <1>5 DEF Told, OneActive
<1>7. c = Head(feed[d]) /\ \A j \in DOMAIN Tail(feed[d]) : Passive(Tail(feed[d])[j])
  BY <1>1, <1>6, OnlyHead
<1> QED
  BY <1>2, <1>4, <1>5, <1>7

LEMMA ActiveQueue ==
    ASSUME OneIsBusy, NEW h \in Hyps, queue[h] # <<>>
    PROVE  \E d \in Desktops, type \in ActionTypes :
              /\ Busy(d) /\ Queued(d, h, type) /\ Head(queue[h]) = [type |-> type, d |-> d] /\
                   Tail(queue[h]) = <<>>
<1>1. ~NoQueue
  BY DEF NoQueue
<1>2. PICK d \in Desktops : Busy(d)
  BY <1>1 DEF OneIsBusy, AtRest
<1>3. PICK k \in Hyps, type \in ActionTypes : Queued(d, k, type)
  BY <1>1, <1>2 DEF Busy, Stage, Asked, Told, Working
<1>4. k = h /\ queue[h] = <<[type |-> type, d |-> d]>>
  BY <1>3 DEF Queued
<1>5. Head(queue[h]) = [type |-> type, d |-> d] /\ Tail(queue[h]) = <<>>
  BY <1>4, SingleSequence
<1> QED
  BY <1>2, <1>3, <1>4, <1>5

LEMMA ActiveOutcome ==
    ASSUME OneIsBusy, NEW h \in Hyps, doing[h] # <<>>
    PROVE  \E d \in Desktops, s \in Status :
              /\ Busy(d) /\ Working(d, h, s) /\ Tail(doing[h]) = <<>>
              /\ Head(doing[h]) = [d |-> d, status |-> s, hyp |-> IF s \in {"Stopped", "DiskDeleted"} THEN NoHyp ELSE h]
<1>1. ~NoOutcome
  BY DEF NoOutcome
<1>2. PICK d \in Desktops : Busy(d)
  BY <1>1 DEF OneIsBusy, AtRest
<1>3. PICK k \in Hyps, s \in Status : Working(d, k, s)
  BY <1>1, <1>2 DEF Busy, Stage, Asked, Told, Queued
<1>4. k = h
  BY <1>3 DEF Working
<1>5. PICK o : o = [d |-> d, status |-> s, hyp |-> IF s \in {"Stopped", "DiskDeleted"} THEN NoHyp ELSE h]
  OBVIOUS
<1>6. doing[h] = <<o>>
  BY <1>3, <1>4, <1>5 DEF Working
<1>7. Head(doing[h]) = o /\ Tail(doing[h]) = <<>>
  BY <1>6, SingleSequence
<1> QED
  BY <1>2, <1>3, <1>4, <1>5, <1>7

LEMMA ActiveClient ==
    ASSUME OneIsBusy, NEW u \in Users, client[u].todo # <<>>
    PROVE  \E d \in Desktops, w \in Status :
              /\ Busy(d) /\ Asked(d, u, w) /\ client[u].d = d /\ Head(client[u].todo) = w /\
                   Tail(client[u].todo) = <<>>
<1>1. ~NoTodo
  BY DEF NoTodo
<1>2. PICK d \in Desktops : Busy(d)
  BY <1>1 DEF OneIsBusy, AtRest
<1>3. PICK v \in Users, w \in Status : Asked(d, v, w)
  BY <1>1, <1>2 DEF Busy, Stage, Told, Queued, Working
<1>4. v = u
  BY <1>3 DEF Asked
<1>5. client[u].d = d /\ client[u].todo = <<w>>
  BY <1>3, <1>4 DEF Asked
<1> QED
  BY <1>2, <1>3, <1>4, <1>5, SingleSequence

----------------------------------------------------------------------------
(* The others stay as they are.                                            *)

OthersStay(d) ==
    \A e \in Desktops : e # d => SameNews(e) /\ row'[e] = row[e] /\ feed'[e] = feed[e] /\
      (e \in erased' <=> e \in erased)

LEMMA OthersIdle ==
    ASSUME NEW d \in Desktops, AtRest \/ Busy(d), OthersStay(d), broken \subseteq broken'
    PROVE  \A e \in Desktops : e # d => Idle(e)'
<1> SUFFICES ASSUME NEW e \in Desktops, e # d PROVE Idle(e)'
  OBVIOUS
<1>1. Idle(e) /\ Drifts(e)
  BY SameDrifts DEF AtRest, Busy, OthersStay
<1> QED
  BY <1>1, IdleDrifts

LEMMA SameLibvirt == UNCHANGED <<guests, events>> => \A d \in Desktops : SameNews(d)
BY DEF SameNews, EndWaits, HasNews

LEMMA ComesBackToRest ==
    ASSUME NEW d \in Desktops, AtRest \/ Busy(d), OthersStay(d), broken \subseteq broken',
           NoTodo', NoQueue', NoOutcome', Idle(d)'
    PROVE  OneIsBusy'
<1>1. \A e \in Desktops : Idle(e)'
  BY OthersIdle
<1> QED
  BY <1>1 DEF OneIsBusy, AtRest

LEMMA GoesOn ==
    ASSUME NEW d \in Desktops, AtRest \/ Busy(d), OthersStay(d), broken \subseteq broken',
           changes' = "on", row'[d].present, Stage(d)'
    PROVE  OneIsBusy'
<1>1. \A e \in Desktops : e # d => Idle(e)'
  BY OthersIdle
<1>2. Busy(d)'
  BY <1>1 DEF Busy
<1> QED
  BY <1>2 DEF OneIsBusy

\* Where guests, connections and news stay, what is written must be right.
LEMMA BaseKept ==
    ASSUME PlaceBase, UNCHANGED <<changes, polled, worker, guests, listens, events, broken>>,
           \A h \in Hyps : worker[h] = "none" => queue'[h] = <<>> /\ doing'[h] = <<>>,
           \A d \in Desktops :
             \/ row'[d].hyp = row[d].hyp /\ row'[d].status = row[d].status
             \/ /\ row'[d].hyp # NoHyp => worker[row'[d].hyp] = "online"
                /\ row'[d].status = "Stopped" => row'[d].hyp = NoHyp
    PROVE  PlaceBase'
<1>1. WorkersListen'
  BY DEF PlaceBase, WorkersListen
<1>2. RowsNameWorkers'
  <2> SUFFICES ASSUME NEW d \in Desktops
               PROVE  /\ row'[d].hyp # NoHyp => worker'[row'[d].hyp] = "online"
                      /\ row'[d].status = "Stopped" => row'[d].hyp = NoHyp
    BY DEF RowsNameWorkers
  <2> QED
    BY DEF PlaceBase, RowsNameWorkers
<1>3. RunOnce' /\ NewsAreTrue'
  BY DEF PlaceBase, RunOnce, OnlyAt, NewsAreTrue, EndsAreLast, StartsAreTrue, Ending, RunsNowhere
<1> QED
  BY <1>1, <1>2, <1>3 DEF PlaceBase

LEMMA FeedEnds ==
    ASSUME NEW d \in Desktops, row[d] \in DomainRow, NEW s \in Seq(Change), \A i \in DOMAIN s : Passive(s[i]),
           NEW r \in DomainRow, feed'[d] = s \o Changed(row[d], r), NEW c \in Change,
           row[d].present /\ r.present => c = [old |-> row[d].status, new |-> r.status]
    PROVE  /\ row[d].status = r.status \/ ~row[d].present \/ ~r.present \/ Passive(c) => Ignored(d)'
           /\ row[d].status # r.status /\ row[d].present /\ r.present => OneActive(d, c)'
<1>1. CASE row[d].status = r.status \/ ~row[d].present \/ ~r.present
  <2>1. feed'[d] = s
    BY <1>1, FeedGrows
  <2> QED
    BY <1>1, <2>1 DEF Ignored
<1>2. CASE row[d].status # r.status /\ row[d].present /\ r.present
  <2>1. feed'[d] = Append(s, c)
    BY <1>2, FeedGrows
  <2>2. PICK n : n = Len(s) + 1
    OBVIOUS
  <2>3. /\ n \in DOMAIN feed'[d] /\ feed'[d][n] = c
        /\ \A i \in DOMAIN feed'[d] : i # n => i \in DOMAIN s /\ feed'[d][i] = s[i]
    BY <2>1, <2>2, AppendIndices
  <2>4. \A i \in DOMAIN feed'[d] : i # n => Passive(feed'[d][i])
    BY <2>3
  <2>5. OneActive(d, c)'
    BY <2>3, <2>4 DEF OneActive
  <2>6. Passive(c) => Ignored(d)'
    BY <2>3, <2>4 DEF Ignored
  <2> QED
    BY <1>2, <2>5, <2>6
<1> QED
  BY <1>1, <1>2

----------------------------------------------------------------------------
(* Users.                                                                  *)

LEMMA QuietRests ==
    ASSUME OneIsBusy, Quiet
    PROVE  AtRest /\ \A d \in Desktops : NoNews(d)
<1>1. \A d \in Desktops : DOMAIN feed[d] = {} /\ \A h \in Hyps : DOMAIN events[h] = {}
  BY EmptySequence DEF Quiet
<1>2. \A d \in Desktops, c \in Change : ~Told(d, c)
  BY <1>1 DEF Told, OneActive
<1>3. NoTodo /\ NoQueue /\ NoOutcome
  BY DEF Quiet, NoTodo, NoQueue, NoOutcome
<1>4. ASSUME NEW d \in Desktops, Busy(d)
      PROVE  FALSE
  <2>1. \A u \in Users, w \in Status : ~Asked(d, u, w)
    <3> SUFFICES ASSUME NEW u \in Users, NEW w \in Status, Asked(d, u, w) PROVE FALSE
      OBVIOUS
    <3>1. client[u].todo = <<w>>
      BY DEF Asked
    <3> QED
      BY <1>3, <3>1, SingleSequence DEF NoTodo
  <2>2. \A h \in Hyps, type \in ActionTypes : ~Queued(d, h, type)
    BY <1>3, SingleSequence DEF Queued, NoQueue
  <2>3. \A h \in Hyps, s \in Status : ~Working(d, h, s)
    BY <1>3, SingleSequence DEF Working, NoOutcome
  <2> QED
    BY <1>2, <1>4, <2>1, <2>2, <2>3 DEF Busy, Stage
<1>5. \A d \in Desktops : NoNews(d)
  BY <1>1 DEF NoNews, HasNews
<1> QED
  BY <1>4, <1>5 DEF OneIsBusy

LEMMA ReadsStep ==
    ASSUME TypeOK, PlaceInv, Waiting, NEW u \in Users, NEW d \in Desktops, NEW op \in Ops, UserReads(u, d, op)
    PROVE  PlaceInv'
<1>1. /\ UNCHANGED <<row, feed, changes, worker, last, broken, listens, queue, doing, polled,
           guests, events, erased>>
      /\ Quiet /\ row[d].present /\ row[d].status \in From(op)
      /\ client' = [client EXCEPT ![u] = [d |-> d, todo |-> Todo(op, row[d].status)]]
      /\ op \in {"start", "stop", "shutdown", "stopping", "delete"}
  BY DEF UserReads, NewOp, Waiting, workerVars, libvirtVars
<1>2. PlaceBase'
  BY <1>1, BaseKept DEF PlaceInv, PlaceBase, WorkersListen
<1>3. AtRest /\ NoNews(d) /\ Idle(d) /\ changes = "on" /\ broken = {}
  BY <1>1, QuietRests DEF PlaceInv, AtRest, Quiet
<1>4. PICK w \in {"Starting", "Stopping", "Shutting-down", "Deleting"} :
        /\ Todo(op, row[d].status) = <<w>>
        /\ w = "Starting" => op = "start"
  BY <1>1 DEF Todo
<1>5. row[d].status \in Down \cup Up /\ (w = "Starting" => row[d].status \in Down)
  BY <1>1, <1>4 DEF From, Down, Up
<1>6. row[d].status \in Down => Gone(d)
  <2>1. row[d].status \in Down => RunsNowhere(d)
    <3>1. row[d].status = "Stopped" => row[d].hyp = NoHyp
      BY DEF PlaceInv, PlaceBase, RowsNameWorkers
    <3> QED
      BY <1>1, <1>3, <3>1, ConstantsAssumption DEF Idle, Truth, Down, RunsNowhere
  <2> QED
    BY <1>3, <2>1 DEF Gone
<1>7. OwnNews(d)
  BY <1>3, <1>6 DEF OwnNews, NoNews
<1>8. /\ client'[u] = [d |-> d, todo |-> <<w>>] /\ \A v \in Users : v # u => client'[v].todo = <<>>
  BY <1>1, <1>3, <1>4 DEF TypeOK, AtRest, NoTodo
<1>9. Asked(d, u, w)'
  <2>1. NoQueue' /\ NoOutcome' /\ Ignored(d)' /\ Truth(d)' /\ d \notin erased'
    BY <1>1, <1>3 DEF AtRest, NoQueue, NoOutcome, Ignored, Idle, Truth, EndWaits
  <2>2. w = "Starting" => Gone(d)'
    BY <1>1, <1>5, <1>6 DEF Gone, RunsNowhere, NoNews, HasNews
  <2>3. OwnNews(d)'
    BY <1>1, <1>7 DEF OwnNews, Gone, RunsNowhere, NoNews, HasNews
  <2>4. row'[d].status \in Down \cup Up /\ (w = "Starting" => row'[d].status \in Down)
    BY <1>1, <1>5
  <2> QED
    BY <1>4, <1>8, <2>1, <2>2, <2>3, <2>4 DEF Asked
<1>10. Stage(d)'
  <2>1. w \in Status
    BY DEF Status
  <2> QED
    BY <1>9, <2>1 DEF Stage
<1>11. OneIsBusy'
  <2>1. OthersStay(d)
    BY <1>1, SameLibvirt DEF OthersStay
  <2> QED
    BY <1>1, <1>3, <1>10, <2>1, GoesOn
<1> QED
  BY <1>2, <1>11 DEF PlaceInv

LEMMA WritesStep ==
    ASSUME TypeOK, PlaceInv, NEW u \in Users, UserWrites(u)
    PROVE  PlaceInv'
<1>0. /\ UNCHANGED <<changes, worker, broken, listens, queue, doing, polled, guests, events, erased>>
      /\ client[u].todo # <<>>
  BY DEF UserWrites, workerVars, libvirtVars
<1>1. PICK d \in Desktops, w \in Status :
        Busy(d) /\ Asked(d, u, w) /\ client[u].d = d /\ Head(client[u].todo) = w /\ Tail(client[u].todo) = <<>>
  BY <1>0, ActiveClient DEF PlaceInv
<1>2. /\ row[d].present /\ changes = "on" /\ row[d] \in DomainRow /\ feed[d] \in Seq(Change)
      /\ feed \in [Desktops -> Seq(Change)] /\ row \in [Desktops -> DomainRow] /\ client \in Requests
  BY <1>1 DEF Busy, TypeOK, Requests, Tasks
<1>3. PICK r \in DomainRow : r = PutStatus(row[d], w)
  BY <1>2, PutType DEF DomainRow
<1>4. PICK requests : requests = [client EXCEPT ![u].todo = Tail(@)]
  OBVIOUS
<1>5. requests \in Requests /\ \A v \in Users : requests[v].todo = <<>>
  <2>1. client[u] \in [d : Desktops, todo : Seq(Tasks)] /\ <<>> \in Seq(Tasks)
    BY <1>2, EmptySequence DEF Requests
  <2>2. PICK q : q = [client[u] EXCEPT !.todo = <<>>]
    OBVIOUS
  <2>3. requests = [client EXCEPT ![u] = q] /\ q \in [d : Desktops, todo : Seq(Tasks)] /\ q.todo = <<>>
    BY <1>1, <1>4, <2>1, <2>2
  <2>4. \A v \in Users : v # u => client[v].todo = <<>>
    BY <1>1 DEF Asked
  <2> QED
    BY <1>2, <2>3, <2>4 DEF Requests
<1>6. PICK rows \in [Desktops -> DomainRow] : rows = [row EXCEPT ![d] = r]
  BY <1>2
<1>7. WriteAll(feed, requests, rows)
  <2>1. w # "tidy"
    BY DEF Status
  <2> QED
    BY <1>1, <1>3, <1>4, <1>6, <2>1 DEF UserWrites
<1>8. /\ row' = rows /\ client' = requests
      /\ \A e \in Desktops : feed'[e] = feed[e] \o Changed(row[e], rows[e])
  BY <1>2, <1>5, <1>7, AllWritten DEF NobodyWaits
<1>9. /\ row'[d] = r /\ feed'[d] = feed[d] \o Changed(row[d], r)
      /\ r.present /\ r.status = w /\ r.hyp = row[d].hyp
      /\ \A e \in Desktops : e # d => row'[e] = row[e] /\ feed'[e] = feed[e]
  <2>1. \A e \in Desktops : e # d => feed[e] \o Changed(row[e], row[e]) = feed[e]
    BY <1>2, FeedGrows
  <2> QED
    BY <1>2, <1>3, <1>6, <1>8, <2>1 DEF PutStatus, Put, DomainRow
<1>10. w \in {"Stopping", "Shutting-down", "Starting", "Deleting"}
  BY <1>1 DEF Asked
<1>11. PlaceBase'
  <2>1. \A h \in Hyps : worker[h] = "none" => queue'[h] = <<>> /\ doing'[h] = <<>>
    BY <1>0 DEF PlaceInv, PlaceBase, WorkersListen
  <2>2. r.hyp # NoHyp => worker[r.hyp] = "online"
    BY <1>9 DEF PlaceInv, PlaceBase, RowsNameWorkers
  <2> QED
    BY <1>0, <1>9, <1>10, <2>1, <2>2, BaseKept DEF PlaceInv
<1>12. OthersStay(d) /\ SameNews(d)
  BY <1>0, <1>9, SameLibvirt DEF OthersStay
<1>13. NoTodo' /\ NoQueue' /\ NoOutcome'
  BY <1>0, <1>1, <1>5, <1>8 DEF Asked, NoTodo, NoQueue, NoOutcome
<1>14. Truth(d)'
  <2>1. Truth(d)
    BY <1>1 DEF Asked
  <2> QED
    BY <1>0, <1>2, <1>9, <1>10, <2>1 DEF Truth
<1>15. Gone(d) <=> Gone(d)'
  BY <1>12 DEF SameNews, Gone, RunsNowhere, NoNews
<1>16. PICK c \in Change : c = [old |-> row[d].status, new |-> w]
  BY <1>2 DEF Change, DomainRow
<1>17. /\ row[d].status = w \/ Passive(c) => Ignored(d)'
       /\ row[d].status # w => OneActive(d, c)'
  <2>1. \A i \in DOMAIN feed[d] : Passive(feed[d][i])
    BY <1>1 DEF Asked, Ignored
  <2> QED
    BY <1>2, <1>9, <1>16, <2>1, FeedEnds
<1>18. CASE row[d].status = w \/ Passive(c)
  <2>1. Idle(d)'
    BY <1>0, <1>1, <1>14, <1>17, <1>18 DEF Idle, Asked
  <2>2. OneIsBusy'
    BY <1>0, <1>1, <1>12, <1>13, <2>1, ComesBackToRest
  <2> QED
    BY <1>11, <2>2 DEF PlaceInv
<1>19. CASE row[d].status # w /\ ~Passive(c)
  <2>1. Wanted(d, c)'
    <3>1. c.old = row[d].status /\ c.new = w /\ c.old \in Down \cup Up /\ d \notin erased'
      BY <1>0, <1>1, <1>16 DEF Asked
    <3>2. w = "Starting" => c.old \in Down /\ Gone(d)'
      BY <1>1, <1>15, <3>1 DEF Asked
    <3>3. w = "Deleting" => (c.old \in Down => Gone(d)')
      BY <1>1, <1>15, <3>1 DEF Asked, OwnNews
    <3> QED
      BY <1>10, <3>1, <3>2, <3>3 DEF Wanted
  <2>2. Told(d, c)'
    BY <1>13, <1>14, <1>17, <1>19, <2>1 DEF Told, Passive
  <2>3. Stage(d)'
    BY <2>2 DEF Stage
  <2>4. OneIsBusy'
    BY <1>0, <1>1, <1>2, <1>9, <1>12, <2>3, GoesOn
  <2> QED
    BY <1>11, <2>4 DEF PlaceInv
<1> QED
  BY <1>18, <1>19

LEMMA RemovesRowStep ==
    ASSUME TypeOK, PlaceInv, Waiting, NEW d \in Desktops, UserRemovesRow(d)
    PROVE  PlaceInv'
<1>1. /\ UNCHANGED <<changes, worker, broken, listens, queue, doing, polled, guests, events, erased>>
      /\ Quiet /\ row[d].present /\ WriteRow(d, [row[d] EXCEPT !.present = FALSE])
  BY DEF UserRemovesRow, NewOp, Waiting, workerVars, libvirtVars
<1>2. AtRest /\ changes = "on" /\ row[d] \in DomainRow /\ feed[d] \in Seq(Change) /\
        row \in [Desktops -> DomainRow]
  BY <1>1, QuietRests DEF PlaceInv, Quiet, TypeOK
<1>3. PICK r \in DomainRow : r = [row[d] EXCEPT !.present = FALSE]
  BY <1>2 DEF DomainRow
<1>4. ~r.present /\ r.hyp = row[d].hyp /\ r.status = row[d].status
  BY <1>2, <1>3 DEF DomainRow
<1>5. /\ row' = [row EXCEPT ![d] = r] /\ client' = client
      /\ feed'[d] = feed[d] \o Changed(row[d], r)
      /\ \A e \in Desktops : e # d => row'[e] = row[e] /\ feed'[e] = feed[e]
  BY <1>1, <1>2, <1>3, NobodyIsWaiting, RowWritten DEF PlaceInv
<1>6. row'[d] = r /\ feed'[d] = feed[d]
  BY <1>2, <1>4, <1>5, FeedGrows
<1>7. PlaceBase'
  BY <1>1, <1>4, <1>5, <1>6, BaseKept DEF PlaceInv, PlaceBase, WorkersListen
<1>8. OthersStay(d)
  BY <1>1, <1>5, SameLibvirt DEF OthersStay
<1>9. Idle(d)'
  <2>1. Idle(d)
    BY <1>2 DEF AtRest
  <2> QED
    BY <1>1, <1>4, <1>6, <2>1 DEF Idle, Ignored, Truth, RunsNowhere
<1>10. NoTodo' /\ NoQueue' /\ NoOutcome'
  BY <1>1, <1>2, <1>5 DEF AtRest, NoTodo, NoQueue, NoOutcome
<1>11. OneIsBusy'
  BY <1>1, <1>2, <1>8, <1>9, <1>10, ComesBackToRest
<1> QED
  BY <1>7, <1>11 DEF PlaceInv

----------------------------------------------------------------------------
(* DomainsChangesThread.                                                   *)

LEMMA HeadHandled ==
    ASSUME TypeOK, PlaceInv, NEW d \in Desktops, NEW reactions, TakeChange(d, reactions),
           ~Passive(Head(feed[d])), NEW r \in DomainRow, Handled(d, r)
    PROVE  /\ UNCHANGED <<worker, broken, listens, doing, polled, guests, events, erased, client>>
           /\ Busy(d) /\ Told(d, Head(feed[d])) /\ OthersStay(d) /\ SameNews(d)
           /\ row'[d] = r /\ row[d] \in DomainRow /\ changes = "on" /\ row[d].present
           /\ \A e \in Desktops : e # d => row'[e] = row[e]
           /\ NoTodo' /\ NoOutcome'
           /\ r.status = row[d].status \/ ~r.present \/ Passive([old |-> row[d].status, new |-> r.status]) => Ignored(d)'
<1>1. /\ UNCHANGED <<worker, broken, listens, doing, polled, guests, events, erased>>
      /\ changes = "on" /\ feed[d] # <<>>
  BY DEF TakeChange, libvirtVars
<1>2. /\ Busy(d) /\ Told(d, Head(feed[d])) /\ Tail(feed[d]) \in Seq(Change)
      /\ \A i \in DOMAIN Tail(feed[d]) : Passive(Tail(feed[d])[i])
  BY <1>1, ActiveHead DEF PlaceInv
<1>3. /\ row' = [row EXCEPT ![d] = r] /\ client' = client
      /\ feed'[d] = Tail(feed[d]) \o Changed(row[d], r)
      /\ \A e \in Desktops : e # d => row'[e] = row[e] /\ feed'[e] = feed[e]
  BY <1>1, NobodyIsWaiting, ChangeHandled DEF PlaceInv
<1>4. row'[d] = r /\ row[d] \in DomainRow /\ row[d].present
  BY <1>2, <1>3 DEF TypeOK, Busy
<1>5. OthersStay(d) /\ SameNews(d)
  BY <1>1, <1>3, SameLibvirt DEF OthersStay
<1>6. NoTodo' /\ NoOutcome'
  BY <1>1, <1>2, <1>3 DEF Told, NoTodo, NoOutcome
<1>7. PICK c \in Change : c = [old |-> row[d].status, new |-> r.status]
  BY <1>4 DEF Change, DomainRow
<1>8. r.status = row[d].status \/ ~r.present \/ Passive(c) => Ignored(d)'
  BY <1>2, <1>3, <1>4, <1>7, FeedEnds
<1> QED
  BY <1>1, <1>2, <1>3, <1>4, <1>5, <1>6, <1>7, <1>8

LEMMA SameTruth ==
    ASSUME NEW d \in Desktops, SameNews(d), row'[d] = row[d], UNCHANGED broken
    PROVE  Truth(d)' <=> Truth(d)
BY DEF SameNews, Truth

LEMMA SameGone ==
    ASSUME NEW d \in Desktops, SameNews(d)
    PROVE  Gone(d)' <=> Gone(d)
BY DEF SameNews, Gone, RunsNowhere, NoNews

\* The change is done with.
LEMMA HandledRests ==
    ASSUME TypeOK, PlaceInv, NEW d \in Desktops, NEW reactions, TakeChange(d, reactions),
           ~Passive(Head(feed[d])), NEW r \in DomainRow, Handled(d, r), UNCHANGED <<queue, changes>>,
           r.status = row[d].status \/ ~r.present \/ Passive([old |-> row[d].status, new |-> r.status]),
           \/ r = row[d]
           \/ RunsNowhere(d) /\ r.status \in {"Stopped", "Failed", "Shutting-down"} /\ r.hyp = NoHyp
           \/ ~r.present /\ RunsNowhere(d) /\ r.hyp = row[d].hyp /\ r.status = row[d].status,
           ~r.present \/ d \notin erased
    PROVE  PlaceInv'
<1>1. /\ UNCHANGED <<worker, broken, listens, doing, polled, guests, events, erased, client>>
      /\ Busy(d) /\ Told(d, Head(feed[d])) /\ OthersStay(d) /\ SameNews(d)
      /\ row'[d] = r /\ row[d] \in DomainRow /\ changes = "on" /\ row[d].present
      /\ \A e \in Desktops : e # d => row'[e] = row[e]
      /\ NoTodo' /\ NoOutcome'
      /\ Ignored(d)'
  BY HeadHandled
<1>2. NoQueue'
  BY <1>1 DEF Told, NoQueue
<1>3. Truth(d)'
  <2>1. CASE r = row[d]
    BY <1>1, <2>1, SameTruth DEF Told
  <2>2. CASE r # row[d]
    BY <1>1, <2>2 DEF Truth, RunsNowhere
  <2> QED
    BY <2>1, <2>2
<1>4. Idle(d)'
  BY <1>1, <1>3 DEF Idle, RunsNowhere
<1>5. OneIsBusy'
  BY <1>1, <1>2, <1>4, ComesBackToRest
<1>6. PlaceBase'
  <2>1. \A h \in Hyps : worker[h] = "none" => queue'[h] = <<>> /\ doing'[h] = <<>>
    BY <1>1 DEF PlaceInv, PlaceBase, WorkersListen
  <2> QED
    BY <1>1, <2>1, BaseKept DEF PlaceInv
<1> QED
  BY <1>5, <1>6 DEF PlaceInv

\* The change puts an action on a queue.
LEMMA HandledQueues ==
    ASSUME TypeOK, PlaceInv, NEW d \in Desktops, NEW reactions, TakeChange(d, reactions),
           ~Passive(Head(feed[d])), NEW r \in DomainRow, Handled(d, r), UNCHANGED changes,
           NEW h \in Hyps, NEW type \in ActionTypes, Enqueue(h, type, d), worker[h] # "none",
           r.status = row[d].status \/ Passive([old |-> row[d].status, new |-> r.status]),
           d \notin erased, r.present,
           \/ r = row[d] /\ (IF type = "start_domain" THEN Gone(d)
                             ELSE type \in {"stop_domain", "shutdown_domain"} /\ OnlyAt(d, h))
           \/ Gone(d) /\ type = "delete_disk" /\ r.status = "DeletingDomainDisk" /\ r.hyp = NoHyp
    PROVE  PlaceInv'
<1>1. /\ UNCHANGED <<worker, broken, listens, doing, polled, guests, events, erased, client>>
      /\ Busy(d) /\ Told(d, Head(feed[d])) /\ OthersStay(d) /\ SameNews(d)
      /\ row'[d] = r /\ row[d] \in DomainRow /\ changes = "on" /\ row[d].present
      /\ \A e \in Desktops : e # d => row'[e] = row[e]
      /\ NoTodo' /\ NoOutcome'
      /\ Ignored(d)'
  BY HeadHandled
<1>2. /\ queue'[h] = <<[type |-> type, d |-> d]>>
      /\ \A k \in Hyps : k # h => queue'[k] = <<>>
  <2>1. queue[h] = <<>> /\ \A k \in Hyps : queue[k] = <<>>
    BY <1>1 DEF Told, NoQueue
  <2>2. PICK a : a = [type |-> type, d |-> d]
    OBVIOUS
  <2>3. Append(<<>>, a) = <<a>>
    OBVIOUS
  <2> QED
    BY <2>1, <2>2, <2>3 DEF Enqueue, TypeOK
<1>3. Truth(d)'
  <2>1. CASE r = row[d]
    BY <1>1, <2>1, SameTruth DEF Told
  <2>2. CASE r # row[d]
    BY <1>1, <2>2 DEF Truth, Gone, RunsNowhere
  <2> QED
    BY <2>1, <2>2
<1>4. Gone(d)' <=> Gone(d)
  BY <1>1, SameGone
<1>5. OnlyAt(d, h)' <=> OnlyAt(d, h)
  BY <1>1 DEF OnlyAt
<1>6. Queued(d, h, type)'
  <2>1. type = "delete_disk" => BeingDeleted(d)'
    BY <1>1, <1>4 DEF BeingDeleted
  <2> QED
    BY <1>1, <1>2, <1>3, <1>4, <1>5, <2>1 DEF Queued
<1>7. Stage(d)'
  BY <1>6 DEF Stage
<1>8. OneIsBusy'
  BY <1>1, <1>7, GoesOn
<1>9. PlaceBase'
  <2>1. \A k \in Hyps : worker[k] = "none" => queue'[k] = <<>> /\ doing'[k] = <<>>
    BY <1>1, <1>2 DEF PlaceInv, PlaceBase, WorkersListen
  <2> QED
    BY <1>1, <2>1, BaseKept DEF PlaceInv
<1> QED
  BY <1>8, <1>9 DEF PlaceInv

LEMMA IgnoresStep ==
    ASSUME TypeOK, PlaceInv, NEW d \in Desktops, IgnoresChange(d), ~Passive(Head(feed[d]))
    PROVE  PlaceInv'
<1>1. /\ TakeChange(d, {"nothing"}) /\ Handled(d, row[d]) /\ UNCHANGED <<queue, changes>>
      /\ row[d] \in DomainRow /\ Reaction(Head(feed[d])) = "nothing"
  BY DEF IgnoresChange, TakeChange, TypeOK
<1>2. Told(d, Head(feed[d]))
  BY <1>1, HeadHandled
<1>3. d \notin erased
  <2>1. Wanted(d, Head(feed[d]))
    BY <1>2 DEF Told
  <2>2. ~(Head(feed[d]).old = "DeletingDomainDisk" /\ Head(feed[d]).new = "DiskDeleted" /\ ActionsEnabled)
    BY <1>1 DEF Reaction
  <2> QED
    BY <2>1, <2>2 DEF Wanted
<1> QED
  BY <1>1, <1>3, HandledRests

LEMMA RevertsStep ==
    ASSUME HypInv, PlaceInv, NEW d \in Desktops, RevertsStatus(d)
    PROVE  PlaceInv'
<1>1. /\ TypeOK /\ TakeChange(d, {"revert"}) /\ UNCHANGED <<queue, changes>>
      /\ Handled(d, Put(row[d], Head(feed[d]).old, NoHyp))
      /\ Reaction(Head(feed[d])) = "revert" /\ feed[d] # <<>>
      /\ feed[d] \in Seq(Change) /\ row[d] \in DomainRow
  BY DEF RevertsStatus, TakeChange, HypInv, TypeOK
<1>2. ~ActionsEnabled /\ Head(feed[d]).new \in {"Starting", "Stopping", "Deleting"}
  BY <1>1 DEF Reaction
<1>3. Silence /\ Head(feed[d]) \in Change /\ Head(feed[d]).old # "Started"
  <2>1. Silence
    BY <1>2 DEF HypInv, SilentWithoutWorkers
  <2>2. feed[d] \in Seq(LaterChange)
    BY <2>1 DEF Silence
  <2>3. Head(feed[d]) \in Change
    BY <1>1, TailIndices
  <2>4. Head(feed[d]) \in LaterChange
    BY <1>1, <2>2, TailIndices
  <2> QED
    BY <2>1, <2>3, <2>4 DEF LaterChange
<1>4. ~Passive(Head(feed[d]))
  BY <1>2 DEF Passive
<1>5. PICK r \in DomainRow : r = Put(row[d], Head(feed[d]).old, NoHyp)
  <2>1. Head(feed[d]).old \in Status /\ NoHyp \in HypStarted
    BY <1>3 DEF Change, HypStarted
  <2> QED
    BY <1>1, <2>1, PutType
<1>6. Told(d, Head(feed[d])) /\ row[d].present
  BY <1>1, <1>4, <1>5, HeadHandled
<1>7. RunsNowhere(d) /\ row[d].status # "Started"
  <2>1. \A h \in Hyps : guests[h] = {}
    BY <1>2 DEF ActionsEnabled, PlaceInv, PlaceBase, WorkersListen
  <2>2. row[d] \in NotStartedRow
    BY <1>3 DEF Silence
  <2> QED
    BY <1>6, <2>1, <2>2 DEF RunsNowhere, NotStartedRow
<1>8. Head(feed[d]).old \in Down \cup Up /\ d \notin erased
  BY <1>2, <1>6 DEF Told, Wanted
<1>9. r.present /\ r.status = Head(feed[d]).old /\ r.hyp = NoHyp
  BY <1>1, <1>5, <1>6 DEF Put, DomainRow
<1>10. r.status \in {"Stopped", "Failed", "Shutting-down"}
  BY <1>3, <1>8, <1>9 DEF Down, Up
<1>11. Passive([old |-> row[d].status, new |-> r.status])
  BY <1>7, <1>10 DEF Passive
<1> QED
  BY <1>1, <1>4, <1>5, <1>7, <1>8, <1>9, <1>10, <1>11, HandledRests

LEMMA StartsStep ==
    ASSUME TypeOK, PlaceInv, "lost" \notin Faults, NEW d \in Desktops, StartsDomain(d)
    PROVE  PlaceInv'
<1>1. /\ TakeChange(d, {"start_domain"}) /\ UNCHANGED changes
      /\ Reaction(Head(feed[d])) = "start_domain" /\ feed[d] # <<>> /\ row[d] \in DomainRow
  BY DEF StartsDomain, TakeChange, TypeOK
<1>2. Head(feed[d]).new = "Starting" /\ ~Passive(Head(feed[d]))
  BY <1>1 DEF Reaction, Passive
<1>3. Told(d, Head(feed[d])) /\ Busy(d)
  BY <1>1, <1>2, ActiveHead DEF PlaceInv
<1>4. Gone(d) /\ RunsNowhere(d) /\ d \notin erased /\ row[d].present
  BY <1>2, <1>3 DEF Told, Wanted, Gone, Busy
<1>5. CASE (\E h \in Online : Enqueue(h, "start_domain", d)) /\ Handled(d, row[d])
  <2>1. PICK h \in Online : Enqueue(h, "start_domain", d)
    BY <1>5
  <2>2. h \in Hyps /\ worker[h] # "none"
    BY <2>1 DEF Online
  <2>3. "start_domain" \in ActionTypes
    BY DEF ActionTypes
  <2> QED
    BY <1>1, <1>2, <1>4, <1>5, <2>1, <2>2, <2>3, HandledQueues
<1>6. CASE Handled(d, Put(row[d], "Failed", NoHyp)) /\ UNCHANGED queue
  <2>1. PICK r \in DomainRow : r = Put(row[d], "Failed", NoHyp)
    <3>1. "Failed" \in Status /\ NoHyp \in HypStarted
      BY DEF Status, HypStarted
    <3> QED
      BY <1>1, <3>1, PutType
  <2>2. r.present /\ r.status = "Failed" /\ r.hyp = NoHyp
    BY <1>1, <1>4, <2>1 DEF Put, DomainRow
  <2>3. Passive([old |-> row[d].status, new |-> r.status])
    BY <2>2 DEF Passive
  <2> QED
    BY <1>1, <1>2, <1>4, <1>6, <2>1, <2>2, <2>3, HandledRests
<1> QED
  BY <1>5, <1>6 DEF StartsDomain

LEMMA StopsStep ==
    ASSUME TypeOK, PlaceInv, NEW d \in Desktops, StopsDomain(d)
    PROVE  PlaceInv'
<1>1. /\ TakeChange(d, {"shutdown_domain", "stop_domain"})
      /\ Reaction(Head(feed[d])) \in {"shutdown_domain", "stop_domain"} /\ feed[d] # <<>> /\ row[d] \in DomainRow
  BY DEF StopsDomain, TakeChange, TypeOK
<1>2. Head(feed[d]).new \in {"Stopping", "Shutting-down"} /\ ~Passive(Head(feed[d]))
  BY <1>1 DEF Reaction, Passive
<1>3. Told(d, Head(feed[d])) /\ Busy(d)
  BY <1>1, <1>2, ActiveHead DEF PlaceInv
<1>4. Truth(d) /\ d \notin erased /\ row[d].present
  BY <1>2, <1>3 DEF Told, Wanted, Busy
<1>5. row[d].hyp # NoHyp => row[d].hyp \in Hyps /\ worker[row[d].hyp] = "online" /\ OnlyAt(d, row[d].hyp)
  BY <1>1, <1>4 DEF PlaceInv, PlaceBase, RowsNameWorkers, DomainRow, HypStarted, Truth, OnlyAt
<1>6. /\ IF row[d].hyp = NoHyp THEN UNCHANGED queue ELSE Enqueue(row[d].hyp, Reaction(Head(feed[d])), d)
      /\ Handled(d, row[d]) /\ UNCHANGED changes
  BY <1>4, <1>5 DEF StopsDomain
<1>7. CASE row[d].hyp = NoHyp
  BY <1>1, <1>2, <1>4, <1>6, <1>7, HandledRests
<1>8. CASE row[d].hyp # NoHyp
  <2>1. PICK h \in Hyps : h = row[d].hyp
    BY <1>5, <1>8
  <2>2. PICK type \in ActionTypes : type = Reaction(Head(feed[d]))
    BY <1>1 DEF ActionTypes
  <2>3. Enqueue(h, type, d) /\ worker[h] # "none" /\ OnlyAt(d, h) /\ type \in {"stop_domain", "shutdown_domain"}
    BY <1>1, <1>5, <1>6, <1>8, <2>1, <2>2
  <2> QED
    BY <1>1, <1>2, <1>4, <1>6, <2>3, HandledQueues
<1> QED
  BY <1>7, <1>8

LEMMA DeletesStep ==
    ASSUME TypeOK, PlaceInv, NEW d \in Desktops, DeletesDisks(d)
    PROVE  PlaceInv'
<1>1. /\ TakeChange(d, {"delete_disk"}) /\ Reaction(Head(feed[d])) = "delete_disk" /\
           feed[d] # <<>> /\ row[d] \in DomainRow
  BY DEF DeletesDisks, TakeChange, TypeOK
<1>2. Head(feed[d]).new = "Deleting" /\ Head(feed[d]).old \notin Up /\ ~Passive(Head(feed[d]))
  BY <1>1 DEF Reaction, Passive, Up
<1>3. Told(d, Head(feed[d])) /\ Busy(d)
  BY <1>1, <1>2, ActiveHead DEF PlaceInv
<1>4. Gone(d) /\ RunsNowhere(d) /\ d \notin erased /\ row[d].present
  BY <1>2, <1>3 DEF Told, Wanted, Gone, Busy
<1>5. UNCHANGED changes
  BY <1>4 DEF DeletesDisks
<1>6. \A s \in {"DeletingDomainDisk", "Stopped"} :
        /\ Put(row[d], s, NoHyp) \in DomainRow /\ Put(row[d], s, NoHyp).present
        /\ Put(row[d], s, NoHyp).status = s /\ Put(row[d], s, NoHyp).hyp = NoHyp
  BY <1>1, <1>4 DEF Put, DomainRow, Status, HypStarted
<1>7. CASE (\E h \in Online : Enqueue(h, "delete_disk", d)) /\ Handled(d, Put(row[d], "DeletingDomainDisk", NoHyp))
  <2>1. PICK h \in Online : Enqueue(h, "delete_disk", d)
    BY <1>7
  <2>2. h \in Hyps /\ worker[h] # "none" /\ "delete_disk" \in ActionTypes
    BY <2>1 DEF Online, ActionTypes
  <2>3. PICK r \in DomainRow : r = Put(row[d], "DeletingDomainDisk", NoHyp)
    BY <1>6
  <2>4. r.present /\ r.status = "DeletingDomainDisk" /\ r.hyp = NoHyp
    BY <1>6, <2>3
  <2>5. Passive([old |-> row[d].status, new |-> r.status])
    BY <2>4 DEF Passive
  <2> QED
    BY <1>1, <1>2, <1>4, <1>5, <1>7, <2>1, <2>2, <2>3, <2>4, <2>5, HandledQueues
<1>8. CASE Handled(d, Put(row[d], "Stopped", NoHyp)) /\ UNCHANGED queue
  <2>1. PICK r \in DomainRow : r = Put(row[d], "Stopped", NoHyp)
    BY <1>6
  <2>2. r.present /\ r.status = "Stopped" /\ r.hyp = NoHyp
    BY <1>6, <2>1
  <2>3. Passive([old |-> row[d].status, new |-> r.status])
    BY <2>2 DEF Passive
  <2> QED
    BY <1>1, <1>2, <1>4, <1>5, <1>8, <2>1, <2>2, <2>3, HandledRests
<1> QED
  BY <1>4, <1>7, <1>8 DEF DeletesDisks

LEMMA RemovesStep ==
    ASSUME TypeOK, PlaceInv, NEW d \in Desktops, RemovesDomain(d)
    PROVE  PlaceInv'
<1>1. /\ TakeChange(d, {"remove"}) /\ Handled(d, [row[d] EXCEPT !.present = FALSE]) /\ UNCHANGED <<queue, changes>>
      /\ Reaction(Head(feed[d])) = "remove" /\ feed[d] # <<>> /\ row[d] \in DomainRow
  BY DEF RemovesDomain, TakeChange, TypeOK
<1>2. Head(feed[d]).new = "DiskDeleted" /\ ~Passive(Head(feed[d]))
  BY <1>1 DEF Reaction, Passive
<1>3. Told(d, Head(feed[d]))
  BY <1>1, <1>2, ActiveHead DEF PlaceInv
<1>4. RunsNowhere(d)
  BY <1>2, <1>3 DEF Told, Wanted, Gone
<1>5. PICK r \in DomainRow : r = [row[d] EXCEPT !.present = FALSE]
  BY <1>1 DEF DomainRow
<1>6. ~r.present /\ r.hyp = row[d].hyp /\ r.status = row[d].status
  BY <1>1, <1>5 DEF DomainRow
<1> QED
  BY <1>1, <1>2, <1>4, <1>5, <1>6, HandledRests

----------------------------------------------------------------------------
(* Workers.                                                                *)

LEMMA BootsNews ==
    ASSUME TypeOK, PlaceBase, NEW h \in Hyps, NEW d \in Desktops, Gone(d), Boots(h, d)
    PROVE  /\ RunOnce' /\ NewsAreTrue' /\ OnlyAt(d, h)' /\ d \in guests'[h]
           /\ \A k \in Hyps : ~EndWaits(d, k)'
           /\ \A k \in Hyps : k # h => guests'[k] = guests[k]
           /\ \A k \in Hyps : listens[k] # "yes" => events'[k] = <<>>
           /\ \A e \in Desktops : e # d => SameNews(e)
<1>1. PICK x \in Event : x = [d |-> d, event |-> "Started"]
  BY DEF Event
<1>2. /\ guests \in [Hyps -> SUBSET Desktops] /\ events \in [Hyps -> Seq(Event)] /\ x.d = d
      /\ \A e \in Desktops : x # Ending(e)
  BY <1>1 DEF TypeOK, Ending
<1>3. /\ guests'[h] = guests[h] \cup {d} /\ \A k \in Hyps : k # h => guests'[k] = guests[k]
      /\ \A k \in Hyps : k # h => events'[k] = events[k]
      /\ events'[h] = IF listens[h] = "yes" THEN Append(events[h], x) ELSE events[h]
  BY <1>1, <1>2 DEF Boots, Tell
<1>4. PICK n : n = Len(events[h]) + 1
  OBVIOUS
<1>5. /\ \A k \in Hyps : \A i \in DOMAIN events[k] : i \in DOMAIN events'[k] /\ events'[k][i] = events[k][i]
      /\ \A k \in Hyps : \A i \in DOMAIN events'[k] : i \in DOMAIN events[k] \/ (k = h /\ i = n /\ events'[k][i] = x)
  <2>1. events[h] \in Seq(Event)
    BY <1>2
  <2>2. /\ \A i \in DOMAIN events[h] : i \in DOMAIN Append(events[h], x) /\ Append(events[h], x)[i] = events[h][i]
        /\ \A i \in DOMAIN Append(events[h], x) : i \in DOMAIN events[h] \/ (i = n /\ Append(events[h], x)[i] = x)
    BY <1>4, <2>1, AppendIndices
  <2>3. CASE listens[h] = "yes"
    <3>1. events'[h] = Append(events[h], x)
      BY <1>3, <2>3
    <3> QED
      BY <1>3, <2>2, <3>1
  <2>4. CASE listens[h] # "yes"
    BY <1>3, <2>4
  <2> QED
    BY <2>3, <2>4
<1>6. \A k \in Hyps : d \notin guests[k] /\ ~HasNews(d, k)
  BY DEF Gone, RunsNowhere, NoNews
<1>7. OnlyAt(d, h)' /\ d \in guests'[h]
  BY <1>3, <1>6 DEF OnlyAt
<1>8. RunOnce'
  <2> SUFFICES ASSUME NEW k \in Hyps, NEW e \in guests'[k], NEW l \in Hyps, e \in guests'[l]
               PROVE  l = k
    BY DEF RunOnce, OnlyAt
  <2>1. CASE e = d
    BY <1>3, <1>6, <2>1
  <2>2. CASE e # d
    BY <1>3, <2>2 DEF PlaceBase, RunOnce, OnlyAt
  <2> QED
    BY <2>1, <2>2
<1>9. \A k \in Hyps : listens[k] # "yes" => events'[k] = <<>>
  BY <1>3 DEF PlaceBase, WorkersListen
<1>10. \A k \in Hyps, e \in Desktops : EndWaits(e, k)' <=> EndWaits(e, k)
  BY <1>2, <1>5 DEF EndWaits, Ending
<1>11. \A k \in Hyps : ~EndWaits(d, k)'
  <2>1. \A k \in Hyps : EndWaits(d, k) => HasNews(d, k)
    BY DEF EndWaits, HasNews, Ending
  <2> QED
    BY <1>6, <1>10, <2>1
<1>12. ASSUME NEW e \in Desktops, e # d
       PROVE  SameNews(e)
  <2>1. \A k \in Hyps : HasNews(e, k)' <=> HasNews(e, k)
    BY <1>2, <1>5, <1>12 DEF HasNews
  <2> QED
    BY <1>3, <1>10, <1>12, <2>1 DEF SameNews
<1>13. EndsAreLast'
  <2> SUFFICES ASSUME NEW e \in Desktops, NEW k \in Hyps, NEW i \in DOMAIN events'[k], events'[k][i] = Ending(e)
               PROVE  RunsNowhere(e)' /\
                      \A l \in Hyps : \A j \in DOMAIN events'[l] : events'[l][j] = Ending(e) => l = k /\ j = i
    BY DEF EndsAreLast, Ending
  <2>1. \A l \in Hyps : \A j \in DOMAIN events'[l] : events'[l][j] = Ending(e) =>
          j \in DOMAIN events[l] /\ events[l][j] = Ending(e)
    BY <1>2, <1>5
  <2>2. i \in DOMAIN events[k] /\ events[k][i] = Ending(e) /\ NewsAreTrue
    BY <2>1 DEF PlaceBase
  <2>3. RunsNowhere(e) /\ \A l \in Hyps : \A j \in DOMAIN events[l] : events[l][j] = Ending(e) => l = k /\ j = i
    BY <2>2, EndIsLast
  <2>4. e # d
    <3>1. EndWaits(e, k)'
      BY DEF EndWaits, Ending
    <3> QED
      BY <1>11, <3>1
  <2>5. RunsNowhere(e)'
    BY <1>3, <2>3, <2>4 DEF RunsNowhere
  <2> QED
    BY <2>1, <2>3, <2>5
<1>14. StartsAreTrue'
  <2> SUFFICES ASSUME NEW e \in Desktops, NEW k \in Hyps, NEW i \in DOMAIN events'[k],
                      events'[k][i] = [d |-> e, event |-> "Started"]
               PROVE  e \in guests'[k] \/ \E j \in DOMAIN events'[k] : j > i /\ events'[k][j] = Ending(e)
    BY DEF StartsAreTrue, Ending
  <2>1. CASE i \in DOMAIN events[k] /\ events'[k][i] = events[k][i]
    <3>1. e \in guests[k] \/ \E j \in DOMAIN events[k] : j > i /\ events[k][j] = Ending(e)
      BY <2>1, StartIsTrue DEF PlaceBase
    <3> QED
      BY <1>3, <1>5, <3>1
  <2>2. CASE k = h /\ events'[k][i] = x
    BY <1>1, <1>3, <2>2
  <2> QED
    BY <1>5, <2>1, <2>2
<1> QED
  BY <1>3, <1>7, <1>8, <1>9, <1>11, <1>12, <1>13, <1>14 DEF NewsAreTrue

\* An action is taken from the queue.
LEMMA Served ==
    ASSUME TypeOK, PlaceInv, NEW h \in Hyps, NEW type \in ActionTypes, Serve(h, type)
    PROVE  /\ UNCHANGED <<row, feed, client, changes, broken, listens, polled>>
           /\ worker[h] = "online" /\ NoQueue' /\ NoTodo'
           /\ Desktop(h) \in Desktops /\ Busy(Desktop(h)) /\ Queued(Desktop(h), h, type)
<1>1. /\ UNCHANGED <<row, feed, client, changes, broken, listens, polled>>
      /\ worker[h] = "online" /\ queue[h] # <<>> /\ Head(queue[h]).type = type
      /\ queue' = [queue EXCEPT ![h] = Tail(queue[h])]
  BY DEF Serve, tableVars
<1>2. PICK d \in Desktops, t \in ActionTypes :
        Busy(d) /\ Queued(d, h, t) /\ Head(queue[h]) = [type |-> t, d |-> d] /\ Tail(queue[h]) = <<>>
  BY <1>1, ActiveQueue DEF PlaceInv
<1>3. t = type /\ Desktop(h) = d
  BY <1>1, <1>2 DEF Desktop
<1>4. NoQueue'
  BY <1>1, <1>2 DEF Queued, NoQueue, TypeOK
<1>5. NoTodo'
  BY <1>1, <1>2 DEF Queued, NoTodo
<1> QED
  BY <1>1, <1>2, <1>3, <1>4, <1>5

\* ... and an outcome is to be written.
LEMMA ServedWorks ==
    ASSUME TypeOK, PlaceInv, NEW h \in Hyps, NEW type \in ActionTypes, Serve(h, type), UNCHANGED worker,
           NEW d \in Desktops, d = Desktop(h), NEW s \in Status,
           ToWrite(h, s, IF s \in {"Stopped", "DiskDeleted"} THEN NoHyp ELSE h),
           \A e \in Desktops : e # d => SameNews(e) /\ (e \in erased' <=> e \in erased),
           RunOnce', NewsAreTrue', \A k \in Hyps : k # h => guests'[k] \subseteq guests[k],
           \A k \in Hyps : listens[k] # "yes" => events'[k] = <<>>,
           Due(d, h, s)'
    PROVE  PlaceInv'
<1>1. /\ UNCHANGED <<row, feed, client, changes, broken, listens, polled>>
      /\ worker[h] = "online" /\ NoQueue' /\ NoTodo' /\ Busy(d) /\ Queued(d, h, type)
  BY Served
<1>2. PICK o : o = [d |-> d, status |-> s, hyp |-> IF s \in {"Stopped", "DiskDeleted"} THEN NoHyp ELSE h]
  OBVIOUS
<1>3. doing' = [doing EXCEPT ![h] = <<o>>] /\ NoOutcome
  BY <1>1, <1>2 DEF ToWrite, Queued
<1>4. doing'[h] = <<o>> /\ \A k \in Hyps : k # h => doing'[k] = <<>>
  BY <1>3 DEF TypeOK, NoOutcome
<1>5. Ignored(d)'
  BY <1>1 DEF Queued, Ignored
<1>6. Working(d, h, s)'
  BY <1>1, <1>2, <1>4, <1>5 DEF Working
<1>7. Stage(d)'
  BY <1>6 DEF Stage
<1>8. OneIsBusy'
  <2>1. OthersStay(d)
    BY <1>1 DEF OthersStay
  <2> QED
    BY <1>1, <1>7, <2>1, GoesOn DEF Busy
<1>9. WorkersListen'
  BY <1>1, <1>4 DEF PlaceInv, PlaceBase, WorkersListen, NoQueue
<1>10. RowsNameWorkers'
  BY <1>1 DEF PlaceInv, PlaceBase, RowsNameWorkers
<1> QED
  BY <1>8, <1>9, <1>10 DEF PlaceInv, PlaceBase

LEMMA LibvirtKept ==
    ASSUME PlaceBase, UNCHANGED <<guests, events>>
    PROVE  /\ RunOnce' /\ NewsAreTrue' /\ \A d \in Desktops : SameNews(d)
           /\ \A h \in Hyps : guests'[h] \subseteq guests[h]
           /\ \A h \in Hyps : listens[h] # "yes" => events'[h] = <<>>
<1>1. RunOnce'
  BY DEF PlaceBase, RunOnce, OnlyAt
<1>2. NewsAreTrue'
  BY DEF PlaceBase, NewsAreTrue, EndsAreLast, StartsAreTrue, Ending, RunsNowhere
<1>3. \A h \in Hyps : listens[h] # "yes" => events'[h] = <<>>
  BY DEF PlaceBase, WorkersListen
<1> QED
  BY <1>1, <1>2, <1>3, SameLibvirt

LEMMA WorkerStartsStep ==
    ASSUME TypeOK, PlaceInv, "describe" \notin Faults, NEW h \in Hyps, WorkerStarts(h)
    PROVE  PlaceInv'
<1>1. "start_domain" \in ActionTypes /\ {"Started", "Failed"} \subseteq Status
  BY DEF ActionTypes, Status
<1>2. Serve(h, "start_domain") /\ UNCHANGED <<worker, erased>>
  BY DEF WorkerStarts
<1>3. PICK d \in Desktops : d = Desktop(h)
  BY <1>1, <1>2, Served
<1>4. /\ UNCHANGED <<row, feed, client, changes, broken, listens, polled>>
      /\ Queued(d, h, "start_domain")
  BY <1>1, <1>2, <1>3, Served
<1>5. Gone(d) /\ Truth(d) /\ d \notin erased
  BY <1>4 DEF Queued
<1>6. CASE Boots(h, d) /\ ToWrite(h, "Started", h)
  <2>1. /\ RunOnce' /\ NewsAreTrue' /\ OnlyAt(d, h)' /\ d \in guests'[h]
        /\ \A k \in Hyps : ~EndWaits(d, k)'
        /\ \A k \in Hyps : k # h => guests'[k] = guests[k]
        /\ \A k \in Hyps : listens[k] # "yes" => events'[k] = <<>>
        /\ \A e \in Desktops : e # d => SameNews(e)
    BY <1>5, <1>6, BootsNews DEF PlaceInv
  <2>2. Due(d, h, "Started")'
    <3>1. Begun(d, h)'
      BY <1>2, <1>5, <2>1 DEF Begun
    <3> QED
      BY <3>1 DEF Due
  <2> QED
    BY <1>1, <1>2, <1>3, <1>6, <2>1, <2>2, ServedWorks
<1>7. CASE ToWrite(h, "Failed", h) /\ UNCHANGED <<guests, events>>
  <2>1. /\ RunOnce' /\ NewsAreTrue' /\ \A e \in Desktops : SameNews(e)
        /\ \A k \in Hyps : guests'[k] \subseteq guests[k]
        /\ \A k \in Hyps : listens[k] # "yes" => events'[k] = <<>>
    BY <1>7, LibvirtKept DEF PlaceInv
  <2>2. Due(d, h, "Failed")'
    <3>1. Truth(d)'
      BY <1>4, <1>5, <2>1, SameTruth
    <3>2. \A k \in Hyps : d \notin guests'[k]
      BY <1>5, <1>7 DEF Gone, RunsNowhere
    <3> QED
      BY <1>2, <1>5, <3>1, <3>2 DEF Due
  <2> QED
    BY <1>1, <1>2, <1>3, <1>7, <2>1, <2>2, ServedWorks
<1> QED
  BY <1>3, <1>6, <1>7 DEF WorkerStarts, Fault

LEMMA FindsActiveStep ==
    ASSUME TypeOK, PlaceInv, NEW h \in Hyps, WorkerFindsActive(h)
    PROVE  FALSE
<1>1. "start_domain" \in ActionTypes
  BY DEF ActionTypes
<1>2. Serve(h, "start_domain") /\ Desktop(h) \in guests[h]
  BY DEF WorkerFindsActive
<1>3. Gone(Desktop(h))
  BY <1>1, <1>2, Served DEF Queued
<1> QED
  BY <1>2, <1>3 DEF Gone, RunsNowhere

LEMMA WorkerShutsDownStep ==
    ASSUME TypeOK, PlaceInv, NEW h \in Hyps, WorkerShutsDown(h)
    PROVE  PlaceInv'
<1>1. "shutdown_domain" \in ActionTypes /\ "Shutting-down" \in Status
  BY DEF ActionTypes, Status
<1>2. Serve(h, "shutdown_domain") /\ UNCHANGED <<worker, guests, events, erased>>
  BY DEF WorkerShutsDown, libvirtVars
<1>3. PICK d \in Desktops : d = Desktop(h)
  BY <1>1, <1>2, Served
<1>4. /\ UNCHANGED <<row, feed, client, changes, broken, listens, polled>>
      /\ Queued(d, h, "shutdown_domain") /\ Busy(d) /\ NoQueue' /\ NoTodo'
  BY <1>1, <1>2, <1>3, Served
<1>5. OnlyAt(d, h) /\ Truth(d) /\ d \notin erased /\ Ignored(d) /\ NoOutcome
  BY <1>4 DEF Queued
<1>6. /\ RunOnce' /\ NewsAreTrue' /\ \A e \in Desktops : SameNews(e)
      /\ \A k \in Hyps : guests'[k] \subseteq guests[k]
      /\ \A k \in Hyps : listens[k] # "yes" => events'[k] = <<>>
  BY <1>2, LibvirtKept DEF PlaceInv
<1>7. Truth(d)'
  BY <1>4, <1>5, <1>6, SameTruth
<1>8. CASE ToWrite(h, "Shutting-down", h)
  <2>1. Due(d, h, "Shutting-down")'
    BY <1>2, <1>5, <1>7 DEF Due, OnlyAt
  <2> QED
    BY <1>1, <1>2, <1>3, <1>6, <1>8, <2>1, ServedWorks
<1>9. CASE UNCHANGED doing
  <2>1. NoOutcome' /\ Idle(d)'
    BY <1>2, <1>4, <1>5, <1>7, <1>9 DEF NoOutcome, Idle, Ignored
  <2>2. OneIsBusy'
    BY <1>2, <1>4, <1>6, <2>1, ComesBackToRest DEF OthersStay
  <2>3. PlaceBase'
    <3>1. \A k \in Hyps : worker[k] = "none" => queue'[k] = <<>> /\ doing'[k] = <<>>
      BY <1>4, <2>1 DEF NoQueue, NoOutcome
    <3> QED
      BY <1>2, <1>4, <3>1, BaseKept DEF PlaceInv
  <2> QED
    BY <2>2, <2>3 DEF PlaceInv
<1> QED
  BY <1>8, <1>9 DEF WorkerShutsDown

LEMMA WorkerStopsStep ==
    ASSUME TypeOK, PlaceInv, "destroy" \notin Faults, NEW h \in Hyps, WorkerStops(h)
    PROVE  PlaceInv'
<1>1. "stop_domain" \in ActionTypes /\ {"Stopped", "Failed"} \subseteq Status
  BY DEF ActionTypes, Status
<1>2. Serve(h, "stop_domain") /\ UNCHANGED <<worker, erased>>
  BY DEF WorkerStops
<1>3. PICK d \in Desktops : d = Desktop(h)
  BY <1>1, <1>2, Served
<1>4. /\ UNCHANGED <<row, feed, client, changes, broken, listens, polled>>
      /\ Queued(d, h, "stop_domain")
  BY <1>1, <1>2, <1>3, Served
<1>5. OnlyAt(d, h) /\ Truth(d) /\ d \notin erased
  BY <1>4 DEF Queued
<1>6. CASE d \in guests[h] /\ Ends(h, d) /\ ToWrite(h, "Stopped", NoHyp)
  <2>1. /\ RunOnce' /\ NewsAreTrue' /\ RunsNowhere(d)'
        /\ \A k \in Hyps : guests'[k] \subseteq guests[k]
        /\ \A k \in Hyps : listens[k] # "yes" => events'[k] = <<>>
        /\ \A e \in Desktops : e # d => SameNews(e)
    BY <1>6, EndsNews DEF PlaceInv
  <2>2. Due(d, h, "Stopped")'
    BY <1>2, <1>5, <2>1 DEF Due
  <2> QED
    BY <1>1, <1>2, <1>3, <1>6, <2>1, <2>2, ServedWorks
<1>7. CASE (h \in broken \/ d \notin guests[h]) /\ ToWrite(h, "Failed", h) /\ UNCHANGED <<guests, events>>
  <2>1. /\ RunOnce' /\ NewsAreTrue' /\ \A e \in Desktops : SameNews(e)
        /\ \A k \in Hyps : guests'[k] \subseteq guests[k]
        /\ \A k \in Hyps : listens[k] # "yes" => events'[k] = <<>>
    BY <1>7, LibvirtKept DEF PlaceInv
  <2>2. Due(d, h, "Failed")'
    <3>1. Truth(d)'
      BY <1>4, <1>5, <2>1, SameTruth
    <3>2. \A k \in Hyps : d \in guests'[k] => k = h /\ h \in broken'
      BY <1>4, <1>5, <1>7 DEF OnlyAt
    <3> QED
      BY <1>2, <1>5, <3>1, <3>2 DEF Due
  <2> QED
    BY <1>1, <1>2, <1>3, <1>7, <2>1, <2>2, ServedWorks
<1> QED
  BY <1>3, <1>6, <1>7 DEF WorkerStops, Fault

LEMMA WorkerDeletesDiskStep ==
    ASSUME TypeOK, PlaceInv, NEW h \in Hyps, WorkerDeletesDisk(h)
    PROVE  PlaceInv'
<1>1. "delete_disk" \in ActionTypes /\ "DiskDeleted" \in Status
  BY DEF ActionTypes, Status
<1>2. /\ Serve(h, "delete_disk") /\ UNCHANGED <<worker, guests, events>> /\ erased' = erased \cup {Desktop(h)}
      /\ ToWrite(h, "DiskDeleted", NoHyp)
  BY DEF WorkerDeletesDisk
<1>3. PICK d \in Desktops : d = Desktop(h)
  BY <1>1, <1>2, Served
<1>4. /\ UNCHANGED <<row, feed, client, changes, broken, listens, polled>>
      /\ Queued(d, h, "delete_disk")
  BY <1>1, <1>2, <1>3, Served
<1>5. BeingDeleted(d) /\ Truth(d)
  BY <1>4 DEF Queued
<1>6. /\ RunOnce' /\ NewsAreTrue' /\ \A e \in Desktops : SameNews(e)
      /\ \A k \in Hyps : guests'[k] \subseteq guests[k]
      /\ \A k \in Hyps : listens[k] # "yes" => events'[k] = <<>>
  BY <1>2, LibvirtKept DEF PlaceInv
<1>7. Due(d, h, "DiskDeleted")'
  <2>1. Truth(d)'
    BY <1>4, <1>5, <1>6, SameTruth
  <2>2. BeingDeleted(d)'
    BY <1>4, <1>5, <1>6, SameGone DEF BeingDeleted
  <2> QED
    BY <2>1, <2>2 DEF Due
<1>8. \A e \in Desktops : e # d => SameNews(e) /\ (e \in erased' <=> e \in erased)
  BY <1>2, <1>3, <1>6
<1> QED
  BY <1>1, <1>2, <1>3, <1>6, <1>7, <1>8, ServedWorks

LEMMA WorkerWritesStep ==
    ASSUME TypeOK, PlaceInv, NEW h \in Hyps, WorkerWrites(h)
    PROVE  PlaceInv'
<1>1. /\ UNCHANGED <<changes, worker, broken, listens, queue, guests, events, erased, polled>> /\ doing[h] # <<>>
      /\ doing' = [doing EXCEPT ![h] = Tail(doing[h])]
      /\ WriteRow(Head(doing[h]).d, Put(row[Head(doing[h]).d], Head(doing[h]).status, Head(doing[h]).hyp))
  BY DEF WorkerWrites, libvirtVars
<1>2. PICK d \in Desktops, s \in Status :
        /\ Busy(d) /\ Working(d, h, s) /\ Tail(doing[h]) = <<>>
        /\ Head(doing[h]) = [d |-> d, status |-> s, hyp |-> IF s \in {"Stopped", "DiskDeleted"} THEN NoHyp ELSE h]
  BY <1>1, ActiveOutcome DEF PlaceInv
<1>3. PICK g \in HypStarted : g = IF s \in {"Stopped", "DiskDeleted"} THEN NoHyp ELSE h
  BY DEF HypStarted
<1>4. row[d] \in DomainRow /\ row[d].present /\ changes = "on" /\ feed[d] \in Seq(Change)
  BY <1>2 DEF TypeOK, Busy
<1>5. PICK r \in DomainRow : r = Put(row[d], s, g)
  BY <1>4, PutType
<1>6. WriteRow(d, r) /\ r.present /\ r.status = s /\ r.hyp = g
  <2>1. Head(doing[h]).d = d /\ Head(doing[h]).status = s /\ Head(doing[h]).hyp = g
    BY <1>2, <1>3
  <2> QED
    BY <1>1, <1>4, <1>5, <2>1 DEF Put, DomainRow
<1>7. /\ row' = [row EXCEPT ![d] = r] /\ client' = client
      /\ feed'[d] = feed[d] \o Changed(row[d], r)
      /\ \A e \in Desktops : e # d => row'[e] = row[e] /\ feed'[e] = feed[e]
  BY <1>4, <1>6, NobodyIsWaiting, RowWritten DEF PlaceInv
<1>8. row'[d] = r
  BY <1>7 DEF TypeOK
<1>9. NoTodo' /\ NoQueue' /\ NoOutcome'
  BY <1>1, <1>2, <1>7 DEF Working, NoTodo, NoQueue, NoOutcome, TypeOK
<1>10. OthersStay(d) /\ SameNews(d)
  BY <1>1, <1>7, SameLibvirt DEF OthersStay
<1>11. worker[h] = "online"
  BY <1>1 DEF PlaceInv, PlaceBase, WorkersListen
<1>12. PlaceBase'
  <2>1. \A k \in Hyps : worker[k] = "none" => queue'[k] = <<>> /\ doing'[k] = <<>>
    BY <1>9 DEF NoQueue, NoOutcome
  <2>2. (r.hyp # NoHyp => worker[r.hyp] = "online") /\ (r.status = "Stopped" => r.hyp = NoHyp)
    BY <1>3, <1>6, <1>11
  <2> QED
    BY <1>1, <1>7, <1>8, <2>1, <2>2, BaseKept DEF PlaceInv
<1>13. Due(d, h, s)
  BY <1>2 DEF Working
<1>14. Gone(d)' <=> Gone(d)
  BY <1>10, SameGone
<1>15. PICK c \in Change : c = [old |-> row[d].status, new |-> s]
  BY <1>4 DEF Change, DomainRow
<1>16. /\ row[d].status = s \/ Passive(c) => Ignored(d)'
       /\ row[d].status # s => OneActive(d, c)'
  <2>1. \A i \in DOMAIN feed[d] : Passive(feed[d][i])
    BY <1>2 DEF Working, Ignored
  <2> QED
    BY <1>4, <1>6, <1>7, <1>15, <2>1, FeedEnds
<1>17. Truth(d)'
  <2>1. CASE s = "Started"
    <3>1. OnlyAt(d, h) /\ (d \in guests[h] \/ h \in broken) /\ g = h
      BY <1>3, <1>13, <2>1 DEF Due, Begun
    <3> QED
      BY <1>1, <1>6, <1>8, <2>1, <3>1 DEF Truth, OnlyAt
  <2>2. CASE s = "Failed"
    <3>1. g = h /\ \A k \in Hyps : d \in guests[k] => k = h /\ h \in broken
      BY <1>3, <1>13, <2>2 DEF Due
    <3> QED
      BY <1>1, <1>6, <1>8, <2>2, <3>1 DEF Truth
  <2>3. CASE s = "Shutting-down"
    <3>1. g = h /\ OnlyAt(d, h)
      BY <1>3, <1>13, <2>3 DEF Due
    <3> QED
      BY <1>1, <1>6, <1>8, <2>3, <3>1 DEF Truth, OnlyAt
  <2>4. CASE s \in {"Stopped", "DiskDeleted"}
    <3>1. RunsNowhere(d)
      BY <1>13, <2>4 DEF Due, BeingDeleted, Gone
    <3> QED
      BY <1>1, <1>6, <1>8, <2>4, <3>1 DEF Truth, RunsNowhere
  <2> QED
    BY <1>13, <2>1, <2>2, <2>3, <2>4 DEF Due
<1>18. CASE row[d].status = s \/ Passive(c)
  <2>1. d \notin erased
    <3>1. s = "DiskDeleted" => row[d].status = "DeletingDomainDisk"
      BY <1>13 DEF Due, BeingDeleted
    <3>2. s # "DiskDeleted"
      BY <1>15, <1>18, <3>1 DEF Passive
    <3> QED
      BY <1>13, <3>2 DEF Due, Begun
  <2>2. Idle(d)'
    BY <1>1, <1>16, <1>17, <1>18, <2>1 DEF Idle
  <2>3. OneIsBusy'
    BY <1>1, <1>2, <1>9, <1>10, <2>2, ComesBackToRest
  <2> QED
    BY <1>12, <2>3 DEF PlaceInv
<1>19. CASE row[d].status # s /\ ~Passive(c)
  <2>1. \/ s = "Shutting-down" /\ c.old = "Started" /\ d \notin erased
        \/ s = "DiskDeleted" /\ BeingDeleted(d)
    BY <1>13, <1>15, <1>19 DEF Due, Passive
  <2>2. Wanted(d, c)'
    <3>1. CASE s = "Shutting-down" /\ c.old = "Started" /\ d \notin erased
      BY <1>1, <1>15, <3>1 DEF Wanted, Up
    <3>2. CASE s = "DiskDeleted" /\ BeingDeleted(d)
      <4>1. ActionsEnabled'
        BY <1>1, <1>11 DEF ActionsEnabled
      <4>2. c.new = "DiskDeleted" /\ c.old = "DeletingDomainDisk" /\ g = NoHyp /\ Gone(d)'
        BY <1>3, <1>14, <1>15, <3>2 DEF BeingDeleted
      <4> QED
        BY <1>6, <1>8, <3>2, <4>1, <4>2 DEF Wanted
    <3> QED
      BY <2>1, <3>1, <3>2
  <2>3. Told(d, c)'
    BY <1>9, <1>16, <1>17, <1>19, <2>2 DEF Told, Passive
  <2>4. Stage(d)'
    BY <2>3 DEF Stage
  <2>5. OneIsBusy'
    BY <1>1, <1>2, <1>4, <1>6, <1>8, <1>10, <2>4, GoesOn
  <2> QED
    BY <1>12, <2>5 DEF PlaceInv
<1> QED
  BY <1>18, <1>19

----------------------------------------------------------------------------
(* Every step.                                                             *)

LEMMA PlaceInvInit == Init => PlaceInv
<1> SUFFICES ASSUME Init PROVE PlaceInv
  OBVIOUS
<1>1. /\ \A d \in Desktops : row[d] = [present |-> TRUE, status |-> "Stopped", hyp |-> NoHyp] /\
           DOMAIN feed[d] = {}
      /\ \A h \in Hyps : /\ worker[h] = "none" /\ guests[h] = {} /\ queue[h] = <<>> /\ doing[h] = <<>>
                         /\ listens[h] = "no" /\ events[h] = <<>> /\ DOMAIN events[h] = {}
      /\ changes = "off" /\ polled = {} /\ broken = {} /\ erased = {}
      /\ \A u \in Users : client[u].todo = <<>>
  BY EmptySequence DEF Init
<1>2. WorkersListen /\ RowsNameWorkers /\ RunOnce
  BY <1>1 DEF WorkersListen, RowsNameWorkers, RunOnce
<1>3. NewsAreTrue
  BY <1>1 DEF NewsAreTrue, EndsAreLast, StartsAreTrue
<1>4. \A d \in Desktops : Idle(d)
  <2>1. \A d \in Desktops : row[d].status = "Stopped"
    BY DEF Init
  <2>2. \A d \in Desktops : Truth(d)
    BY <1>1, <2>1 DEF Truth
  <2>3. \A d \in Desktops : Ignored(d)
    BY <1>1 DEF Ignored
  <2> QED
    BY <1>1, <2>2, <2>3 DEF Idle
<1>5. OneIsBusy
  BY <1>1, <1>4 DEF OneIsBusy, AtRest, NoTodo, NoQueue, NoOutcome
<1> QED
  BY <1>2, <1>3, <1>5 DEF PlaceInv, PlaceBase

LEMMA DriftsStep ==
    ASSUME PlaceInv, PlaceBase' /\ \A d \in Desktops : Drifts(d), UNCHANGED <<client, queue, doing>>,
           \A h \in Hyps : worker'[h] = "none" => worker[h] = "none", changes = "on" => changes' = "on"
    PROVE  PlaceInv'
<1>1. ActionsEnabled => ActionsEnabled'
  BY DEF ActionsEnabled
<1>2. OneIsBusy'
  BY <1>1, BusyDrifts DEF PlaceInv
<1> QED
  BY <1>2 DEF PlaceInv

LEMMA StutterStep ==
    ASSUME PlaceInv, UNCHANGED vars
    PROVE  PlaceInv'
<1>1. PlaceBase'
  <2>1. \A h \in Hyps : worker[h] = "none" => queue'[h] = <<>> /\ doing'[h] = <<>>
    BY DEF PlaceInv, PlaceBase, WorkersListen, vars
  <2> QED
    BY <2>1, BaseKept DEF PlaceInv, vars
<1>2. \A d \in Desktops : Drifts(d)
  BY SameLibvirt, SameDrifts DEF vars
<1> QED
  BY <1>1, <1>2, DriftsStep DEF vars

LEMMA UsersPlaceStep ==
    ASSUME Waiting, HypInv, PlaceInv, UsersNext
    PROVE  PlaceInv'
<1>1. TypeOK /\ "restart" \notin Ops
  BY DEF HypInv, Waiting
<1>2. CASE \E u \in Users, d \in Desktops, op \in Ops : UserReads(u, d, op)
  BY <1>1, <1>2, ReadsStep
<1>3. CASE \E u \in Users : UserWrites(u)
  BY <1>1, <1>3, WritesStep
<1>4. ASSUME NEW u \in Users, UserGivesUp(u)
      PROVE  FALSE
  BY <1>4, NobodyIsWaiting DEF UserGivesUp, NobodyWaits, PlaceInv
<1>5. CASE \E d \in Desktops : UserRemovesRow(d)
  BY <1>1, <1>5, RemovesRowStep
<1>6. ~EngineRestart
  BY <1>1 DEF EngineRestart
<1> QED
  BY <1>2, <1>3, <1>4, <1>5, <1>6 DEF UsersNext

LEMMA ChangesPlaceStep ==
    ASSUME Waiting, HypInv, PlaceInv, ChangesThread
    PROVE  PlaceInv'
<1>1. TypeOK /\ "lost" \notin Faults /\ PlaceBase /\ OneIsBusy
  BY DEF HypInv, Waiting, PlaceInv
<1>2. CASE ChangesThreadStarts
  <2>1. PlaceBase' /\ \A d \in Desktops : Drifts(d)
    BY <1>1, <1>2, StartDrifts
  <2> QED
    BY <1>2, <2>1, DriftsStep DEF ChangesThreadStarts, tableVars, workerVars
<1>3. ASSUME NEW d \in Desktops, IgnoresChange(d)
      PROVE  PlaceInv'
  <2>1. CASE Passive(Head(feed[d]))
    <3>1. PlaceBase' /\ \A e \in Desktops : Drifts(e)
      BY <1>1, <1>3, <2>1, PassiveDrifts
    <3>2. client' = client
      <4>1. changes = "on" /\ feed[d] # <<>> /\ row[d] \in DomainRow /\ Handled(d, row[d])
        BY <1>1, <1>3 DEF IgnoresChange, TakeChange, TypeOK
      <4> QED
        BY <1>1, <4>1, NobodyIsWaiting, ChangeHandled
    <3> QED
      BY <1>3, <3>1, <3>2, DriftsStep DEF IgnoresChange, TakeChange
  <2>2. CASE ~Passive(Head(feed[d]))
    BY <1>1, <1>3, <2>2, IgnoresStep
  <2> QED
    BY <2>1, <2>2
<1> QED
  BY <1>1, <1>2, <1>3, RevertsStep, StartsStep, StopsStep, DeletesStep, RemovesStep DEF ChangesThread

LEMMA LibvirtPlaceStep ==
    ASSUME Waiting, HypInv, PlaceInv, LibvirtNext
    PROVE  PlaceInv'
<1>1. TypeOK /\ "early" \notin Faults /\ "unheard" \notin Faults /\ PlaceBase
  BY DEF HypInv, Waiting, PlaceInv
<1>2. ASSUME NEW h \in Hyps, NEW d \in Desktops, GuestPowersOff(h, d)
      PROVE  PlaceInv'
  <2>1. PlaceBase' /\ \A e \in Desktops : Drifts(e)
    BY <1>1, <1>2, PowerOffDrifts
  <2> QED
    BY <1>2, <2>1, DriftsStep DEF GuestPowersOff, tableVars, workerVars
<1>3. ASSUME NEW h \in Hyps, Breaks(h), guests' = guests \/ guests' = [guests EXCEPT ![h] = {}]
      PROVE  PlaceInv'
  <2>1. PlaceBase' /\ \A e \in Desktops : Drifts(e)
    BY <1>1, <1>3, BreaksDrifts
  <2> QED
    BY <1>3, <2>1, DriftsStep DEF Breaks, tableVars
<1> QED
  BY <1>2, <1>3 DEF LibvirtNext, ConnectionBreaks, HypervisorReboots

LEMMA WorkersPlaceStep ==
    ASSUME Waiting, HypInv, PlaceInv, NEW h \in Hyps, WorkerNext(h) \/ WorkerLeaves(h) \/ EventsNext(h)
    PROVE  PlaceInv'
<1>1. TypeOK /\ {"describe", "destroy", "lost"} \cap Faults = {} /\ PlaceBase /\ OneIsBusy
  BY DEF HypInv, Waiting, PlaceInv
<1>2. CASE WorkerConnects(h)
  <2>1. PlaceBase' /\ \A d \in Desktops : Drifts(d)
    BY <1>1, <1>2, ConnectsDrifts
  <2>2. client' = client /\ changes = "on"
    <3>1. changes = "on" /\ WriteAll(feed, client, Coherent(h))
      BY <1>1, <1>2 DEF WorkerConnects, PlaceBase, WorkersListen, TypeOK
    <3> QED
      BY <1>1, <3>1, CoherentRows, RowsRewritten
  <2> QED
    BY <1>1, <1>2, <2>1, <2>2, DriftsStep DEF WorkerConnects, TypeOK
<1>3. CASE WorkerReconnects(h)
  <2>1. PlaceBase' /\ \A d \in Desktops : Drifts(d)
    BY <1>1, <1>3, ReconnectsDrifts
  <2>2. client' = client
    <3>1. changes = "on" /\ WriteAll(feed, client, Coherent(h))
      BY <1>1, <1>3 DEF WorkerReconnects, FindsBroken, PlaceBase, WorkersListen, TypeOK
    <3> QED
      BY <1>1, <3>1, CoherentRows, RowsRewritten
  <2> QED
    BY <1>3, <2>1, <2>2, DriftsStep DEF WorkerReconnects, FindsBroken
<1>4. CASE EventsRegister(h)
  <2>1. PlaceBase' /\ \A d \in Desktops : Drifts(d)
    BY <1>1, <1>4, ListensDrifts
  <2> QED
    BY <1>4, <2>1, DriftsStep DEF EventsRegister, tableVars
<1>5. CASE HandlesEvent(h)
  <2>1. PlaceBase' /\ \A d \in Desktops : Drifts(d)
    BY <1>1, <1>5, HandlesDrifts
  <2>2. client' = client
    <3>1. Notified(client, row') = client
      BY <1>1, NobodyIsWaiting, NobodyIsNotified DEF TypeOK, Requests, Tasks
    <3> QED
      BY <1>5, <3>1 DEF HandlesEvent, WriteRow, WriteAll
  <2> QED
    BY <1>5, <2>1, <2>2, DriftsStep DEF HandlesEvent, workerVars
<1>6. ~WorkerFindsActive(h)
  BY <1>1, FindsActiveStep
<1>7. ~WorkerLeaves(h) /\ ~OrchestratorMoves(h) /\ ~OrchestratorForgets(h)
  BY <1>1 DEF WorkerLeaves, Fault, OrchestratorMoves, OrchestratorForgets, HypInv, NoneLeaves
<1>8. "describe" \notin Faults /\ "destroy" \notin Faults
  BY <1>1
<1> QED
  BY <1>1, <1>2, <1>3, <1>4, <1>5, <1>6, <1>7, <1>8, WorkerStartsStep, WorkerShutsDownStep, WorkerStopsStep,
     WorkerDeletesDiskStep, WorkerWritesStep DEF WorkerNext, EventsNext

LEMMA NoServers ==
    ASSUME Waiting, PlaceInv
    PROVE  ~ServersNext
<1>1. ServersToStart = {} /\ polled = {}
  BY DEF Waiting, ServersToStart, PlaceInv, PlaceBase, WorkersListen
<1> QED
  BY <1>1 DEF ServersNext, OrchestratorFindsServers, OrchestratorStartsServer

LEMMA PlaceInvStep ==
    ASSUME Waiting
    PROVE  HypInv /\ PlaceInv /\ [Next]_vars => PlaceInv'
<1> SUFFICES ASSUME HypInv, PlaceInv, [Next]_vars PROVE PlaceInv'
  OBVIOUS
<1> QED
  BY UsersPlaceStep, ChangesPlaceStep, LibvirtPlaceStep, WorkersPlaceStep, NoServers, StutterStep DEF Next

LEMMA PlaceInvHolds ==
    ASSUME Waiting
    PROVE  Spec => [](HypInv /\ PlaceInv)
<1>1. "lost" \notin Faults
  BY DEF Waiting
<1>2. Init => HypInv /\ PlaceInv
  BY HypInvInit, PlaceInvInit
<1>3. HypInv /\ PlaceInv /\ [Next]_vars => (HypInv /\ PlaceInv)'
  BY <1>1, HypInvStep, PlaceInvStep
<1> QED
  BY <1>2, <1>3, PTL DEF Spec

----------------------------------------------------------------------------
(* What the invariant says.                                                *)

LEMMA PlaceInvTruth == TypeOK /\ PlaceInv => TruthAtRest
<1> SUFFICES ASSUME TypeOK, PlaceInv, Quiet, NEW d \in Desktops, row[d].present
             PROVE  /\ row[d].status = "Started" => Running(d) = {row[d].hyp}
                    /\ row[d].status \in {"Stopped", "Failed"} => Running(d) = {}
  BY DEF TruthAtRest
<1>1. Truth(d) /\ NoNews(d) /\ broken = {}
  BY QuietRests DEF PlaceInv, AtRest, Idle, Quiet
<1>2. \A h \in Hyps : ~EndWaits(d, h)
  BY <1>1 DEF NoNews, HasNews, EndWaits, Ending
<1>3. row[d].status = "Started" => Running(d) = {row[d].hyp}
  BY <1>1, <1>2 DEF Truth, Running
<1>4. row[d].status = "Stopped" => row[d].hyp = NoHyp
  BY DEF PlaceInv, PlaceBase, RowsNameWorkers
<1>5. row[d].status \in {"Stopped", "Failed"} => Running(d) = {}
  BY <1>1, <1>4, ConstantsAssumption DEF Truth, Running
<1> QED
  BY <1>3, <1>5

\* Users who wait for the engine find in the table where every desktop runs
\* (TruthAtRest), whatever guests, hypervisors and connections did: nothing
\* that ends is forgotten, not even what happened while nobody listened.
THEOREM TableTellsTheTruth == Waiting => (Spec => []TruthAtRest)
<1> SUFFICES ASSUME Waiting PROVE Spec => []TruthAtRest
  OBVIOUS
<1>1. HypInv /\ PlaceInv => TruthAtRest
  BY PlaceInvTruth DEF HypInv
<1> QED
  BY <1>1, PlaceInvHolds, PTL

\* Under such users the thread of the changes never meets a row that left or a
\* hypervisor that was forgotten, and does not end (ChangesThreadRuns).
THEOREM ChangesThreadGoesOn == Waiting => (Spec => []ChangesThreadRuns)
<1> SUFFICES ASSUME Waiting PROVE Spec => []ChangesThreadRuns
  OBVIOUS
<1>1. PlaceInv => ChangesThreadRuns
  BY DEF PlaceInv, PlaceBase, WorkersListen, ChangesThreadRuns
<1> QED
  BY <1>1, PlaceInvHolds, PTL

----------------------------------------------------------------------------
(* What libvirt runs goes by DesktopPlace.                                 *)

LEMMA PlacesStay ==
    ASSUME UNCHANGED <<guests, erased>>
    PROVE  UNCHANGED Places!vars
BY DEF Places!vars, Running

LEMMA PlacesEnd ==
    ASSUME NEW D \in SUBSET Desktops, UNCHANGED erased,
           \A d \in Desktops, h \in Hyps : d \in guests'[h] <=> d \in guests[h] /\ d \notin D
    PROVE  Places!Next
<1>1. \A d \in Desktops : Running(d)' = IF d \in D THEN {} ELSE Running(d)
  BY DEF Running
<1>2. [d \in Desktops |-> Running(d)]' = [d \in Desktops |-> IF d \in D THEN {} ELSE [e \in Desktops |-> Running(e)][d]]
  BY <1>1
<1>3. Places!End(D)
  BY <1>2 DEF Places!End
<1> QED
  BY <1>3 DEF Places!Next

LEMMA PlacesStart ==
    ASSUME NEW d \in Desktops, NEW h \in Hyps, UNCHANGED erased, d \notin erased, RunsNowhere(d),
           \A e \in Desktops, k \in Hyps : e \in guests'[k] <=> e \in guests[k] \/ (e = d /\ k = h)
    PROVE  Places!Next
<1>1. \A e \in Desktops : Running(e)' = IF e = d THEN {h} ELSE Running(e)
  BY DEF Running, RunsNowhere
<1>2. [e \in Desktops |-> Running(e)]' = [[e \in Desktops |-> Running(e)] EXCEPT ![d] = {h}]
  BY <1>1
<1>3. [e \in Desktops |-> Running(e)][d] = {}
  BY DEF Running, RunsNowhere
<1>4. Places!Starts(d, h)
  BY <1>2, <1>3 DEF Places!Starts
<1> QED
  BY <1>4 DEF Places!Next

LEMMA PlacesErase ==
    ASSUME NEW d \in Desktops, RunsNowhere(d), erased' = erased \cup {d}, UNCHANGED guests
    PROVE  Places!Next
<1>1. [e \in Desktops |-> Running(e)]' = [e \in Desktops |-> Running(e)]
  BY DEF Running
<1>2. [e \in Desktops |-> Running(e)][d] = {}
  BY DEF Running, RunsNowhere
<1>3. Places!Erase(d)
  BY <1>1, <1>2 DEF Places!Erase
<1> QED
  BY <1>3 DEF Places!Next

LEMMA PlacesEnds ==
    ASSUME TypeOK, RunOnce, NEW h \in Hyps, NEW d \in Desktops, d \in guests[h], Ends(h, d), UNCHANGED erased
    PROVE  Places!Next
<1>1. guests \in [Hyps -> SUBSET Desktops] /\ guests' = [guests EXCEPT ![h] = @ \ {d}]
  BY DEF TypeOK, Ends
<1>2. \A k \in Hyps : d \in guests[k] => k = h
  BY DEF RunOnce, OnlyAt
<1>3. \A e \in Desktops, k \in Hyps : e \in guests'[k] <=> e \in guests[k] /\ e \notin {d}
  BY <1>1, <1>2
<1> QED
  BY <1>3, PlacesEnd

LEMMA PlacesStep ==
    ASSUME Waiting
    PROVE  HypInv /\ PlaceInv /\ [Next]_vars => [Places!Next]_(Places!vars)
<1> SUFFICES ASSUME HypInv, PlaceInv, [Next]_vars PROVE Places!Next \/ UNCHANGED Places!vars
  OBVIOUS
<1>1. /\ TypeOK /\ RunOnce /\ guests \in [Hyps -> SUBSET Desktops]
      /\ "describe" \notin Faults /\ "restart" \notin Ops
  BY DEF HypInv, PlaceInv, PlaceBase, Waiting, TypeOK
<1>2. CASE UNCHANGED vars
  BY <1>2, PlacesStay DEF vars
<1>3. CASE UsersNext
  BY <1>1, <1>3, PlacesStay DEF UsersNext, UserReads, NewOp, UserWrites, UserGivesUp,
       UserRemovesRow, EngineRestart, libvirtVars
<1>4. CASE ChangesThread
  BY <1>4, PlacesStay DEF ChangesThread, ChangesThreadStarts, IgnoresChange, RevertsStatus,
       StartsDomain, StopsDomain,
     DeletesDisks, RemovesDomain, TakeChange, libvirtVars
<1>5. CASE LibvirtNext
  <2>1. ASSUME NEW h \in Hyps, NEW d \in Desktops, GuestPowersOff(h, d)
        PROVE  Places!Next
    BY <1>1, <2>1, PlacesEnds DEF GuestPowersOff
  <2>2. ASSUME NEW h \in Hyps, ConnectionBreaks(h)
        PROVE  UNCHANGED Places!vars
    BY <2>2, PlacesStay DEF ConnectionBreaks, Breaks
  <2>3. ASSUME NEW h \in Hyps, HypervisorReboots(h)
        PROVE  Places!Next
    <3>1. guests' = [guests EXCEPT ![h] = {}] /\ UNCHANGED erased
      BY <2>3 DEF HypervisorReboots, Breaks
    <3>2. PICK D \in SUBSET Desktops : D = guests[h]
      BY <1>1
    <3>3. \A d \in Desktops, k \in Hyps : d \in guests'[k] <=> d \in guests[k] /\ d \notin D
      BY <1>1, <3>1, <3>2 DEF RunOnce, OnlyAt
    <3> QED
      BY <3>1, <3>3, PlacesEnd
  <2> QED
    BY <1>5, <2>1, <2>2, <2>3 DEF LibvirtNext
<1>6. ASSUME NEW h \in Hyps, WorkerStarts(h)
      PROVE  Places!Next \/ UNCHANGED Places!vars
  <2>1. "start_domain" \in ActionTypes /\ Serve(h, "start_domain") /\ UNCHANGED erased
    BY <1>6 DEF ActionTypes, WorkerStarts
  <2>2. PICK d \in Desktops : d = Desktop(h)
    BY <1>1, <2>1, Served
  <2>3. RunsNowhere(d) /\ d \notin erased
    BY <1>1, <2>1, <2>2, Served DEF Queued, Gone
  <2>4. CASE Boots(h, d)
    <3>1. \A e \in Desktops, k \in Hyps : e \in guests'[k] <=> e \in guests[k] \/ (e = d /\ k = h)
      BY <1>1, <2>4 DEF Boots
    <3> QED
      BY <2>1, <2>3, <3>1, PlacesStart
  <2>5. CASE UNCHANGED guests
    BY <2>1, <2>5, PlacesStay
  <2> QED
    BY <1>6, <2>2, <2>4, <2>5 DEF WorkerStarts
<1>7. ASSUME NEW h \in Hyps, WorkerStops(h)
      PROVE  Places!Next \/ UNCHANGED Places!vars
  <2>1. "stop_domain" \in ActionTypes /\ Serve(h, "stop_domain") /\ UNCHANGED erased
    BY <1>7 DEF ActionTypes, WorkerStops
  <2>2. PICK d \in Desktops : d = Desktop(h)
    BY <1>1, <2>1, Served
  <2>3. CASE d \in guests[h] /\ Ends(h, d)
    BY <1>1, <2>1, <2>3, PlacesEnds
  <2>4. CASE UNCHANGED guests
    BY <2>1, <2>4, PlacesStay
  <2> QED
    BY <1>7, <2>2, <2>3, <2>4 DEF WorkerStops
<1>8. ASSUME NEW h \in Hyps, WorkerDeletesDisk(h)
      PROVE  Places!Next
  <2>1. /\ "delete_disk" \in ActionTypes /\ Serve(h, "delete_disk") /\ UNCHANGED guests
        /\ erased' = erased \cup {Desktop(h)}
    BY <1>8 DEF ActionTypes, WorkerDeletesDisk
  <2>2. PICK d \in Desktops : d = Desktop(h)
    BY <1>1, <2>1, Served
  <2>3. RunsNowhere(d)
    BY <1>1, <2>1, <2>2, Served DEF Queued, BeingDeleted, Gone
  <2> QED
    BY <2>1, <2>2, <2>3, PlacesErase
<1>9. ASSUME NEW h \in Hyps,
             \/ WorkerFindsActive(h) \/ WorkerShutsDown(h) \/ WorkerWrites(h) \/ WorkerConnects(h) \/ WorkerReconnects(h)
             \/ OrchestratorMoves(h) \/ OrchestratorForgets(h) \/ WorkerLeaves(h) \/ EventsNext(h)
      PROVE  UNCHANGED Places!vars
  BY <1>9, PlacesStay DEF WorkerFindsActive, WorkerShutsDown, WorkerWrites, WorkerConnects,
       WorkerReconnects, FindsBroken,
     OrchestratorMoves, OrchestratorForgets, WorkerLeaves, EventsNext, EventsRegister, HandlesEvent, libvirtVars
<1>10. ~ServersNext
  BY NoServers
<1> QED
  BY <1>2, <1>3, <1>4, <1>5, <1>6, <1>7, <1>8, <1>9, <1>10 DEF Next, WorkerNext

LEMMA PlacesInit == Init => Places!Init
<1> SUFFICES ASSUME Init PROVE Places!Init
  OBVIOUS
<1>1. \A d \in Desktops : Running(d) = {}
  BY DEF Init, Running
<1> QED
  BY <1>1 DEF Places!Init, Init

\* For every set of desktops, hypervisors and users, what libvirt runs goes by
\* DesktopPlace (KeepsPlaces): no desktop runs twice, none starts without its
\* disk, and no disk is erased under a desktop that runs.
THEOREM DesktopsKeepPlaces == Waiting => (Spec => KeepsPlaces)
<1> SUFFICES ASSUME Waiting PROVE Spec => KeepsPlaces
  OBVIOUS
<1>1. HypInv /\ PlaceInv /\ [Next]_vars => [Places!Next]_(Places!vars)
  BY PlacesStep
<1> QED
  BY <1>1, PlacesInit, PlaceInvHolds, PTL DEF Spec, KeepsPlaces, Places!Spec
=============================================================================
