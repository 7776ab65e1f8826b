---------------------------- MODULE StartProofs ----------------------------
(***************************************************************************)
(* Theorems about StartResources for every number of desktops, cards and   *)
(* VLANs, when nothing fails and users ask one thing after the other.      *)
(***************************************************************************)
EXTENDS StartResources, FiniteSetTheorems, SequenceTheorems, TLAPS

\* Users wait until what was asked for is done, nothing fails, and no id of a
\* desktop is a part of that of another one.
Patient == ~Hurried /\ Faults = {} /\ Inside = {} /\ Hyps # {}

----------------------------------------------------------------------------
(* What a desktop has when nothing is going on about it.                   *)

HasNone(d) == \A h \in Hyps : \A g \in guests[h] : g.desktop # d
HoldsNone(d) == \A u \in Uids : held[u] # d
UidIn(h, u) == u = NoUid \/ (u \in Uids /\ UidHyp(u) = h)

\* g, in h, is the guest of d, with the VLAN of the row and the uid it holds.
Runs(d, h, g) ==
    /\ h \in Hyps /\ g \in guests[h] /\ g.desktop = d /\ g.vlan = row[d].vlan
    /\ \A k \in Hyps : \A f \in guests[k] : f.desktop = d => k = h /\ f = g
    /\ UidIn(h, g.uid)
    /\ \A u \in Uids : held[u] = d <=> u = g.uid

Up(d) ==
    /\ row[d].status \in {"Started", "Shutting-down"}
    /\ \E g \in Guests : Runs(d, row[d].hyp, g)
Down(d) == row[d].status \in {"Stopped", "Failed"} /\ HasNone(d) /\ HoldsNone(d)
Settled(d) == Up(d) \/ Down(d)

----------------------------------------------------------------------------
(* What is going on about the one desktop that somebody asked something    *)
(* of.                                                                     *)

NoQueue == \A h \in Hyps : queue[h] = <<>>
NoWorker == \A h \in Hyps : worker[h] = Nothing
NoEvents == events = <<>> /\ listener = Nothing
NoFeed == feed = <<>> /\ engine = Nothing
OneQueued(h, a) == queue[h] = <<a>> /\ \A k \in Hyps : k # h => queue[k] = <<>>
OneWorks(h, w) == worker[h] = w /\ \A k \in Hyps : k # h => worker[k] = Nothing
Told(d, statuses, new) ==
    /\ engine = Nothing
    /\ \E s \in statuses : feed = <<[desktop |-> d, old |-> s, new |-> new]>>
OnlyTold(d, new) ==
    /\ engine = Nothing
    /\ \A i \in DOMAIN feed : feed[i].desktop = d /\ feed[i].new = new

StartAsked(d) ==
    /\ row[d].status = "Starting" /\ HasNone(d) /\ HoldsNone(d)
    /\ Told(d, {"Stopped", "Failed"}, "Starting") /\ NoQueue /\ NoWorker /\ NoEvents

Choosing(d) ==
    /\ row[d].status = "Starting" /\ HasNone(d) /\ HoldsNone(d)
    /\ feed = <<>> /\ engine = At("choose", d, NoHyp, NoUid) /\ NoQueue /\ NoWorker /\ NoEvents

Reserving(d, h, u) ==
    /\ row[d].status = "Starting" /\ HasNone(d) /\ HoldsNone(d)
    /\ h \in Hyps /\ UidIn(h, u) /\ (u = NoUid \/ held[u] = Free)
    /\ feed = <<>> /\ engine = At("reserve", d, h, u) /\ NoQueue /\ NoWorker /\ NoEvents

StartQueued(d, h, u) ==
    /\ row[d].status = "Starting" /\ HasNone(d)
    /\ h \in Hyps /\ UidIn(h, u) /\ (\A w \in Uids : held[w] = d <=> w = u)
    /\ OneQueued(h, [type |-> "start", desktop |-> d, uid |-> u, vlan |-> row[d].vlan])
    /\ NoFeed /\ NoWorker /\ NoEvents

Creating(d, h, g) ==
    /\ row[d].status = "Starting" /\ Runs(d, h, g)
    /\ OneWorks(h, At("started", d, h, g.uid))
    /\ NoFeed /\ NoQueue /\ NoEvents

Rising(d, h, g) ==
    /\ row[d].status = "Started" /\ row[d].hyp = h /\ Runs(d, h, g)
    /\ OneWorks(h, At("uid", d, h, g.uid)) \/ NoWorker
    /\ OnlyTold(d, "Started") /\ NoQueue /\ NoEvents

Failing(d) ==
    /\ row[d].status = "Failed" /\ HasNone(d) /\ HoldsNone(d)
    /\ OnlyTold(d, "Failed") /\ NoQueue /\ NoWorker /\ NoEvents

StopAsked(d, g) ==
    /\ row[d].status = "Stopping" /\ Runs(d, row[d].hyp, g)
    /\ Told(d, {"Started", "Shutting-down"}, "Stopping") /\ NoQueue /\ NoWorker /\ NoEvents

StopQueued(d, g) ==
    /\ row[d].status = "Stopping" /\ Runs(d, row[d].hyp, g)
    /\ OneQueued(row[d].hyp, [type |-> "stop", desktop |-> d, uid |-> NoUid, vlan |-> NoVlan])
    /\ NoFeed /\ NoWorker /\ NoEvents

ShutdownAsked(d, g) ==
    /\ row[d].status = "Shutting-down" /\ Runs(d, row[d].hyp, g)
    /\ Told(d, {"Started"}, "Shutting-down") /\ NoQueue /\ NoWorker /\ NoEvents

ShutdownQueued(d, g) ==
    /\ row[d].status = "Shutting-down" /\ Runs(d, row[d].hyp, g)
    /\ OneQueued(row[d].hyp, [type |-> "shutdown", desktop |-> d, uid |-> NoUid, vlan |-> NoVlan])
    /\ NoFeed /\ NoWorker /\ NoEvents

\* The guest has gone.  The worker and the thread of events write Stopped and
\* give the uid back, in any order, and one of them will.
Winding(d, h) ==
    /\ h \in Hyps /\ HasNone(d)
    /\ row[d].status \in {"Started", "Shutting-down", "Stopping", "Stopped"}
    /\ \A u \in Uids : held[u] = d => UidHyp(u) = h
    /\ \A k \in Hyps : k # h => worker[k] = Nothing
    /\ worker[h] \in {Nothing, At("release", d, h, NoUid), At("stopped", d, h, NoUid)}
    /\ events \in {<<>>, << <<d, h>> >>}
    /\ listener \in {Nothing, At("release", d, h, NoUid)}
    /\ OnlyTold(d, "Stopped") /\ NoQueue
    /\ row[d].status # "Stopped" => worker[h] # Nothing \/ events # <<>>
    /\ worker[h].pc = "stopped" => HoldsNone(d)
    /\ \/ HoldsNone(d) \/ worker[h].pc = "release" \/ listener # Nothing
       \/ events # <<>> /\ row[d].status # "Stopped"

Done(d) == NoFeed /\ NoQueue /\ NoWorker /\ NoEvents /\ Settled(d)

InFlight(d) ==
    \/ Done(d)
    \/ StartAsked(d) \/ Choosing(d) \/ Failing(d)
    \/ \E h \in Hyps, u \in Uids \cup {NoUid} : Reserving(d, h, u) \/ StartQueued(d, h, u)
    \/ \E h \in Hyps, g \in Guests : Creating(d, h, g) \/ Rising(d, h, g)
    \/ \E g \in Guests : StopAsked(d, g) \/ StopQueued(d, g) \/ ShutdownAsked(d, g) \/ ShutdownQueued(d, g)
    \/ \E h \in Hyps : Winding(d, h)

AllWell == online = Hyps /\ device = [u \in Uids |-> TRUE]
AtRest == NoFeed /\ NoQueue /\ NoWorker /\ NoEvents /\ \A d \in Desktops : Settled(d)
OneInFlight(d) == InFlight(d) /\ \A e \in Desktops : e # d => Settled(e)
OneAtATime == AllWell /\ (AtRest \/ \E d \in Desktops : OneInFlight(d))

\* The desktops whose VLAN is in use, or will be.
Placed(e) ==
    \/ row[e].status \in {"Started", "Shutting-down", "Stopping"}
    \/ row[e].status = "Starting" /\ feed = <<>>

Apart == \A e, f \in Desktops :
    Placed(e) /\ Placed(f) /\ User[e] # User[f] /\ row[e].vlan = row[f].vlan => row[e].vlan = NoVlan
Together == \A e, f \in Desktops :
    Placed(e) /\ Placed(f) => row[e].vlan # NoVlan /\ (User[e] = User[f] => row[e].vlan = row[f].vlan)

----------------------------------------------------------------------------
(* Types.                                                                  *)

\* What a thread is at is about a desktop, and a reservation about a
\* hypervisor.
Named(p) == p.pc = "idle" \/ (p.desktop \in Desktops /\ (p.pc = "reserve" => p.hyp \in Hyps))
Types == TypeOK /\ Named(engine) /\ Named(listener) /\ \A h \in Hyps : Named(worker[h])

LEMMA NothingIsPlace == Nothing \in Places /\ Named(Nothing)
BY DEF Nothing, Places, Named

LEMMA NoUidIsNone == NoUid \notin Uids
<1>1. 0 \notin 1..PerCard
  OBVIOUS
<1> QED
  BY <1>1 DEF NoUid, Uids

LEMMA AtIsPlace ==
    ASSUME NEW pc \in {"choose", "reserve", "dead", "started", "uid", "release", "stopped"},
           NEW d \in Desktops, NEW h \in Hyps \cup {NoHyp}, NEW u \in Uids \cup {NoUid},
           pc = "reserve" => h \in Hyps
    PROVE  At(pc, d, h, u) \in Places /\ Named(At(pc, d, h, u))
BY DEF At, Places, Named

\* A thread that goes on to the next step knows what it knew.
LEMMA NextIsPlace ==
    ASSUME NEW p \in Places, Named(p), p.pc # "idle", NEW pc \in {"uid", "stopped"}
    PROVE  [p EXCEPT !.pc = pc] \in Places /\ Named([p EXCEPT !.pc = pc])
BY DEF Places, Named

LEMMA SetToSeqIsSeq ==
    ASSUME NEW S, IsFiniteSet(S)
    PROVE  SetToSeq(S) \in Seq(S)
<1>1. Cardinality(S) \in Nat /\ ExistsBijection(1..Cardinality(S), S)
  BY FS_CardinalityType
<1>2. \E f \in [1..Cardinality(S) -> S] : IsInjective(f)
  BY <1>1 DEF ExistsBijection, Bijection, Injection, Surjection
<1>3. SetToSeq(S) \in [1..Cardinality(S) -> S]
  BY <1>2 DEF SetToSeq
<1> QED
  BY <1>1, <1>3, IsASeq

\* The changes that are told when many rows are written at once.
LEMMA ChangesAreSeq ==
    ASSUME Assumption, TypeOK, NEW D \in SUBSET Desktops, NEW f \in [D -> Changes],
           feed' = feed \o SetToSeq({f[d] : d \in D})
    PROVE  feed' \in Seq(Changes)
<1>1. IsFiniteSet(D)
  BY FS_Subset DEF Assumption
<1>2. f \in Surjection(D, {f[d] : d \in D})
  BY DEF Surjection
<1>3. IsFiniteSet({f[d] : d \in D})
  BY <1>1, <1>2, FS_Surjection
<1>4. SetToSeq({f[d] : d \in D}) \in Seq(Changes)
  BY <1>3, SetToSeqIsSeq
<1> QED
  BY <1>4, ConcatProperties DEF TypeOK

LEMMA PutTypes ==
    ASSUME TypeOK, NEW d \in Desktops, NEW s \in Statuses, NEW h \in Hyps \cup {NoHyp}, Put(d, s, h)
    PROVE  row' \in [Desktops -> Rows] /\ feed' \in Seq(Changes)
<1>1. row[d] \in Rows /\ feed \in Seq(Changes)
  BY DEF TypeOK
<1>2. row[d].status \in Statuses /\ row[d].vlan \in Vlans \cup {NoVlan}
  BY <1>1 DEF Rows
<1>3. [status |-> s, hyp |-> h, vlan |-> IF s = "Stopped" THEN NoVlan ELSE row[d].vlan] \in Rows
  BY <1>2 DEF Rows
<1>4. [desktop |-> d, old |-> row[d].status, new |-> s] \in Changes
  BY <1>2 DEF Changes
<1>5. Append(feed, [desktop |-> d, old |-> row[d].status, new |-> s]) \in Seq(Changes)
  BY <1>1, <1>4, AppendProperties
<1>6. row' \in [Desktops -> Rows]
  BY <1>3 DEF Put, PutRow, TypeOK
<1> QED
  BY <1>1, <1>5, <1>6 DEF Put, Tell

LEMMA AsksTypes ==
    ASSUME Assumption, Types, NEW d \in Desktops, AsksStart(d) \/ AsksStop(d) \/ AsksShutdown(d)
    PROVE  Types'
<1>1. PICK s \in {"Starting", "Stopping", "Shutting-down"} :
        /\ row' = [row EXCEPT ![d].status = s] /\ Tell(d, s)
        /\ ops < MaxOps /\ ops' = ops + 1 /\ UNCHANGED userVars
  BY DEF AsksStart, AsksStop, AsksShutdown, Asks
<1>2. row[d] \in Rows /\ feed \in Seq(Changes) /\ s \in Statuses
  BY DEF Types, TypeOK, Statuses
<1>3. [row[d] EXCEPT !.status = s] \in Rows /\ row[d].status \in Statuses
  BY <1>2 DEF Rows
<1>4. row' \in [Desktops -> Rows]
  BY <1>1, <1>3 DEF Types, TypeOK
<1>5. [desktop |-> d, old |-> row[d].status, new |-> s] \in Changes
  BY <1>2, <1>3 DEF Changes
<1>6. Append(feed, [desktop |-> d, old |-> row[d].status, new |-> s]) \in Seq(Changes)
  BY <1>2, <1>5, AppendProperties
<1>7. feed' \in Seq(Changes)
  BY <1>1, <1>2, <1>6 DEF Tell
<1>8. ops' \in 0..MaxOps
  BY <1>1 DEF Assumption, Types, TypeOK
<1> QED
  BY <1>1, <1>4, <1>7, <1>8 DEF Types, TypeOK, Named, userVars

LEMMA HeadTail ==
    ASSUME NEW S, NEW s \in Seq(S), s # <<>>
    PROVE  Head(s) \in S /\ Tail(s) \in Seq(S)
BY HeadTailProperties

LEMMA GuestEndsTypes ==
    ASSUME Assumption, Types, NEW h \in Hyps, GuestEnds(h)
    PROVE  Types'
<1>1. PICK g \in guests[h] :
        /\ guests' = [guests EXCEPT ![h] = @ \ {g}]
        /\ events' = IF h \in online THEN Append(events, <<g.desktop, h>>) ELSE events
  BY DEF GuestEnds
<1>2. g \in Guests /\ events \in Seq(Desktops \X Hyps)
  BY DEF Types, TypeOK
<1>3. <<g.desktop, h>> \in Desktops \X Hyps
  BY <1>2 DEF Guests
<1>4. Append(events, <<g.desktop, h>>) \in Seq(Desktops \X Hyps)
  BY <1>2, <1>3, AppendProperties
<1>5. guests' \in [Hyps -> SUBSET Guests]
  BY <1>1 DEF Types, TypeOK
<1>6. ops' \in 0..MaxOps
  BY DEF Assumption, GuestEnds, Asks, Types, TypeOK
<1>7. events' \in Seq(Desktops \X Hyps)
  BY <1>1, <1>2, <1>4
<1>8. UNCHANGED <<row, feed, engine, held, device, queue, worker, listener, online, faults>>
  BY DEF GuestEnds
<1> QED
  BY <1>5, <1>6, <1>7, <1>8 DEF Types, TypeOK, Named
\* The least VLAN of those that nobody has.
LEMMA LeastVlan ==
    ASSUME Assumption, NEW some \in SUBSET Vlans, some # {}
    PROVE  (CHOOSE v \in some : \A w \in some : v <= w) \in some
BY DEF Assumption

LEMMA VlansForTypes ==
    ASSUME Assumption, TypeOK, NEW d \in Desktops
    PROVE  VlansFor(d) \subseteq Vlans \cup {NoVlan}
<1> DEFINE some == Vlans \ ActiveVlans
           least == IF some = {} THEN {NoVlan} ELSE {CHOOSE v \in some : \A w \in some : v <= w}
<1>1. least \subseteq Vlans \cup {NoVlan}
  BY LeastVlan
<1>2. \A e \in UpOf(d) : row[e].vlan \in Vlans \cup {NoVlan}
  BY DEF UpOf, TypeOK, Rows
<1>3. VlansFor(d) = IF UpOf(d) = {} THEN least
                    ELSE UNION {IF row[e].vlan = NoVlan THEN least ELSE {row[e].vlan} : e \in UpOf(d)}
  BY DEF VlansFor
<1> HIDE DEF least
<1> QED
  BY <1>1, <1>2, <1>3

LEMMA TakesVlanTypes ==
    ASSUME Assumption, Types, NEW d \in Desktops, TakesVlan(d)
    PROVE  Types'
<1>1. PICK v \in Vlans \cup {NoVlan} : row' = [row EXCEPT ![d].vlan = v]
  BY VlansForTypes DEF TakesVlan, Types
<1>2. row[d] \in Rows
  BY DEF Types, TypeOK
<1>3. [row[d] EXCEPT !.vlan = v] \in Rows
  BY <1>2 DEF Rows
<1>4. row' \in [Desktops -> Rows]
  BY <1>1, <1>3 DEF Types, TypeOK
<1>5. engine' \in Places /\ Named(engine)'
  BY AtIsPlace DEF TakesVlan
<1>6. feed' \in Seq(Changes)
  BY HeadTail DEF TakesVlan, Change, Types, TypeOK
<1>7. UNCHANGED <<held, queue, faults>> /\ UNCHANGED engineVars
  BY DEF TakesVlan
<1> QED
  BY <1>4, <1>5, <1>6, <1>7 DEF Types, TypeOK, Named, engineVars

LEMMA UidsToTakeTypes ==
    ASSUME NEW hyps, NEW d
    PROVE  \A u \in UidsToTake(hyps, d) : u \in Uids /\ held[u] = Free /\ UidHyp(u) \in hyps
<1>1. \A c \in Cards : \A u \in FreeOf(c) : u \in Uids /\ u[1] = c /\ held[u] = Free
  BY DEF FreeOf
<1>2. \A u \in UidsToTake(hyps, d) : \E c \in Cards : HypOf[c] \in hyps /\ u \in FreeOf(c)
  BY DEF UidsToTake
<1> QED
  BY <1>1, <1>2 DEF UidHyp

LEMMA CandidatesTypes ==
    ASSUME TypeOK, NEW d
    PROVE  CandidatesOf(d) \subseteq Hyps
BY DEF CandidatesOf, TypeOK

LEMMA ChoosesHypTypes ==
    ASSUME Assumption, Types, ChoosesHyp
    PROVE  Types'
<1>1. engine.pc = "choose" /\ engine.desktop \in Desktops
  BY DEF ChoosesHyp, Types, Named
<1>2. PICK d \in Desktops : d = engine.desktop
  BY <1>1
<1>3. UNCHANGED <<held, queue, faults>> /\ UNCHANGED engineVars
  BY DEF ChoosesHyp
<1>4. \/ /\ UNCHANGED <<row, feed>>
         /\ \E h \in Hyps, u \in Uids \cup {NoUid} : engine' = At("reserve", d, h, u)
      \/ Put(d, "Failed", NoHyp) /\ engine' = Nothing
      \/ UNCHANGED <<row, feed>> /\ engine' = At("dead", d, NoHyp, NoUid)
  <2>1. \A u \in UidsToTake(CandidatesOf(d), d) : u \in Uids /\ UidHyp(u) \in Hyps
    BY CandidatesTypes, UidsToTakeTypes DEF Types
  <2>2. CandidatesOf(d) \subseteq Hyps
    BY CandidatesTypes DEF Types
  <2> QED
    BY <1>2, <2>1, <2>2 DEF ChoosesHyp
<1>5. engine' \in Places /\ Named(engine)'
  BY <1>4, AtIsPlace, NothingIsPlace
<1>6. row' \in [Desktops -> Rows] /\ feed' \in Seq(Changes)
  BY <1>4, PutTypes DEF Types, TypeOK, Statuses
<1> QED
  BY <1>3, <1>5, <1>6 DEF Types, TypeOK, Named, engineVars

LEMMA QueueTypes ==
    ASSUME TypeOK, NEW h \in Hyps, NEW a \in Actions, queue' = [queue EXCEPT ![h] = Append(@, a)]
    PROVE  queue' \in [Hyps -> Seq(Actions)]
BY AppendProperties DEF TypeOK

LEMMA ReservesTypes ==
    ASSUME Assumption, Types, Reserves
    PROVE  Types'
<1>1. engine.pc = "reserve" /\ engine \in Places /\ engine.desktop \in Desktops /\ engine.hyp \in Hyps
  BY DEF Reserves, TakesUid, Types, TypeOK, Named
<1>2. engine.uid \in Uids \cup {NoUid}
  BY <1>1 DEF Places
<1>3. row[engine.desktop].vlan \in Vlans \cup {NoVlan}
  BY <1>1 DEF Types, TypeOK, Rows
<1>4. [type |-> "start", desktop |-> engine.desktop, uid |-> engine.uid, vlan |-> row[engine.desktop].vlan] \in Actions
  BY <1>1, <1>2, <1>3 DEF Actions
<1>5. queue' \in [Hyps -> Seq(Actions)]
  BY <1>1, <1>4, QueueTypes DEF Reserves, TakesUid, Types
<1>6. held' \in [Uids -> Desktops \cup {Free}]
  BY <1>1, <1>2 DEF Reserves, TakesUid, Types, TypeOK
<1>7. engine' \in Places /\ Named(engine)'
  BY NothingIsPlace DEF Reserves, TakesUid
<1>8. UNCHANGED <<row, feed, faults>> /\ UNCHANGED engineVars
  BY DEF Reserves, TakesUid
<1> QED
  BY <1>5, <1>6, <1>7, <1>8 DEF Types, TypeOK, Named, engineVars

LEMMA HandlesStopTypes ==
    ASSUME Assumption, Types, NEW d \in Desktops, HandlesStop(d)
    PROVE  Types'
<1>1. row[d].hyp \in Hyps \cup {NoHyp}
  BY DEF Types, TypeOK, Rows
<1>2. [type |-> ActionOf(Head(feed)), desktop |-> d, uid |-> NoUid, vlan |-> NoVlan] \in Actions
  BY DEF Actions, ActionOf
<1>3. queue' \in [Hyps -> Seq(Actions)]
  <2>1. CASE row[d].hyp = NoHyp
    BY <2>1 DEF HandlesStop, Types, TypeOK
  <2>2. CASE row[d].hyp # NoHyp
    BY <1>1, <1>2, <2>2, QueueTypes DEF HandlesStop, Types
  <2> QED
    BY <2>1, <2>2
<1>4. feed' \in Seq(Changes)
  BY HeadTail DEF HandlesStop, Change, Types, TypeOK
<1>5. UNCHANGED <<row, engine, held, faults>> /\ UNCHANGED engineVars
  BY DEF HandlesStop
<1> QED
  BY <1>3, <1>4, <1>5 DEF Types, TypeOK, Named, engineVars

LEMMA IgnoresChangeTypes ==
    ASSUME Assumption, Types, NEW d \in Desktops, IgnoresChange(d)
    PROVE  Types'
<1>1. feed' \in Seq(Changes)
  BY HeadTail DEF IgnoresChange, Change, Types, TypeOK
<1>2. UNCHANGED <<row, engine, held, queue, faults>> /\ UNCHANGED engineVars
  BY DEF IgnoresChange
<1> QED
  BY <1>1, <1>2 DEF Types, TypeOK, Named, engineVars

LEMMA RevertsChangeTypes ==
    ASSUME Assumption, Types, NEW d \in Desktops, RevertsChange(d)
    PROVE  Types'
<1>1. PICK c \in Changes : c = Head(feed)
  BY HeadTail DEF RevertsChange, Types, TypeOK
<1>2. Tail(feed) \in Seq(Changes)
  BY HeadTail DEF RevertsChange, Types, TypeOK
<1>3. row[d] \in Rows /\ c.old \in Statuses
  BY <1>1 DEF Types, TypeOK, Changes
<1>4. row[d].status \in Statuses /\ row[d].vlan \in Vlans \cup {NoVlan}
  BY <1>3 DEF Rows
<1>5. [status |-> c.old, hyp |-> NoHyp, vlan |-> IF c.old = "Stopped" THEN NoVlan ELSE row[d].vlan] \in Rows
  BY <1>3, <1>4 DEF Rows
<1>6. [desktop |-> d, old |-> row[d].status, new |-> c.old] \in Changes
  BY <1>3, <1>4 DEF Changes
<1>7. Append(Tail(feed), [desktop |-> d, old |-> row[d].status, new |-> c.old]) \in Seq(Changes)
  BY <1>2, <1>6, AppendProperties
<1>8. row' \in [Desktops -> Rows]
  BY <1>1, <1>5 DEF RevertsChange, PutRow, Types, TypeOK
<1>9. feed' \in Seq(Changes)
  BY <1>1, <1>2, <1>7 DEF RevertsChange
<1>10. UNCHANGED <<engine, held, queue, faults>> /\ UNCHANGED engineVars
  BY DEF RevertsChange
<1> QED
  BY <1>8, <1>9, <1>10 DEF Types, TypeOK, Named, engineVars
LEMMA FaultTypes ==
    ASSUME Assumption, TypeOK, NEW f, Fault(f)
    PROVE  faults' \in 0..MaxFaults
BY DEF Fault, TypeOK, Assumption

LEMMA PopsTypes ==
    ASSUME TypeOK, NEW h \in Hyps, queue[h] # <<>>, Pops(h)
    PROVE  queue' \in [Hyps -> Seq(Actions)]
BY HeadTail DEF Pops, TypeOK

LEMMA HeadIsAction ==
    ASSUME TypeOK, NEW h \in Hyps, NEW type, HeadIs(h, type)
    PROVE  /\ Head(queue[h]) \in Actions /\ Head(queue[h]).desktop \in Desktops
           /\ Head(queue[h]).uid \in Uids \cup {NoUid} /\ Head(queue[h]).vlan \in Vlans \cup {NoVlan}
           /\ queue[h] # <<>> /\ worker[h] = Nothing /\ Head(queue[h]).type = type
<1>1. queue[h] \in Seq(Actions) /\ queue[h] # <<>>
  BY DEF HeadIs, TypeOK
<1>2. Head(queue[h]) \in Actions
  BY <1>1, HeadTail
<1> QED
  BY <1>1, <1>2 DEF HeadIs, Actions

LEMMA WorkerStepTypes ==
    ASSUME Types, NEW h \in Hyps, NEW p \in Places, Named(p), worker' = [worker EXCEPT ![h] = p]
    PROVE  worker' \in [Hyps -> Places] /\ \A k \in Hyps : Named(worker[k])'
BY DEF Types, TypeOK, Named

LEMMA CreatesGuestTypes ==
    ASSUME Assumption, Types, NEW h \in Hyps, CreatesGuest(h)
    PROVE  Types'
<1>1. PICK a \in Actions : a = Head(queue[h])
  BY HeadIsAction DEF CreatesGuest, Types
<1>2. a.desktop \in Desktops /\ a.uid \in Uids \cup {NoUid} /\ a.vlan \in Vlans \cup {NoVlan} /\ queue[h] # <<>>
  BY <1>1, HeadIsAction DEF CreatesGuest, Types
<1>3. /\ guests' = [guests EXCEPT ![h] = @ \cup {[desktop |-> a.desktop, uid |-> a.uid, vlan |-> a.vlan]}]
      /\ worker' = [worker EXCEPT ![h] = At("started", a.desktop, h, a.uid)] /\ Pops(h)
      /\ UNCHANGED <<row, feed, held, events, faults>> /\ UNCHANGED workerVars
  BY <1>1 DEF CreatesGuest
<1>4. [desktop |-> a.desktop, uid |-> a.uid, vlan |-> a.vlan] \in Guests
  BY <1>2 DEF Guests
<1>5. guests' \in [Hyps -> SUBSET Guests]
  BY <1>3, <1>4 DEF Types, TypeOK
<1>6. At("started", a.desktop, h, a.uid) \in Places /\ Named(At("started", a.desktop, h, a.uid))
  BY <1>2, AtIsPlace
<1>7. worker' \in [Hyps -> Places] /\ \A k \in Hyps : Named(worker[k])'
  BY <1>3, <1>6, WorkerStepTypes
<1>8. queue' \in [Hyps -> Seq(Actions)]
  BY <1>2, <1>3, PopsTypes DEF Types
<1> QED
  BY <1>3, <1>5, <1>7, <1>8 DEF Types, TypeOK, Named, workerVars

\* A worker answers an action, or gives it up, with one write.
LEMMA WorkerPutsTypes ==
    ASSUME Assumption, Types, NEW h \in Hyps, NEW d \in Desktops, NEW s \in Statuses, NEW k \in Hyps \cup {NoHyp},
           NEW type, HeadIs(h, type), Pops(h), Put(d, s, k) \/ UNCHANGED <<row, feed>>,
           faults' \in 0..MaxFaults, UNCHANGED <<held, worker, guests, events>>, UNCHANGED workerVars
    PROVE  Types'
<1>1. row' \in [Desktops -> Rows] /\ feed' \in Seq(Changes)
  BY PutTypes DEF Types, TypeOK
<1>2. queue' \in [Hyps -> Seq(Actions)]
  BY PopsTypes, HeadIsAction DEF Types
<1> QED
  BY <1>1, <1>2 DEF Types, TypeOK, Named, workerVars

LEMMA CreationFailsTypes ==
    ASSUME Assumption, Types, NEW h \in Hyps, CreationFails(h)
    PROVE  Types'
<1>1. Head(queue[h]).desktop \in Desktops
  BY HeadIsAction DEF CreationFails, Types
<1>2. faults' \in 0..MaxFaults
  BY FaultTypes DEF CreationFails, Types, TypeOK
<1> QED
  BY <1>1, <1>2, WorkerPutsTypes DEF CreationFails, Statuses

LEMMA FindsActiveTypes ==
    ASSUME Assumption, Types, NEW h \in Hyps, FindsActive(h)
    PROVE  Types'
<1>1. PICK d \in Desktops : Put(d, "Started", h)
  BY DEF FindsActive
<1>2. faults' \in 0..MaxFaults
  BY DEF FindsActive, Types, TypeOK
<1> QED
  BY <1>1, <1>2, WorkerPutsTypes DEF FindsActive, Statuses

LEMMA PressesButtonTypes ==
    ASSUME Assumption, Types, NEW h \in Hyps, PressesButton(h)
    PROVE  Types'
<1>1. Head(queue[h]).desktop \in Desktops
  BY HeadIsAction DEF PressesButton, Types
<1>2. faults' \in 0..MaxFaults
  BY DEF PressesButton, Types, TypeOK
<1>3. Put(Head(queue[h]).desktop, "Shutting-down", h) \/ UNCHANGED <<row, feed>>
  BY DEF PressesButton
<1> QED
  BY <1>1, <1>2, <1>3, WorkerPutsTypes DEF PressesButton, Statuses

LEMMA DestroysGuestTypes ==
    ASSUME Assumption, Types, NEW h \in Hyps, DestroysGuest(h)
    PROVE  Types'
<1>1. PICK d \in Desktops : d = Head(queue[h]).desktop
  BY HeadIsAction DEF DestroysGuest, Types
<1>2. HeadIs(h, "stop") /\ Pops(h) /\ UNCHANGED <<held, faults>> /\ UNCHANGED workerVars
  BY DEF DestroysGuest
<1>3. CASE Running(d, h)
  <2>1. /\ guests' = [guests EXCEPT ![h] = @ \ {GuestOf(d, h)}]
        /\ events' = Append(events, <<d, h>>)
        /\ worker' = [worker EXCEPT ![h] = At("release", d, h, NoUid)] /\ UNCHANGED <<row, feed>>
    BY <1>1, <1>3 DEF DestroysGuest
  <2>2. guests' \in [Hyps -> SUBSET Guests]
    BY <2>1 DEF Types, TypeOK
  <2>3. <<d, h>> \in Desktops \X Hyps /\ events \in Seq(Desktops \X Hyps)
    BY DEF Types, TypeOK
  <2>4. events' \in Seq(Desktops \X Hyps)
    BY <2>1, <2>3, AppendProperties
  <2>5. At("release", d, h, NoUid) \in Places /\ Named(At("release", d, h, NoUid))
    BY AtIsPlace
  <2>6. worker' \in [Hyps -> Places] /\ \A k \in Hyps : Named(worker[k])'
    BY <2>1, <2>5, WorkerStepTypes
  <2>7. queue' \in [Hyps -> Seq(Actions)]
    BY <1>2, PopsTypes, HeadIsAction DEF Types
  <2> QED
    BY <1>2, <2>1, <2>2, <2>4, <2>6, <2>7 DEF Types, TypeOK, Named, workerVars
<1>4. CASE ~Running(d, h)
  <2>1. Put(d, "Failed", h) /\ UNCHANGED <<guests, events, worker>>
    BY <1>1, <1>4 DEF DestroysGuest
  <2>2. faults' \in 0..MaxFaults
    BY <1>2 DEF Types, TypeOK
  <2> QED
    BY <1>2, <2>1, <2>2, WorkerPutsTypes DEF Statuses
<1> QED
  BY <1>3, <1>4

LEMMA WorkerStepsTypes ==
    ASSUME Assumption, Types, NEW h \in Hyps,
           WritesStarted(h) \/ WritesUid(h) \/ WorkerReleases(h) \/ WritesStopped(h)
    PROVE  Types'
<1>1. worker[h] \in Places /\ Named(worker[h]) /\ worker[h].pc \in {"started", "uid", "release", "stopped"}
  BY DEF WritesStarted, WritesUid, TakesUid, WorkerReleases, WritesStopped, Types, TypeOK
<1>2. PICK d \in Desktops : d = worker[h].desktop
  BY <1>1 DEF Named
<1>3. worker' \in [Hyps -> Places] /\ \A k \in Hyps : Named(worker[k])'
  <2>1. \E p \in Places : Named(p) /\ worker' = [worker EXCEPT ![h] = p]
    BY <1>1, NextIsPlace, NothingIsPlace DEF WritesStarted, WritesUid, TakesUid, WorkerReleases, WritesStopped
  <2> QED
    BY <2>1, WorkerStepTypes
<1>4. row' \in [Desktops -> Rows] /\ feed' \in Seq(Changes)
  <2>1. Put(d, "Started", h) \/ Put(d, "Stopped", NoHyp) \/ UNCHANGED <<row, feed>>
    BY <1>2 DEF WritesStarted, WritesUid, TakesUid, WorkerReleases, WritesStopped
  <2> QED
    BY <2>1, PutTypes DEF Types, TypeOK, Statuses
<1>5. held' \in [Uids -> Desktops \cup {Free}]
  <2>1. CASE UNCHANGED held
    BY <2>1 DEF Types, TypeOK
  <2>2. CASE WritesUid(h)
    BY <1>1, <1>2, <2>2 DEF WritesUid, TakesUid, Types, TypeOK
  <2>3. CASE WorkerReleases(h)
    BY <2>3 DEF WorkerReleases, Release, ReleaseOwn, Types, TypeOK
  <2> QED
    BY <2>1, <2>2, <2>3 DEF WritesStarted, WritesStopped
<1>6. UNCHANGED <<queue, guests, events, faults>> /\ UNCHANGED workerVars
  BY DEF WritesStarted, WritesUid, TakesUid, WorkerReleases, WritesStopped
<1> QED
  BY <1>3, <1>4, <1>5, <1>6 DEF Types, TypeOK, Named, workerVars

LEMMA EventTypes ==
    ASSUME Assumption, Types, HandlesEvent \/ EventReleases
    PROVE  Types'
<1>1. CASE HandlesEvent
  <2>1. Head(events) \in Desktops \X Hyps /\ Tail(events) \in Seq(Desktops \X Hyps)
    BY <1>1, HeadTail DEF HandlesEvent, Types, TypeOK
  <2>2. PICK d \in Desktops, h \in Hyps : d = Head(events)[1] /\ h = Head(events)[2]
    BY <2>1
  <2>3. /\ \/ UNCHANGED <<row, feed, listener>>
           \/ Put(d, "Stopped", NoHyp) /\ listener' = At("release", d, h, NoUid)
        /\ events' = Tail(events) /\ UNCHANGED held /\ UNCHANGED listenerVars
    BY <1>1, <2>2 DEF HandlesEvent
  <2>4. row' \in [Desktops -> Rows] /\ feed' \in Seq(Changes)
    BY <2>3, PutTypes DEF Types, TypeOK, Statuses
  <2>5. listener' \in Places /\ Named(listener)'
    BY <2>3, AtIsPlace DEF Types, TypeOK, Named
  <2> QED
    BY <2>1, <2>3, <2>4, <2>5 DEF Types, TypeOK, Named, listenerVars
<1>2. CASE EventReleases
  <2>1. held' \in [Uids -> Desktops \cup {Free}]
    BY <1>2 DEF EventReleases, ReleaseAtEvent, ReleaseOwn, Types, TypeOK
  <2>2. listener' \in Places /\ Named(listener)'
    BY <1>2, NothingIsPlace DEF EventReleases
  <2>3. UNCHANGED <<row, feed, events>> /\ UNCHANGED listenerVars
    BY <1>2 DEF EventReleases
  <2> QED
    BY <2>1, <2>2, <2>3 DEF Types, TypeOK, Named, listenerVars
<1> QED
  BY <1>1, <1>2

LEMMA LeaveTypes ==
    ASSUME Assumption, TypeOK, NEW h \in Hyps, Leave(h)
    PROVE  row' \in [Desktops -> Rows] /\ feed' \in Seq(Changes) /\ online' \subseteq Hyps
<1> DEFINE D == {d \in Desktops : row[d].hyp = h /\ row[d].status # "Unknown"}
           f == [d \in D |-> [desktop |-> d, old |-> row[d].status, new |-> "Unknown"]]
<1>1. \A d \in Desktops : row[d] \in Rows /\ row[d].status \in Statuses /\ [row[d] EXCEPT !.status = "Unknown"] \in Rows
  BY DEF TypeOK, Rows, Statuses
<1>2. row' \in [Desktops -> Rows]
  BY <1>1 DEF Leave
<1>3. f \in [D -> Changes]
  BY <1>1 DEF Changes, Statuses
<1>4. {f[d] : d \in D} = {[desktop |-> d, old |-> row[d].status, new |-> "Unknown"] : d \in D}
  OBVIOUS
<1>5. feed' = feed \o SetToSeq({f[d] : d \in D})
  BY <1>4 DEF Leave
<1> HIDE DEF f
<1>6. feed' \in Seq(Changes)
  BY <1>3, <1>5, ChangesAreSeq
<1> QED
  BY <1>2, <1>6 DEF Leave, TypeOK

LEMMA GoesTypes ==
    ASSUME Assumption, Types, NEW h \in Hyps, WorkerLost(h) \/ Reboots(h)
    PROVE  Types'
<1>1. row' \in [Desktops -> Rows] /\ feed' \in Seq(Changes) /\ online' \subseteq Hyps
  BY LeaveTypes DEF WorkerLost, Reboots, Types
<1>2. faults' \in 0..MaxFaults
  BY FaultTypes DEF WorkerLost, Reboots, Types
<1>3. guests' \in [Hyps -> SUBSET Guests]
  BY DEF WorkerLost, Reboots, Types, TypeOK
<1>4. device' \in [Uids -> BOOLEAN]
  BY DEF WorkerLost, Reboots, Types, TypeOK
<1>5. UNCHANGED <<engine, held, queue, worker, events, listener, ops>>
  BY DEF WorkerLost, Reboots
<1> QED
  BY <1>1, <1>2, <1>3, <1>4, <1>5 DEF Types, TypeOK, Named

LEMMA DeviceVanishesTypes ==
    ASSUME Assumption, Types, NEW u \in Uids, DeviceVanishes(u)
    PROVE  Types'
<1>1. faults' \in 0..MaxFaults
  BY FaultTypes DEF DeviceVanishes, Types
<1> QED
  BY <1>1 DEF DeviceVanishes, Types, TypeOK, Named

LEMMA WorkerReturnsTypes ==
    ASSUME Assumption, Types, NEW h \in Hyps, WorkerReturns(h)
    PROVE  Types'
<1> DEFINE status(d) == IF Running(d, h) THEN "Started" ELSE IF row[d].hyp = h THEN "Stopped" ELSE row[d].status
           D == {d \in Desktops : status(d) # row[d].status}
           f == [d \in D |-> [desktop |-> d, old |-> row[d].status, new |-> status(d)]]
<1>1. \A d \in Desktops : row[d] \in Rows /\ row[d].status \in Statuses /\ status(d) \in Statuses
  BY DEF Types, TypeOK, Rows, Statuses
<1>2. \A d \in Desktops : /\ [row[d] EXCEPT !.status = "Started", !.hyp = h] \in Rows
                          /\ [status |-> "Stopped", hyp |-> NoHyp, vlan |-> NoVlan] \in Rows
  BY <1>1 DEF Rows, Statuses
<1>3. row' \in [Desktops -> Rows]
  BY <1>1, <1>2 DEF WorkerReturns
<1>4. f \in [D -> Changes]
  BY <1>1 DEF Changes
<1>5. {f[d] : d \in D} = {[desktop |-> d, old |-> row[d].status, new |-> status(d)] : d \in D}
  OBVIOUS
<1>6. feed' = feed \o SetToSeq({f[d] : d \in D})
  BY <1>5 DEF WorkerReturns
<1> HIDE DEF f
<1>7. feed' \in Seq(Changes)
  BY <1>4, <1>6, ChangesAreSeq DEF Types
<1>8. held' \in [Uids -> Desktops \cup {Free}] /\ device' \in [Uids -> BOOLEAN] /\ online' \subseteq Hyps
  BY DEF WorkerReturns, Types, TypeOK
<1>9. UNCHANGED <<engine, queue, worker, guests, events, listener, ops, faults>>
  BY DEF WorkerReturns
<1> QED
  BY <1>3, <1>7, <1>8, <1>9 DEF Types, TypeOK, Named

LEMMA MovesActionTypes ==
    ASSUME Assumption, Types, NEW h \in Hyps, MovesAction(h)
    PROVE  Types'
<1>1. PICK k \in online : queue' = [queue EXCEPT ![h] = Tail(@), ![k] = Append(@, Head(queue[h]))]
  BY DEF MovesAction
<1>2. k \in Hyps /\ k # h /\ queue[h] # <<>>
  BY DEF MovesAction, Types, TypeOK
<1>3. queue[h] \in Seq(Actions) /\ queue[k] \in Seq(Actions)
  BY <1>2 DEF Types, TypeOK
<1>4. Head(queue[h]) \in Actions /\ Tail(queue[h]) \in Seq(Actions)
  BY <1>2, <1>3, HeadTail
<1>5. Append(queue[k], Head(queue[h])) \in Seq(Actions)
  BY <1>3, <1>4, AppendProperties
<1>6. queue' \in [Hyps -> Seq(Actions)]
  BY <1>1, <1>2, <1>4, <1>5 DEF Types, TypeOK
<1>7. UNCHANGED <<row, feed, engine, held, device, worker, guests, events, listener, online, ops, faults>>
  BY DEF MovesAction
<1> QED
  BY <1>6, <1>7 DEF Types, TypeOK, Named

LEMMA TypesInit == Assumption /\ Init => Types
<1> SUFFICES ASSUME Assumption, Init PROVE Types
  OBVIOUS
<1>1. [status |-> "Stopped", hyp |-> NoHyp, vlan |-> NoVlan] \in Rows
  BY DEF Rows, Statuses
<1>2. row \in [Desktops -> Rows] /\ feed \in Seq(Changes) /\ events \in Seq(Desktops \X Hyps)
  BY <1>1, EmptySeq DEF Init
<1>3. queue \in [Hyps -> Seq(Actions)] /\ guests \in [Hyps -> SUBSET Guests]
  BY EmptySeq DEF Init
<1>4. 0 \in 0..MaxOps /\ 0 \in 0..MaxFaults
  BY DEF Assumption
<1> QED
  BY <1>2, <1>3, <1>4, NothingIsPlace DEF Init, Types, TypeOK

LEMMA TypesStep == Assumption /\ Types /\ [Next]_vars => Types'
<1> SUFFICES ASSUME Assumption, Types, [Next]_vars PROVE Types'
  OBVIOUS
<1>1. CASE UNCHANGED vars
  BY <1>1 DEF vars, Types, TypeOK, Named
<1>2. CASE EngineNext
  BY <1>2, ChoosesHypTypes, ReservesTypes, TakesVlanTypes, HandlesStopTypes, IgnoresChangeTypes, RevertsChangeTypes
     DEF EngineNext
<1>3. ASSUME NEW h \in Hyps, WorkerNext(h)
      PROVE  Types'
  BY <1>3, CreatesGuestTypes, CreationFailsTypes, FindsActiveTypes, DestroysGuestTypes, PressesButtonTypes,
     WorkerStepsTypes DEF WorkerNext
<1> QED
  BY <1>1, <1>2, <1>3, AsksTypes, EventTypes, GuestEndsTypes, GoesTypes, WorkerReturnsTypes, MovesActionTypes,
     DeviceVanishesTypes DEF Next

\* Every variable has its type in every reachable state, whatever fails.
THEOREM TypeCorrect == Assumption => (Spec => []TypeOK)
<1> SUFFICES ASSUME Assumption PROVE Spec => []TypeOK
  OBVIOUS
<1>1. Init => Types
  BY TypesInit
<1>2. Types /\ [Next]_vars => Types'
  BY TypesStep
<1>3. Types => TypeOK
  BY DEF Types
<1> QED
  BY <1>1, <1>2, <1>3, PTL DEF Spec

----------------------------------------------------------------------------
(* Steps: who can do something, and to what.                               *)

ServerNext == EngineNext \/ HandlesEvent \/ EventReleases \/ \E h \in Hyps : WorkerNext(h)
UserNext ==
    \/ \E d \in Desktops : AsksStart(d) \/ AsksStop(d) \/ AsksShutdown(d)
    \/ \E h \in Hyps : GuestEnds(h)

\* Only d is concerned, and a uid that is taken was free.
Concerns(d) ==
    /\ online' = online /\ device' = device
    /\ \A e \in Desktops : e # d => row'[e] = row[e]
    /\ \A h \in Hyps : \A g \in Guests : g.desktop # d => (g \in guests'[h] <=> g \in guests[h])
    /\ \A u \in Uids : held'[u] = held[u] \/ (held[u] \in {d, Free} /\ held'[u] \in {d, Free})
KeepsVlan(d) ==
    /\ Placed(d)' => Placed(d) /\ row'[d].vlan = row[d].vlan
    /\ row'[d].status = "Shutting-down" => row[d].status = "Shutting-down" \/ "shutdown" \in Ops
Advances(d) == Concerns(d) /\ InFlight(d)' /\ KeepsVlan(d)

LEMMA OnlyTheseSteps ==
    ASSUME Patient, AllWell, Types, Next
    PROVE  ServerNext \/ (Quiet /\ UserNext)
<1>1. \A f : ~Fault(f)
  BY DEF Fault, Patient
<1>2. \A h \in Hyps : ~WorkerLost(h) /\ ~Reboots(h) /\ ~WorkerReturns(h) /\ ~MovesAction(h)
  BY <1>1 DEF WorkerLost, Reboots, WorkerReturns, MovesAction, AllWell
<1>3. \A u \in Uids : ~DeviceVanishes(u)
  BY <1>1 DEF DeviceVanishes
<1>4. UserNext => Quiet
  BY DEF UserNext, AsksStart, AsksStop, AsksShutdown, GuestEnds, Asks, Patient
<1> QED
  BY <1>2, <1>3, <1>4 DEF Next, ServerNext, UserNext

LEMMA OthersStaySettled ==
    ASSUME Assumption, Types, Types', NEW d \in Desktops, Concerns(d), NEW e \in Desktops, e # d, Settled(e)
    PROVE  Settled(e)' /\ KeepsVlan(e)
<1>1. row'[e] = row[e] /\ e # Free
  BY DEF Concerns, Assumption
<1>2. \A h \in Hyps : \A g \in Guests : g.desktop = e => (g \in guests'[h] <=> g \in guests[h])
  BY DEF Concerns
<1>3. \A u \in Uids : held'[u] = e <=> held[u] = e
  BY <1>1 DEF Concerns
<1>4. \A h \in Hyps : guests[h] \subseteq Guests /\ guests'[h] \subseteq Guests
  BY DEF Types, TypeOK
<1>5. CASE Up(e)
  <2>1. PICK g \in Guests : Runs(e, row[e].hyp, g)
    BY <1>5 DEF Up
  <2>2. Runs(e, row[e].hyp, g)'
    BY <1>1, <1>2, <1>3, <1>4, <2>1 DEF Runs
  <2>3. Up(e)'
    BY <1>1, <1>5, <2>2 DEF Up
  <2> QED
    BY <1>1, <1>5, <2>3 DEF Settled, Up, KeepsVlan, Placed
<1>6. CASE Down(e)
  <2>1. Down(e)'
    BY <1>1, <1>2, <1>3, <1>4, <1>6 DEF Down, HasNone, HoldsNone
  <2> QED
    BY <1>1, <1>6, <2>1 DEF Settled, Down, KeepsVlan, Placed
<1> QED
  BY <1>5, <1>6 DEF Settled

LEMMA EngineIdle == NoFeed => ~EngineNext
BY DEF NoFeed, Nothing, EngineNext, ChoosesHyp, Reserves, TakesUid, TakesVlan, HandlesStop, IgnoresChange,
       RevertsChange, Change

LEMMA WorkersIdle ==
    ASSUME NEW h \in Hyps, queue[h] = <<>>, worker[h] = Nothing
    PROVE  ~WorkerNext(h)
BY DEF Nothing, WorkerNext, CreatesGuest, CreationFails, FindsActive, WritesStarted, WritesUid, TakesUid,
       DestroysGuest,
       WorkerReleases, WritesStopped, PressesButton, HeadIs

LEMMA EventsIdle == NoEvents => ~HandlesEvent /\ ~EventReleases
BY DEF NoEvents, HandlesEvent, EventReleases

\* The engine at a change.
LEMMA EngineAtChange ==
    ASSUME AllWell, Patient, engine = Nothing, EngineNext
    PROVE  \E d \in Desktops : TakesVlan(d) \/ HandlesStop(d) \/ IgnoresChange(d)
BY DEF AllWell, Patient, Nothing, EngineNext, ChoosesHyp, Reserves, TakesUid, RevertsChange

----------------------------------------------------------------------------
(* A desktop starts.                                                       *)

Calm == Assumption /\ Patient /\ AllWell /\ Types /\ Types'

\* One change waits.
LEMMA OneChange ==
    ASSUME Types, NEW d \in Desktops, NEW ss \in SUBSET Statuses, NEW new \in Statuses, Told(d, ss, new)
    PROVE  /\ feed # <<>> /\ Head(feed).desktop = d /\ Head(feed).new = new /\ Head(feed).old \in ss
           /\ Tail(feed) = <<>> /\ engine = Nothing
BY DEF Told

LEMMA StartAskedStep ==
    ASSUME Calm, NEW d \in Desktops, StartAsked(d), ServerNext
    PROVE  TakesVlan(d) /\ Concerns(d) /\ Choosing(d)'
<1>1. /\ feed # <<>> /\ Head(feed).desktop = d /\ Head(feed).new = "Starting"
      /\ Head(feed).old \in {"Stopped", "Failed"} /\ Tail(feed) = <<>> /\ engine = Nothing
  BY OneChange DEF StartAsked, Calm, Statuses
<1>2. EngineNext
  BY WorkersIdle, EventsIdle DEF ServerNext, StartAsked, NoQueue, NoWorker
<1>3. TakesVlan(d)
  <2>1. PICK e \in Desktops : TakesVlan(e) \/ HandlesStop(e) \/ IgnoresChange(e)
    BY <1>1, <1>2, EngineAtChange DEF Calm
  <2>2. e = d /\ StartsNow(Head(feed)) /\ ~Stops(Head(feed)) /\ ~ShutsDown(Head(feed))
    BY <1>1, <2>1 DEF TakesVlan, HandlesStop, IgnoresChange, Change, StartsNow, Stops, ShutsDown
  <2> QED
    BY <2>1, <2>2 DEF HandlesStop, IgnoresChange
<1>4. PICK v \in Vlans \cup {NoVlan} : row' = [row EXCEPT ![d].vlan = v]
  BY <1>3, VlansForTypes DEF TakesVlan, Calm, Types
<1>5. /\ engine' = At("choose", d, NoHyp, NoUid) /\ feed' = <<>>
      /\ UNCHANGED <<held, queue, faults>> /\ UNCHANGED engineVars
  BY <1>1, <1>3 DEF TakesVlan, Change
<1>6. row[d] \in Rows /\ row \in [Desktops -> Rows]
  BY DEF Calm, Types, TypeOK
<1>7. row'[d].status = "Starting" /\ \A e \in Desktops : e # d => row'[e] = row[e]
  BY <1>4, <1>6 DEF StartAsked, Rows
<1>8. Concerns(d)
  BY <1>5, <1>7 DEF Concerns, engineVars
<1>9. Choosing(d)'
  BY <1>5, <1>7 DEF Choosing, StartAsked, HasNone, HoldsNone, NoQueue, NoWorker, NoEvents, engineVars
<1> QED
  BY <1>3, <1>8, <1>9

\* What a write does to the rows and, when it changes the status, to a feed
\* that is empty.
LEMMA PutDoes ==
    ASSUME TypeOK, NEW d \in Desktops, NEW s, NEW h, Put(d, s, h)
    PROVE  /\ row'[d].status = s /\ row'[d].hyp = h /\ (s # "Stopped" => row'[d].vlan = row[d].vlan)
           /\ \A e \in Desktops : e # d => row'[e] = row[e]
           /\ feed' = IF s = row[d].status THEN feed
                      ELSE Append(feed, [desktop |-> d, old |-> row[d].status, new |-> s])
BY DEF TypeOK, Put, PutRow, Tell

LEMMA OnlyToldStays ==
    ASSUME TypeOK, NEW d \in Desktops, NEW new \in Statuses, OnlyTold(d, new), NEW h, Put(d, new, h),
           engine' = engine
    PROVE  OnlyTold(d, new)'
<1>1. feed \in Seq(Changes)
  BY DEF TypeOK
<1>2. CASE feed' = feed
  BY <1>2 DEF OnlyTold
<1>3. CASE feed' = Append(feed, [desktop |-> d, old |-> row[d].status, new |-> new])
  <2>1. PICK c : c = [desktop |-> d, old |-> row[d].status, new |-> new]
    OBVIOUS
  <2>2. row[d].status \in Statuses
    BY DEF TypeOK, Rows
  <2>3. c \in Changes /\ c.desktop = d /\ c.new = new
    BY <2>1, <2>2 DEF Changes
  <2>4. \A i \in DOMAIN feed' : feed'[i] = c \/ (i \in DOMAIN feed /\ feed'[i] = feed[i])
    BY <1>1, <1>3, <2>1, <2>3
  <2> QED
    BY <2>3, <2>4 DEF OnlyTold
<1> QED
  BY <1>2, <1>3, PutDoes

LEMMA FirstTold ==
    ASSUME TypeOK, NEW d \in Desktops, NEW new \in Statuses, NoFeed, NEW h, Put(d, new, h), engine' = engine
    PROVE  OnlyTold(d, new)'
BY OnlyToldStays DEF NoFeed, OnlyTold

LEMMA ToldIsIgnored ==
    ASSUME Calm, NEW d \in Desktops, NEW new \in {"Started", "Failed", "Stopped"}, OnlyTold(d, new), EngineNext
    PROVE  /\ OnlyTold(d, new)' /\ UNCHANGED <<row, engine, held, queue, faults>> /\ UNCHANGED engineVars
<1>1. engine = Nothing /\ feed \in Seq(Changes)
  BY DEF OnlyTold, Calm, Types, TypeOK
<1>2. PICK e \in Desktops : TakesVlan(e) \/ HandlesStop(e) \/ IgnoresChange(e)
  BY <1>1, EngineAtChange DEF Calm
<1>3. feed # <<>> /\ feed' = Tail(feed)
  BY <1>2 DEF TakesVlan, HandlesStop, IgnoresChange, Change
<1>4. Head(feed) = feed[1] /\ 1 \in DOMAIN feed
  BY <1>1, <1>3
<1>5. Head(feed).new = new
  BY <1>4 DEF OnlyTold
<1>6. IgnoresChange(e)
  BY <1>2, <1>5 DEF TakesVlan, HandlesStop, StartsNow, Stops, ShutsDown
<1>7. \A i \in DOMAIN feed' : i + 1 \in DOMAIN feed /\ feed'[i] = feed[i + 1]
  BY <1>1, <1>3
<1>8. OnlyTold(d, new)'
  BY <1>6, <1>7 DEF OnlyTold, IgnoresChange
<1> QED
  BY <1>6, <1>8 DEF IgnoresChange

LEMMA ChoosingStep ==
    ASSUME Calm, NEW d \in Desktops, Choosing(d), ServerNext
    PROVE  Advances(d)
<1>1. engine.pc = "choose" /\ engine.desktop = d /\ engine # Nothing /\ row[d].status = "Starting"
  BY DEF Choosing, At, Nothing
<1>2. ChoosesHyp
  BY <1>1, WorkersIdle, EventsIdle DEF ServerNext, Choosing, NoQueue, NoWorker, EngineNext, Reserves, TakesUid,
     TakesVlan,
     HandlesStop, IgnoresChange, RevertsChange, Change
<1>3. UNCHANGED <<held, queue, faults>> /\ UNCHANGED engineVars
  BY <1>2 DEF ChoosesHyp
<1>4. CandidatesOf(d) \subseteq Hyps /\ online # {}
  BY CandidatesTypes DEF Calm, Types, AllWell, Patient
<1>5. \/ /\ UNCHANGED <<row, feed>>
         /\ \E h \in Hyps, u \in Uids \cup {NoUid} :
               UidIn(h, u) /\ (u = NoUid \/ held[u] = Free) /\ engine' = At("reserve", d, h, u)
      \/ Put(d, "Failed", NoHyp) /\ engine' = Nothing
  <2>1. \A u \in UidsToTake(CandidatesOf(d), d) : u \in Uids /\ held[u] = Free /\ UidHyp(u) \in Hyps
    BY <1>4, UidsToTakeTypes
  <2> QED
    BY <1>1, <1>2, <1>4, <2>1 DEF ChoosesHyp, UidIn
<1>6. CASE \E h \in Hyps, u \in Uids \cup {NoUid} :
               /\ UNCHANGED <<row, feed>>
               /\ UidIn(h, u) /\ (u = NoUid \/ held[u] = Free) /\ engine' = At("reserve", d, h, u)
  <2>1. PICK h \in Hyps, u \in Uids \cup {NoUid} :
               /\ UNCHANGED <<row, feed>>
               /\ UidIn(h, u) /\ (u = NoUid \/ held[u] = Free) /\ engine' = At("reserve", d, h, u)
    BY <1>6
  <2>2. Reserving(d, h, u)'
    BY <1>3, <2>1 DEF Choosing, Reserving, UidIn, HasNone, HoldsNone, NoQueue, NoWorker, NoEvents, engineVars
  <2>3. Concerns(d) /\ KeepsVlan(d)
    BY <1>3, <2>1 DEF Concerns, KeepsVlan, Placed, engineVars
  <2> QED
    BY <2>2, <2>3 DEF Advances, InFlight
<1>7. CASE Put(d, "Failed", NoHyp) /\ engine' = Nothing
  <2>1. /\ row'[d].status = "Failed" /\ \A e \in Desktops : e # d => row'[e] = row[e]
        /\ feed' = <<[desktop |-> d, old |-> "Starting", new |-> "Failed"]>>
    BY <1>1, <1>7, PutDoes DEF Calm, Types, Choosing
  <2>2. OnlyTold(d, "Failed")'
    BY <1>7, <2>1 DEF OnlyTold
  <2>3. Failing(d)'
    BY <1>3, <2>1, <2>2 DEF Choosing, Failing, HasNone, HoldsNone, NoQueue, NoWorker, NoEvents, engineVars
  <2>4. Concerns(d) /\ KeepsVlan(d)
    BY <1>3, <2>1 DEF Concerns, KeepsVlan, Placed, engineVars
  <2> QED
    BY <2>3, <2>4 DEF Advances, InFlight
<1> QED
  BY <1>5, <1>6, <1>7

LEMMA FailingStep ==
    ASSUME Calm, NEW d \in Desktops, Failing(d), ServerNext
    PROVE  Advances(d)
<1>1. EngineNext
  BY WorkersIdle, EventsIdle DEF ServerNext, Failing, NoQueue, NoWorker
<1>2. OnlyTold(d, "Failed")' /\ UNCHANGED <<row, engine, held, queue, faults>> /\ UNCHANGED engineVars
  BY <1>1, ToldIsIgnored DEF Failing
<1>3. Failing(d)'
  BY <1>2 DEF Failing, HasNone, HoldsNone, NoQueue, NoWorker, NoEvents, engineVars
<1>4. Concerns(d) /\ KeepsVlan(d)
  BY <1>2 DEF Concerns, KeepsVlan, Placed, Failing, engineVars
<1> QED
  BY <1>3, <1>4 DEF Advances, InFlight

LEMMA ReservingStep ==
    ASSUME Calm, NEW d \in Desktops, NEW h \in Hyps, NEW u \in Uids \cup {NoUid}, Reserving(d, h, u), ServerNext
    PROVE  Advances(d)
<1>1. /\ engine.pc = "reserve" /\ engine.desktop = d /\ engine.hyp = h /\ engine.uid = u
      /\ engine # Nothing /\ row[d].status = "Starting" /\ feed = <<>>
  BY DEF Reserving, At, Nothing
<1>2. Reserves
  BY <1>1, WorkersIdle, EventsIdle DEF ServerNext, Reserving, NoQueue, NoWorker, EngineNext, ChoosesHyp, TakesVlan,
     HandlesStop, IgnoresChange, RevertsChange, Change
<1>3. /\ held' = IF u = NoUid THEN held ELSE [held EXCEPT ![u] = d]
      /\ queue' = [queue EXCEPT ![h] = Append(@, [type |-> "start", desktop |-> d, uid |-> u, vlan |-> row[d].vlan])]
      /\ engine' = Nothing /\ UNCHANGED <<row, feed, faults>> /\ UNCHANGED engineVars
  BY <1>1, <1>2 DEF Reserves, TakesUid
<1>4. held \in [Uids -> Desktops \cup {Free}] /\ queue \in [Hyps -> Seq(Actions)] /\ d # Free
  BY DEF Calm, Types, TypeOK, Assumption
<1>5. /\ UidIn(h, u) /\ (u = NoUid \/ held[u] = Free) /\ (\A w \in Uids : held[w] # d) /\ NoUid \notin Uids
  BY NoUidIsNone DEF Reserving, HoldsNone
<1>6. \A w \in Uids : held'[w] = d <=> w = u
  BY <1>3, <1>4, <1>5 DEF UidIn
<1>7. OneQueued(h, [type |-> "start", desktop |-> d, uid |-> u, vlan |-> row[d].vlan])'
  <2>1. PICK a : a = [type |-> "start", desktop |-> d, uid |-> u, vlan |-> row[d].vlan]
    OBVIOUS
  <2>2. queue[h] = <<>> /\ Append(<<>>, a) = <<a>>
    BY DEF Reserving, NoQueue
  <2>3. queue'[h] = <<a>> /\ \A k \in Hyps : k # h => queue'[k] = <<>>
    BY <1>3, <1>4, <2>1, <2>2 DEF Reserving, NoQueue
  <2>4. a = [type |-> "start", desktop |-> d, uid |-> u, vlan |-> row'[d].vlan]
    BY <1>3, <2>1
  <2> QED
    BY <2>3, <2>4 DEF OneQueued
<1>8. StartQueued(d, h, u)'
  BY <1>1, <1>3, <1>5, <1>6, <1>7 DEF Reserving, StartQueued, HasNone, UidIn, NoFeed, NoWorker, NoEvents, engineVars
<1>9. \A w \in Uids : held'[w] = held[w] \/ (held[w] = Free /\ held'[w] = d)
  BY <1>3, <1>4, <1>5 DEF UidIn
<1>10. Concerns(d) /\ KeepsVlan(d)
  BY <1>3, <1>9 DEF Concerns, KeepsVlan, Placed, engineVars
<1> QED
  BY <1>8, <1>10 DEF Advances, InFlight

LEMMA HoldsIts ==
    ASSUME Types, NEW e \in Desktops, Settled(e), NEW h \in Hyps, NEW g \in guests[h], g.desktop = e
    PROVE  Runs(e, row[e].hyp, g) /\ h = row[e].hyp
<1>1. ~Down(e)
  BY DEF Down, HasNone
<1>2. PICK f \in Guests : Runs(e, row[e].hyp, f)
  BY <1>1 DEF Settled, Up
<1>3. h = row[e].hyp /\ g = f
  BY <1>2 DEF Runs
<1> QED
  BY <1>2, <1>3

LEMMA GuestOfDesktop ==
    ASSUME Types, NEW h \in Hyps, NEW g \in guests[h]
    PROVE  g \in Guests /\ g.desktop \in Desktops /\ g.uid \in Uids \cup {NoUid} /\ g.vlan \in Vlans \cup {NoVlan}
BY DEF Types, TypeOK, Guests

\* The worker that has the only action.
LEMMA OneWorkerMoves ==
    ASSUME NEW h \in Hyps, NEW a, OneQueued(h, a), NoWorker, NoFeed, NoEvents, ServerNext
    PROVE  WorkerNext(h) /\ queue[h] = <<a>> /\ Head(queue[h]) = a /\ worker[h] = Nothing
<1>1. ~EngineNext /\ ~HandlesEvent /\ ~EventReleases
  BY EngineIdle, EventsIdle
<1>2. \A k \in Hyps : k # h => ~WorkerNext(k)
  BY WorkersIdle DEF OneQueued, NoWorker
<1> QED
  BY <1>1, <1>2 DEF ServerNext, OneQueued, NoWorker

LEMMA PopsLast ==
    ASSUME Types, NEW h \in Hyps, NEW a, OneQueued(h, a), Pops(h)
    PROVE  NoQueue'
<1>1. queue \in [Hyps -> Seq(Actions)]
  BY DEF Types, TypeOK
<1>2. Tail(<<a>>) = <<>>
  OBVIOUS
<1> QED
  BY <1>1, <1>2 DEF OneQueued, Pops, NoQueue

LEMMA StartQueuedStep ==
    ASSUME Calm, NEW d \in Desktops, \A e \in Desktops : e # d => Settled(e),
           NEW h \in Hyps, NEW u \in Uids \cup {NoUid}, StartQueued(d, h, u), ServerNext
    PROVE  Advances(d)
<1> DEFINE a == [type |-> "start", desktop |-> d, uid |-> u, vlan |-> row[d].vlan]
<1>1. WorkerNext(h) /\ queue[h] = <<a>> /\ Head(queue[h]) = a /\ worker[h] = Nothing
  BY OneWorkerMoves DEF StartQueued
<1>2. ~Running(d, h)
  BY DEF StartQueued, HasNone, Running
<1>3. CanRun(a, h)
  <2>1. ASSUME u # NoUid, NEW g \in guests[h], g.uid = u
        PROVE  FALSE
    <3>1. g.desktop \in Desktops /\ g.desktop # d
      BY GuestOfDesktop DEF Calm, StartQueued, HasNone
    <3>2. Runs(g.desktop, row[g.desktop].hyp, g)
      BY <3>1, HoldsIts DEF Calm
    <3>3. u \in Uids /\ held[u] = d /\ held[u] = g.desktop
      BY <2>1, <3>2 DEF StartQueued, Runs, UidIn
    <3> QED
      BY <3>1, <3>3
  <2>2. u # NoUid => UidHyp(u) = h /\ device[u]
    BY DEF StartQueued, UidIn, Calm, AllWell
  <2> QED
    BY <1>2, <2>1, <2>2 DEF CanRun
<1>4. CreatesGuest(h)
  <2>1. ~CreationFails(h)
    BY <1>1, <1>3 DEF CreationFails, Fault, Calm, Patient
  <2>2. ~FindsActive(h)
    BY <1>1, <1>2 DEF FindsActive
  <2> QED
    BY <1>1, <2>1, <2>2 DEF WorkerNext, WritesStarted, WritesUid, TakesUid, DestroysGuest, WorkerReleases,
       WritesStopped,
       PressesButton, HeadIs, Nothing
<1>5. PICK g : g = [desktop |-> d, uid |-> u, vlan |-> row[d].vlan]
  OBVIOUS
<1>6. /\ guests' = [guests EXCEPT ![h] = @ \cup {g}]
      /\ worker' = [worker EXCEPT ![h] = At("started", d, h, u)] /\ Pops(h)
      /\ UNCHANGED <<row, feed, held, events, faults>> /\ UNCHANGED workerVars
  <2>1. Head(queue[h]).desktop = d /\ Head(queue[h]).uid = u /\ Head(queue[h]).vlan = row[d].vlan
    BY <1>1
  <2> QED
    BY <1>4, <1>5, <2>1 DEF CreatesGuest
<1>7. g \in Guests /\ g.desktop = d /\ g.uid = u /\ g.vlan = row[d].vlan
  <2>1. row[d].vlan \in Vlans \cup {NoVlan}
    BY DEF Calm, Types, TypeOK, Rows
  <2> QED
    BY <1>5, <2>1 DEF Guests
<1>8. guests \in [Hyps -> SUBSET Guests] /\ worker \in [Hyps -> Places]
  BY DEF Calm, Types, TypeOK
<1>9. /\ g \in guests'[h] /\ \A k \in Hyps : \A f \in guests'[k] : (f = g /\ k = h) \/ f \in guests[k]
      /\ \A k \in Hyps : \A f \in guests[k] : f \in guests'[k]
  BY <1>6, <1>8
<1>10. Runs(d, h, g)'
  BY <1>6, <1>7, <1>9 DEF Runs, StartQueued, HasNone
<1>11. OneWorks(h, At("started", d, h, g.uid))'
  BY <1>6, <1>7, <1>8 DEF OneWorks, StartQueued, NoWorker
<1>12. NoQueue'
  BY <1>6, PopsLast DEF Calm, StartQueued
<1>13. Creating(d, h, g)'
  BY <1>6, <1>10, <1>11, <1>12 DEF Creating, StartQueued, NoFeed, NoEvents, workerVars
<1>14. Concerns(d) /\ KeepsVlan(d)
  BY <1>6, <1>7, <1>9 DEF Concerns, KeepsVlan, Placed, workerVars
<1> QED
  BY <1>7, <1>13, <1>14 DEF Advances, InFlight

\* The worker that is in the middle of something, when no other thread is.
LEMMA OneWorkerGoesOn ==
    ASSUME NEW h \in Hyps, NEW w, OneWorks(h, w), NoQueue, NoEvents, w # Nothing, ServerNext
    PROVE  EngineNext \/
           (worker[h] = w /\ (WritesStarted(h) \/ WritesUid(h) \/ WorkerReleases(h) \/ WritesStopped(h)))
<1>1. \A k \in Hyps : k # h => ~WorkerNext(k)
  BY WorkersIdle DEF OneWorks, NoQueue
<1>2. worker[h] = w /\ queue[h] = <<>>
  BY DEF OneWorks, NoQueue
<1> QED
  BY <1>1, <1>2, EventsIdle DEF ServerNext, WorkerNext, CreatesGuest, CreationFails, FindsActive, DestroysGuest,
     PressesButton, HeadIs

LEMMA CreatingStep ==
    ASSUME Calm, NEW d \in Desktops, NEW h \in Hyps, NEW g \in Guests, Creating(d, h, g), ServerNext
    PROVE  Advances(d)
<1>1. /\ worker[h].pc = "started" /\ worker[h].desktop = d /\ worker[h] = At("started", d, h, g.uid)
      /\ worker[h] # Nothing
  BY DEF Creating, OneWorks, At, Nothing
<1>2. WritesStarted(h)
  <2>1. ~EngineNext
    BY EngineIdle DEF Creating
  <2> QED
    BY <1>1, <2>1, OneWorkerGoesOn DEF Creating, WritesUid, TakesUid, WorkerReleases, WritesStopped
<1>3. /\ Put(d, "Started", h) /\ worker' = [worker EXCEPT ![h].pc = "uid"]
      /\ UNCHANGED <<held, queue, guests, events, faults>> /\ UNCHANGED workerVars
  BY <1>1, <1>2 DEF WritesStarted
<1>4. /\ row'[d].status = "Started" /\ row'[d].hyp = h /\ row'[d].vlan = row[d].vlan
      /\ \A e \in Desktops : e # d => row'[e] = row[e]
  <2>1. TypeOK /\ Put(d, "Started", h)
    BY <1>3 DEF Calm, Types
  <2> QED
    BY <2>1, PutDoes
<1>5. OnlyTold(d, "Started")'
  <2>1. "Started" \in Statuses /\ TypeOK /\ NoFeed /\ engine' = engine
    BY <1>3 DEF Calm, Types, Creating, Statuses, workerVars
  <2> QED
    BY <1>3, <2>1, FirstTold
<1>6. OneWorks(h, At("uid", d, h, g.uid))'
  <2>1. [worker[h] EXCEPT !.pc = "uid"] = At("uid", d, h, g.uid)
    BY <1>1 DEF At
  <2>2. worker \in [Hyps -> Places]
    BY DEF Calm, Types, TypeOK
  <2> QED
    BY <1>3, <2>1, <2>2 DEF OneWorks, Creating
<1>7. Runs(d, h, g)'
  BY <1>3, <1>4 DEF Runs, Creating
<1>8. Rising(d, h, g)'
  BY <1>3, <1>4, <1>5, <1>6, <1>7 DEF Rising, Creating, NoQueue, NoEvents, workerVars
<1>9. Concerns(d) /\ KeepsVlan(d)
  BY <1>3, <1>4 DEF Concerns, KeepsVlan, Placed, Creating, NoFeed, workerVars
<1> QED
  BY <1>8, <1>9 DEF Advances, InFlight

LEMMA RisingStep ==
    ASSUME Calm, NEW d \in Desktops, NEW h \in Hyps, NEW g \in Guests, Rising(d, h, g), ServerNext
    PROVE  Advances(d)
<1>1. CASE EngineNext
  <2>1. OnlyTold(d, "Started")' /\ UNCHANGED <<row, engine, held, queue, faults>> /\ UNCHANGED engineVars
    BY <1>1, ToldIsIgnored DEF Rising
  <2>2. Runs(d, h, g)'
    BY <2>1 DEF Runs, Rising, engineVars
  <2>3. (OneWorks(h, At("uid", d, h, g.uid)) \/ NoWorker)'
    BY <2>1 DEF Rising, OneWorks, NoWorker, engineVars
  <2>4. Rising(d, h, g)'
    BY <2>1, <2>2, <2>3 DEF Rising, NoQueue, NoEvents, engineVars
  <2>5. Concerns(d) /\ KeepsVlan(d)
    BY <2>1 DEF Concerns, KeepsVlan, Placed, Rising, engineVars
  <2> QED
    BY <2>4, <2>5 DEF Advances, InFlight
<1>2. CASE ~EngineNext
  <2>1. OneWorks(h, At("uid", d, h, g.uid))
    BY <1>2, WorkersIdle, EventsIdle DEF ServerNext, Rising, NoQueue, NoWorker
  <2>2. /\ worker[h].pc = "uid" /\ worker[h].desktop = d /\ worker[h].uid = g.uid
        /\ At("uid", d, h, g.uid) # Nothing
    BY <2>1 DEF OneWorks, At, Nothing
  <2>3. WritesUid(h)
    BY <1>2, <2>1, <2>2, OneWorkerGoesOn DEF Rising, WritesStarted, WorkerReleases, WritesStopped
  <2>4. held \in [Uids -> Desktops \cup {Free}] /\ worker \in [Hyps -> Places]
    BY DEF Calm, Types, TypeOK
  <2>5. g.uid = NoUid \/ (g.uid \in Uids /\ held[g.uid] = d)
    BY DEF Rising, Runs, UidIn
  <2>6. /\ held' = held /\ worker' = [worker EXCEPT ![h] = Nothing]
        /\ UNCHANGED <<row, feed, queue, guests, events, faults>> /\ UNCHANGED workerVars
    BY <2>2, <2>3, <2>4, <2>5 DEF WritesUid, TakesUid
  <2>7. NoWorker'
    BY <2>1, <2>4, <2>6 DEF NoWorker, OneWorks
  <2>8. Runs(d, h, g)'
    BY <2>6 DEF Runs, Rising
  <2>9. Rising(d, h, g)'
    BY <2>6, <2>7, <2>8 DEF Rising, NoQueue, NoEvents, OnlyTold, workerVars
  <2>10. Concerns(d) /\ KeepsVlan(d)
    BY <2>6 DEF Concerns, KeepsVlan, Placed, Rising, workerVars
  <2> QED
    BY <2>9, <2>10 DEF Advances, InFlight
<1> QED
  BY <1>1, <1>2

----------------------------------------------------------------------------
(* A desktop stops, or is shut down.                                       *)

\* The change of a desktop that runs becomes an action of its worker.
LEMMA StopIsHandled ==
    ASSUME Calm, NEW d \in Desktops, NEW g \in Guests, Runs(d, row[d].hyp, g), NoQueue, NoWorker, NoEvents,
           \/ Told(d, {"Started", "Shutting-down"}, "Stopping")
           \/ Told(d, {"Started"}, "Shutting-down"),
           ServerNext, NEW type, type = IF Head(feed).new = "Stopping" THEN "stop" ELSE "shutdown"
    PROVE  /\ OneQueued(row[d].hyp, [type |-> type, desktop |-> d, uid |-> NoUid, vlan |-> NoVlan])'
           /\ feed' = <<>> /\ engine = Nothing /\ engine' = Nothing
           /\ UNCHANGED <<row, held, faults>> /\ UNCHANGED engineVars
<1>1. /\ feed # <<>> /\ Head(feed).desktop = d /\ Tail(feed) = <<>> /\ engine = Nothing
      /\ \/ Head(feed).new = "Stopping" /\ Head(feed).old \in {"Started", "Shutting-down"}
         \/ Head(feed).new = "Shutting-down" /\ Head(feed).old = "Started"
  <2>1. CASE Told(d, {"Started", "Shutting-down"}, "Stopping")
    BY <2>1, OneChange DEF Calm, Statuses
  <2>2. CASE Told(d, {"Started"}, "Shutting-down")
    BY <2>2, OneChange DEF Calm, Statuses
  <2> QED
    BY <2>1, <2>2
<1>2. EngineNext
  BY WorkersIdle, EventsIdle DEF ServerNext, NoQueue, NoWorker
<1>3. HandlesStop(d)
  <2>1. PICK e \in Desktops : TakesVlan(e) \/ HandlesStop(e) \/ IgnoresChange(e)
    BY <1>1, <1>2, EngineAtChange DEF Calm
  <2>2. e = d /\ ~StartsNow(Head(feed)) /\ (Stops(Head(feed)) \/ ShutsDown(Head(feed)))
    BY <1>1, <2>1 DEF TakesVlan, HandlesStop, IgnoresChange, Change, StartsNow, Stops, ShutsDown
  <2> QED
    BY <2>1, <2>2 DEF TakesVlan, IgnoresChange
<1>4. Stops(Head(feed)) <=> Head(feed).new = "Stopping"
  BY <1>1 DEF Stops
<1>5. PICK a : a = [type |-> type, desktop |-> d, uid |-> NoUid, vlan |-> NoVlan]
  OBVIOUS
<1>6. ActionOf(Head(feed)) = type
  BY <1>4 DEF ActionOf
<1>7. row[d].hyp \in Hyps /\ row[d].hyp # NoHyp
  BY DEF Runs, Calm, Assumption
<1>8. queue' = [queue EXCEPT ![row[d].hyp] = Append(@, a)]
  BY <1>3, <1>5, <1>6, <1>7 DEF HandlesStop
<1>9. UNCHANGED <<row, held, faults>> /\ UNCHANGED engineVars /\ feed' = <<>> /\ engine' = Nothing
  BY <1>1, <1>3 DEF HandlesStop, Change
<1>10. queue \in [Hyps -> Seq(Actions)] /\ queue[row[d].hyp] = <<>> /\ Append(<<>>, a) = <<a>>
  BY <1>7 DEF Calm, Types, TypeOK, NoQueue
<1>11. queue'[row[d].hyp] = <<a>> /\ \A k \in Hyps : k # row[d].hyp => queue'[k] = <<>>
  BY <1>7, <1>8, <1>10 DEF NoQueue
<1> QED
  BY <1>1, <1>5, <1>9, <1>11 DEF OneQueued

LEMMA StopAskedStep ==
    ASSUME Calm, NEW d \in Desktops, NEW g \in Guests, StopAsked(d, g), ServerNext
    PROVE  Advances(d)
<1>1. Head(feed).new = "Stopping"
  BY OneChange DEF StopAsked, Calm, Statuses
<1>2. /\ OneQueued(row[d].hyp, [type |-> "stop", desktop |-> d, uid |-> NoUid, vlan |-> NoVlan])'
      /\ feed' = <<>> /\ engine' = Nothing /\ UNCHANGED <<row, held, faults>> /\ UNCHANGED engineVars
  BY <1>1, StopIsHandled DEF StopAsked
<1>3. Runs(d, row[d].hyp, g)'
  BY <1>2 DEF StopAsked, Runs, engineVars
<1>4. StopQueued(d, g)'
  BY <1>2, <1>3, <1>3 DEF StopAsked, StopQueued, NoFeed, NoWorker, NoEvents, engineVars
<1>5. Concerns(d) /\ KeepsVlan(d)
  BY <1>2 DEF Concerns, KeepsVlan, Placed, StopAsked, engineVars
<1> QED
  BY <1>4, <1>5 DEF Advances, InFlight

LEMMA StopQueuedStep ==
    ASSUME Calm, NEW d \in Desktops, NEW g \in Guests, StopQueued(d, g), ServerNext
    PROVE  Advances(d)
<1>1. PICK h \in Hyps : h = row[d].hyp
  BY DEF StopQueued, Runs
<1>2. PICK a : a = [type |-> "stop", desktop |-> d, uid |-> NoUid, vlan |-> NoVlan]
  OBVIOUS
<1>3. OneQueued(h, a) /\ a.type = "stop" /\ a.desktop = d
  BY <1>1, <1>2 DEF StopQueued
<1>4. WorkerNext(h) /\ Head(queue[h]) = a /\ worker[h] = Nothing
  BY <1>3, OneWorkerMoves DEF StopQueued
<1>5. DestroysGuest(h)
  BY <1>3, <1>4 DEF WorkerNext, CreatesGuest, CreationFails, FindsActive, WritesStarted, WritesUid, TakesUid,
     WorkerReleases,
     WritesStopped, PressesButton, HeadIs, Nothing
<1>6. Running(d, h) /\ GuestOf(d, h) = g
  BY <1>1 DEF StopQueued, Runs, Running, GuestOf
<1>7. /\ guests' = [guests EXCEPT ![h] = @ \ {g}] /\ events' = Append(events, <<d, h>>)
      /\ worker' = [worker EXCEPT ![h] = At("release", d, h, NoUid)]
      /\ UNCHANGED <<row, feed>> /\ Pops(h) /\ UNCHANGED <<held, faults>> /\ UNCHANGED workerVars
  BY <1>3, <1>4, <1>5, <1>6 DEF DestroysGuest
<1>8. guests \in [Hyps -> SUBSET Guests] /\ worker \in [Hyps -> Places]
  BY DEF Calm, Types, TypeOK
<1>9. /\ \A k \in Hyps : \A f \in guests'[k] : f \in guests[k] /\ (k = h => f # g)
      /\ \A k \in Hyps : \A f \in guests[k] : f \in guests'[k] \/ (k = h /\ f = g)
  BY <1>7, <1>8
<1>10. g.desktop = d /\ \A k \in Hyps : \A f \in guests[k] : f.desktop = d => k = h /\ f = g
  BY <1>1 DEF StopQueued, Runs
<1>11. HasNone(d)'
  BY <1>9, <1>10 DEF HasNone
<1>12. \A u \in Uids : held[u] = d => UidHyp(u) = h
  BY <1>1, NoUidIsNone DEF StopQueued, Runs, UidIn
<1>13. worker'[h] = At("release", d, h, NoUid) /\ \A k \in Hyps : k # h => worker'[k] = Nothing
  BY <1>7, <1>8 DEF StopQueued, NoWorker
<1>14. events' = << <<d, h>> >>
  <2>1. events = <<>> /\ Append(<<>>, <<d, h>>) = << <<d, h>> >>
    BY DEF StopQueued, NoEvents
  <2> QED
    BY <1>7, <2>1
<1>15. NoQueue'
  BY <1>3, <1>7, PopsLast DEF Calm
<1>16. OnlyTold(d, "Stopped")'
  BY <1>7 DEF StopQueued, NoFeed, OnlyTold, workerVars
<1>17. worker'[h].pc = "release" /\ worker'[h] # Nothing
  BY <1>13 DEF At, Nothing
<1>18. listener' = Nothing /\ row' = row /\ row[d].status = "Stopping" /\ held' = held
  BY <1>7 DEF StopQueued, NoEvents, workerVars
<1>19. Winding(d, h)'
  BY <1>11, <1>12, <1>13, <1>14, <1>15, <1>16, <1>17, <1>18 DEF Winding
<1>20. Concerns(d) /\ KeepsVlan(d)
  BY <1>7, <1>9, <1>10 DEF Concerns, KeepsVlan, Placed, workerVars
<1> QED
  BY <1>19, <1>20 DEF Advances, InFlight

LEMMA ShutdownAskedStep ==
    ASSUME Calm, NEW d \in Desktops, NEW g \in Guests, ShutdownAsked(d, g), ServerNext
    PROVE  Advances(d)
<1>1. Head(feed).new = "Shutting-down"
  BY OneChange DEF ShutdownAsked, Calm, Statuses
<1>2. /\ OneQueued(row[d].hyp, [type |-> "shutdown", desktop |-> d, uid |-> NoUid, vlan |-> NoVlan])'
      /\ feed' = <<>> /\ engine' = Nothing /\ UNCHANGED <<row, held, faults>> /\ UNCHANGED engineVars
  BY <1>1, StopIsHandled DEF ShutdownAsked
<1>3. Runs(d, row[d].hyp, g)'
  BY <1>2 DEF ShutdownAsked, Runs, engineVars
<1>4. ShutdownQueued(d, g)'
  BY <1>2, <1>3, <1>3 DEF ShutdownAsked, ShutdownQueued, NoFeed, NoWorker, NoEvents, engineVars
<1>5. Concerns(d) /\ KeepsVlan(d)
  BY <1>2 DEF Concerns, KeepsVlan, Placed, ShutdownAsked, engineVars
<1> QED
  BY <1>4, <1>5 DEF Advances, InFlight

LEMMA ShutdownQueuedStep ==
    ASSUME Calm, NEW d \in Desktops, NEW g \in Guests, ShutdownQueued(d, g), ServerNext
    PROVE  Advances(d)
<1>1. PICK h \in Hyps : h = row[d].hyp
  BY DEF ShutdownQueued, Runs
<1>2. PICK a : a = [type |-> "shutdown", desktop |-> d, uid |-> NoUid, vlan |-> NoVlan]
  OBVIOUS
<1>3. OneQueued(h, a) /\ a.type = "shutdown" /\ a.desktop = d
  BY <1>1, <1>2 DEF ShutdownQueued
<1>4. WorkerNext(h) /\ Head(queue[h]) = a /\ worker[h] = Nothing
  BY <1>3, OneWorkerMoves DEF ShutdownQueued
<1>5. PressesButton(h)
  BY <1>3, <1>4 DEF WorkerNext, CreatesGuest, CreationFails, FindsActive, WritesStarted, WritesUid, TakesUid,
     WorkerReleases,
     WritesStopped, DestroysGuest, HeadIs, Nothing
<1>6. Running(d, h)
  BY <1>1 DEF ShutdownQueued, Runs, Running
<1>7. Put(d, "Shutting-down", h) /\ Pops(h) /\ UNCHANGED <<held, worker, guests, events, faults>> /\ UNCHANGED workerVars
  BY <1>3, <1>4, <1>5, <1>6 DEF PressesButton
<1>8. TypeOK /\ row[d].status = "Shutting-down"
  BY DEF Calm, Types, ShutdownQueued
<1>9. /\ row'[d].status = "Shutting-down" /\ row'[d].hyp = h /\ row'[d].vlan = row[d].vlan
      /\ \A e \in Desktops : e # d => row'[e] = row[e]
      /\ feed' = feed
  BY <1>7, <1>8, PutDoes
<1>10. NoQueue'
  BY <1>3, <1>7, PopsLast DEF Calm
<1>11. Runs(d, row[d].hyp, g)'
  BY <1>1, <1>7, <1>9 DEF Runs, ShutdownQueued
<1>12. Settled(d)'
  BY <1>9, <1>11 DEF Settled, Up
<1>13. Done(d)'
  BY <1>7, <1>9, <1>10, <1>12 DEF Done, ShutdownQueued, NoFeed, NoWorker, NoEvents, workerVars
<1>14. Concerns(d) /\ KeepsVlan(d)
  BY <1>7, <1>8, <1>9 DEF Concerns, KeepsVlan, Placed, workerVars
<1> QED
  BY <1>13, <1>14 DEF Advances, InFlight

LEMMA DoneStep ==
    ASSUME NEW d \in Desktops, Done(d)
    PROVE  ~ServerNext
BY EngineIdle, WorkersIdle, EventsIdle DEF Done, NoQueue, NoWorker, ServerNext

LEMMA ReleaseOfOne ==
    ASSUME Patient, Types, NEW d \in Desktops, NEW h, Release(d, h) \/ ReleaseAtEvent(d, h),
           \A u \in Uids : held[u] = d => UidHyp(u) = h, d # Free
    PROVE  /\ HoldsNone(d)'
           /\ \A u \in Uids : held'[u] = held[u] \/ (held[u] = d /\ held'[u] = Free)
<1>1. held' = [u \in Uids |-> IF UidHyp(u) = h /\ held[u] = d THEN Free ELSE held[u]]
  BY DEF Release, ReleaseAtEvent, ReleaseOwn, Patient
<1> QED
  BY <1>1 DEF HoldsNone

LEMMA WindingStep ==
    ASSUME Calm, NEW d \in Desktops, NEW h \in Hyps, Winding(d, h), ServerNext
    PROVE  Advances(d)
<1> DEFINE W(pc) == At(pc, d, h, NoUid)
<1>1. /\ W("release").pc = "release" /\ W("stopped").pc = "stopped" /\ Nothing.pc = "idle"
      /\ W("release").desktop = d /\ W("stopped").desktop = d /\ W("release").hyp = h
      /\ [W("release") EXCEPT !.pc = "stopped"] = W("stopped")
      /\ W("release") # Nothing /\ W("stopped") # Nothing
  BY DEF At, Nothing
<1>2. TypeOK /\ worker \in [Hyps -> Places] /\ d # Free
  BY DEF Calm, Types, TypeOK, Assumption
<1>3. CASE EngineNext
  <2>1. OnlyTold(d, "Stopped")' /\ UNCHANGED <<row, engine, held, queue, faults>> /\ UNCHANGED engineVars
    BY <1>3, ToldIsIgnored DEF Winding
  <2>2. Winding(d, h)'
    BY <2>1 DEF Winding, HasNone, HoldsNone, NoQueue, engineVars
  <2>3. Concerns(d) /\ KeepsVlan(d)
    BY <2>1 DEF Concerns, KeepsVlan, Placed, Winding, engineVars
  <2> QED
    BY <2>2, <2>3 DEF Advances, InFlight
<1>4. CASE HandlesEvent
  <2>1. /\ events = << <<d, h>> >> /\ listener = Nothing /\ events' = <<>>
        /\ UNCHANGED held /\ UNCHANGED listenerVars
        /\ IF row[d].status = "Stopped" THEN UNCHANGED <<row, feed, listener>>
           ELSE Put(d, "Stopped", NoHyp) /\ listener' = W("release")
    <3>1. events # <<>> /\ events = << <<d, h>> >>
      BY <1>4 DEF HandlesEvent, Winding
    <3>2. Head(events)[1] = d /\ Head(events)[2] = h /\ Tail(events) = <<>>
      BY <3>1
    <3> QED
      BY <1>4, <3>1, <3>2 DEF HandlesEvent
  <2>2. CASE row[d].status = "Stopped"
    <3>1. Winding(d, h)'
      BY <2>1, <2>2 DEF Winding, HasNone, HoldsNone, NoQueue, OnlyTold, listenerVars
    <3>2. Concerns(d) /\ KeepsVlan(d)
      BY <2>1, <2>2 DEF Concerns, KeepsVlan, Placed, listenerVars
    <3> QED
      BY <3>1, <3>2 DEF Advances, InFlight
  <2>3. CASE row[d].status # "Stopped"
    <3>1. Put(d, "Stopped", NoHyp) /\ listener' = W("release") /\ engine' = engine /\ OnlyTold(d, "Stopped")
      BY <2>1, <2>3 DEF listenerVars, Winding
    <3>2. row'[d].status = "Stopped" /\ \A e \in Desktops : e # d => row'[e] = row[e]
      BY <1>2, <3>1, PutDoes
    <3>3. OnlyTold(d, "Stopped")'
      BY <1>2, <3>1, OnlyToldStays DEF Statuses
    <3>4. Winding(d, h)'
      BY <1>1, <2>1, <3>1, <3>2, <3>3 DEF Winding, HasNone, HoldsNone, NoQueue, listenerVars
    <3>5. Concerns(d) /\ KeepsVlan(d)
      BY <2>1, <3>2 DEF Concerns, KeepsVlan, Placed, listenerVars
    <3> QED
      BY <3>4, <3>5 DEF Advances, InFlight
  <2> QED
    BY <2>2, <2>3
<1>5. CASE EventReleases
  <2>1. listener = W("release")
    BY <1>5 DEF EventReleases, Winding
  <2>2. ReleaseAtEvent(d, h) /\ listener' = Nothing /\ UNCHANGED <<row, feed, events>> /\ UNCHANGED listenerVars
    BY <1>1, <1>5, <2>1 DEF EventReleases
  <2>3. /\ HoldsNone(d)'
        /\ \A u \in Uids : held'[u] = held[u] \/ (held[u] = d /\ held'[u] = Free)
    BY <1>2, <2>2, ReleaseOfOne DEF Calm, Winding
  <2>4. Winding(d, h)'
    BY <1>2, <2>2, <2>3 DEF Winding, HasNone, HoldsNone, NoQueue, OnlyTold, listenerVars
  <2>5. Concerns(d) /\ KeepsVlan(d)
    BY <2>2, <2>3 DEF Concerns, KeepsVlan, Placed, Winding, listenerVars
  <2> QED
    BY <2>4, <2>5 DEF Advances, InFlight
<1>6. CASE \E k \in Hyps : WorkerNext(k)
  <2>1. WorkerNext(h) /\ queue[h] = <<>> /\ worker[h] # Nothing
    BY <1>6, WorkersIdle DEF Winding, NoQueue
  <2>2. WorkerReleases(h) \/ WritesStopped(h)
    BY <1>1, <2>1 DEF WorkerNext, CreatesGuest, CreationFails, FindsActive, WritesStarted, WritesUid, TakesUid,
       DestroysGuest,
       PressesButton, HeadIs, Winding
  <2>3. CASE WorkerReleases(h)
    <3>1. worker[h] = W("release")
      BY <1>1, <2>3 DEF WorkerReleases, Winding
    <3>2. /\ Release(d, h) /\ worker' = [worker EXCEPT ![h].pc = "stopped"]
          /\ UNCHANGED <<row, feed, queue, guests, events, faults>> /\ UNCHANGED workerVars
      BY <1>1, <2>3, <3>1 DEF WorkerReleases
    <3>3. worker'[h] = W("stopped") /\ \A k \in Hyps : k # h => worker'[k] = worker[k]
      BY <1>1, <1>2, <3>1, <3>2
    <3>4. /\ HoldsNone(d)'
          /\ \A u \in Uids : held'[u] = held[u] \/ (held[u] = d /\ held'[u] = Free)
      BY <1>2, <3>2, ReleaseOfOne DEF Calm, Winding
    <3>5. \A u \in Uids : held'[u] # d
      BY <3>4 DEF HoldsNone
    <3>6. Winding(d, h)'
      BY <1>1, <3>2, <3>3, <3>4, <3>5 DEF Winding, HasNone, NoQueue, OnlyTold, workerVars
    <3>7. Concerns(d) /\ KeepsVlan(d)
      BY <3>2, <3>4 DEF Concerns, KeepsVlan, Placed, Winding, workerVars
    <3> QED
      BY <3>6, <3>7 DEF Advances, InFlight
  <2>4. CASE WritesStopped(h)
    <3>1. worker[h] = W("stopped")
      BY <1>1, <2>4 DEF WritesStopped, Winding
    <3>2. /\ Put(d, "Stopped", NoHyp) /\ worker' = [worker EXCEPT ![h] = Nothing]
          /\ UNCHANGED <<held, queue, guests, events, faults>> /\ UNCHANGED workerVars
      BY <1>1, <2>4, <3>1 DEF WritesStopped
    <3>3. row'[d].status = "Stopped" /\ \A e \in Desktops : e # d => row'[e] = row[e]
      BY <1>2, <3>2, PutDoes
    <3>4. OnlyTold(d, "Stopped") /\ engine' = engine /\ HoldsNone(d)
      BY <1>1, <3>1, <3>2 DEF Winding, workerVars
    <3>5. OnlyTold(d, "Stopped")'
      BY <1>2, <3>2, <3>4, OnlyToldStays DEF Statuses
    <3>6. worker'[h] = Nothing /\ \A k \in Hyps : k # h => worker'[k] = worker[k]
      BY <1>2, <3>2
    <3>7. Winding(d, h)'
      BY <1>1, <3>2, <3>3, <3>4, <3>5, <3>6 DEF Winding, HasNone, HoldsNone, NoQueue, workerVars
    <3>8. Concerns(d) /\ KeepsVlan(d)
      BY <3>2, <3>3 DEF Concerns, KeepsVlan, Placed, Winding, workerVars
    <3> QED
      BY <3>7, <3>8 DEF Advances, InFlight
  <2> QED
    BY <2>2, <2>3, <2>4
<1> QED
  BY <1>3, <1>4, <1>5, <1>6 DEF ServerNext

----------------------------------------------------------------------------
(* All steps.                                                              *)

LEMMA ServerAdvances ==
    ASSUME Calm, NEW d \in Desktops, OneInFlight(d), ServerNext
    PROVE  Concerns(d) /\ InFlight(d)' /\ (KeepsVlan(d) \/ TakesVlan(d))
<1>1. InFlight(d) /\ \A e \in Desktops : e # d => Settled(e)
  BY DEF OneInFlight
<1>2. CASE StartAsked(d)
  BY <1>2, StartAskedStep DEF InFlight
<1>3. ASSUME NEW h \in Hyps, NEW u \in Uids \cup {NoUid}, Reserving(d, h, u) \/ StartQueued(d, h, u)
      PROVE  Advances(d)
  BY <1>1, <1>3, ReservingStep, StartQueuedStep
<1>4. ASSUME NEW h \in Hyps, NEW g \in Guests, Creating(d, h, g) \/ Rising(d, h, g)
      PROVE  Advances(d)
  BY <1>4, CreatingStep, RisingStep
<1>5. ASSUME NEW g \in Guests, StopAsked(d, g) \/ StopQueued(d, g) \/ ShutdownAsked(d, g) \/ ShutdownQueued(d, g)
      PROVE  Advances(d)
  BY <1>5, StopAskedStep, StopQueuedStep, ShutdownAskedStep, ShutdownQueuedStep
<1>6. ASSUME NEW h \in Hyps, Winding(d, h)
      PROVE  Advances(d)
  BY <1>6, WindingStep
<1>7. StartAsked(d) \/ Advances(d)
  BY <1>1, <1>3, <1>4, <1>5, <1>6, DoneStep, ChoosingStep, FailingStep DEF InFlight
<1> QED
  BY <1>2, <1>7 DEF Advances

\* When everything is quiet, what was going on is done.
LEMMA QuietIsRest ==
    ASSUME Types, NEW d \in Desktops, OneInFlight(d), Quiet
    PROVE  AtRest
<1>1. /\ feed = <<>> /\ engine.pc \in {"idle", "dead"} /\ events = <<>> /\ listener = Nothing
      /\ \A h \in Hyps : worker[h] = Nothing /\ queue[h] = <<>>
  BY DEF Quiet
<1>2. NoQueue /\ NoWorker /\ NoEvents
  BY <1>1 DEF NoQueue, NoWorker, NoEvents
<1>3. ~StartAsked(d) /\ ~Choosing(d)
  BY <1>1 DEF StartAsked, Told, Choosing, At
<1>4. \A h \in Hyps, u \in Uids \cup {NoUid} : ~Reserving(d, h, u) /\ ~StartQueued(d, h, u)
  BY <1>1 DEF Reserving, StartQueued, OneQueued, At
<1>5. \A h \in Hyps, g \in Guests : ~Creating(d, h, g)
  BY <1>1 DEF Creating, OneWorks, At, Nothing
<1>6. \A g \in Guests : ~StopAsked(d, g) /\ ~StopQueued(d, g) /\ ~ShutdownAsked(d, g) /\ ~ShutdownQueued(d, g)
  BY <1>1 DEF StopAsked, StopQueued, ShutdownAsked, ShutdownQueued, Told, OneQueued, Runs
<1>7. \A h \in Hyps, g \in Guests : Rising(d, h, g) => Settled(d) /\ engine = Nothing
  BY DEF Rising, Settled, Up, OnlyTold
<1>8. Failing(d) => Settled(d) /\ engine = Nothing
  BY DEF Failing, Settled, Down, OnlyTold
<1>9. \A h \in Hyps : Winding(d, h) => Settled(d) /\ engine = Nothing
  BY <1>1 DEF Winding, Settled, Down, OnlyTold, Nothing
<1>10. Done(d) => Settled(d) /\ engine = Nothing
  BY DEF Done, NoFeed
<1>11. Settled(d) /\ engine = Nothing
  BY <1>3, <1>4, <1>5, <1>6, <1>7, <1>8, <1>9, <1>10 DEF OneInFlight, InFlight
<1> QED
  BY <1>1, <1>2, <1>11 DEF AtRest, NoFeed, OneInFlight

\* What users begin when everything is quiet.
LEMMA UserBegins ==
    ASSUME Calm, AtRest, UserNext
    PROVE  \E d \in Desktops : Concerns(d) /\ InFlight(d)' /\ KeepsVlan(d)
<1>1. feed = <<>> /\ TypeOK /\ events = <<>> /\ NoUid \notin Uids
  BY NoUidIsNone DEF AtRest, NoFeed, NoEvents, Calm, Types
<1>2. ASSUME NEW d \in Desktops, AsksStart(d) \/ AsksStop(d) \/ AsksShutdown(d)
      PROVE  Concerns(d) /\ InFlight(d)' /\ KeepsVlan(d)
  <2>1. PICK s \in {"Starting", "Stopping", "Shutting-down"} :
          /\ row' = [row EXCEPT ![d].status = s] /\ Tell(d, s) /\ UNCHANGED userVars
          /\ s = "Starting" => row[d].status \in {"Stopped", "Failed"}
          /\ s = "Stopping" => row[d].status \in {"Started", "Shutting-down"}
          /\ s = "Shutting-down" => row[d].status = "Started" /\ "shutdown" \in Ops
    BY <1>2 DEF AsksStart, AsksStop, AsksShutdown, Asks
  <2>2. row \in [Desktops -> Rows]
    BY <1>1 DEF TypeOK
  <2>3. /\ row'[d].status = s /\ row'[d].hyp = row[d].hyp /\ row'[d].vlan = row[d].vlan
        /\ \A e \in Desktops : e # d => row'[e] = row[e]
    BY <2>1, <2>2 DEF Rows
  <2>4. feed' = <<[desktop |-> d, old |-> row[d].status, new |-> s]>>
    BY <1>1, <2>1 DEF Tell
  <2>5. (NoQueue /\ NoWorker /\ NoEvents)' /\ engine' = Nothing
    BY <2>1 DEF AtRest, NoFeed, NoQueue, NoWorker, NoEvents, userVars
  <2>6. Concerns(d)
    BY <2>1, <2>3 DEF Concerns, userVars
  <2>7. KeepsVlan(d)
    BY <2>1, <2>3, <2>4 DEF KeepsVlan, Placed
  <2>8. Settled(d)
    BY DEF AtRest
  <2>9. CASE s = "Starting"
    <3>1. Down(d)
      BY <2>1, <2>8, <2>9 DEF Settled, Up
    <3>2. Told(d, {"Stopped", "Failed"}, "Starting")'
      BY <2>1, <2>4, <2>5, <2>9 DEF Told
    <3>3. StartAsked(d)'
      BY <2>1, <2>3, <2>5, <2>9, <3>1, <3>2 DEF StartAsked, Down, HasNone, HoldsNone, userVars
    <3> QED
      BY <2>6, <2>7, <3>3 DEF InFlight
  <2>10. CASE s # "Starting"
    <3>1. PICK g \in Guests : Runs(d, row[d].hyp, g)
      BY <2>1, <2>8, <2>10 DEF Settled, Up, Down
    <3>2. Runs(d, row[d].hyp, g)'
      BY <2>1, <2>3, <3>1 DEF Runs, userVars
    <3>3. CASE s = "Stopping"
      <4>1. Told(d, {"Started", "Shutting-down"}, "Stopping")'
        BY <2>1, <2>4, <2>5, <3>3 DEF Told
      <4>2. StopAsked(d, g)'
        BY <2>3, <2>5, <3>2, <3>3, <4>1 DEF StopAsked
      <4> QED
        BY <2>6, <2>7, <4>2 DEF InFlight
    <3>4. CASE s = "Shutting-down"
      <4>1. Told(d, {"Started"}, "Shutting-down")'
        BY <2>1, <2>4, <2>5, <3>4 DEF Told
      <4>2. ShutdownAsked(d, g)'
        BY <2>3, <2>5, <3>2, <3>4, <4>1 DEF ShutdownAsked
      <4> QED
        BY <2>6, <2>7, <4>2 DEF InFlight
    <3> QED
      BY <2>10, <3>3, <3>4
  <2> QED
    BY <2>9, <2>10
<1>3. ASSUME NEW h \in Hyps, GuestEnds(h)
      PROVE  \E d \in Desktops : Concerns(d) /\ InFlight(d)' /\ KeepsVlan(d)
  <2>1. PICK g \in guests[h] :
          /\ guests' = [guests EXCEPT ![h] = @ \ {g}]
          /\ events' = IF h \in online THEN Append(events, <<g.desktop, h>>) ELSE events
          /\ UNCHANGED <<row, feed, engine, held, device, queue, worker, listener, online, faults>>
    BY <1>3 DEF GuestEnds
  <2>2. PICK d \in Desktops : d = g.desktop
    BY GuestOfDesktop DEF Calm
  <2>3. Runs(d, row[d].hyp, g) /\ h = row[d].hyp
    BY <2>2, HoldsIts DEF Calm, AtRest
  <2>4. row[d].status \in {"Started", "Shutting-down"}
    <3>1. ~Down(d)
      BY <2>2 DEF Down, HasNone
    <3> QED
      BY <3>1 DEF AtRest, Settled, Up
  <2>5. guests \in [Hyps -> SUBSET Guests]
    BY <1>1 DEF TypeOK
  <2>6. /\ \A k \in Hyps : \A f \in guests'[k] : f \in guests[k] /\ (k = h => f # g)
        /\ \A k \in Hyps : \A f \in guests[k] : f \in guests'[k] \/ (k = h /\ f = g)
    BY <2>1, <2>5
  <2>7. g.desktop = d /\ \A k \in Hyps : \A f \in guests[k] : f.desktop = d => k = h /\ f = g
    BY <2>3 DEF Runs
  <2>8. HasNone(d)'
    BY <2>6, <2>7 DEF HasNone
  <2>9. \A u \in Uids : held[u] = d => UidHyp(u) = h
    BY <1>1, <2>3 DEF Runs, UidIn
  <2>10. events' = << <<d, h>> >>
    <3>1. Append(<<>>, <<d, h>>) = << <<d, h>> >>
      OBVIOUS
    <3> QED
      BY <1>1, <2>1, <2>2, <3>1 DEF Calm, AllWell
  <2>11. OnlyTold(d, "Stopped")'
    BY <1>1, <2>1 DEF OnlyTold, AtRest, NoFeed
  <2>12. worker[h] = Nothing /\ Nothing.pc # "stopped"
    BY DEF AtRest, NoWorker, Nothing
  <2>13. Winding(d, h)'
    BY <2>1, <2>4, <2>8, <2>9, <2>10, <2>11, <2>12 DEF Winding, AtRest, NoQueue, NoWorker, NoEvents, HoldsNone
  <2>14. Concerns(d) /\ KeepsVlan(d)
    BY <2>1, <2>6, <2>7 DEF Concerns, KeepsVlan, Placed
  <2> QED
    BY <2>13, <2>14 DEF InFlight
<1> QED
  BY <1>2, <1>3 DEF UserNext

\* One desktop is concerned by a step, the others stay settled.
LEMMA OneStep ==
    ASSUME Assumption, Patient, Types, Types', OneAtATime, Next
    PROVE  \E d \in Desktops : /\ \A e \in Desktops : e # d => Settled(e)
                               /\ Concerns(d) /\ InFlight(d)' /\ (KeepsVlan(d) \/ TakesVlan(d))
<1>1. Calm
  BY DEF Calm, OneAtATime
<1>2. ServerNext \/ (Quiet /\ UserNext)
  BY <1>1, OnlyTheseSteps DEF Calm
<1>3. AtRest => ~ServerNext
  BY EngineIdle, WorkersIdle, EventsIdle DEF AtRest, NoQueue, NoWorker, ServerNext
<1>4. CASE ServerNext
  <2>1. PICK d \in Desktops : OneInFlight(d)
    BY <1>3, <1>4 DEF OneAtATime
  <2> QED
    BY <1>1, <1>4, <2>1, ServerAdvances DEF OneInFlight
<1>5. CASE Quiet /\ UserNext
  <2>1. AtRest
    BY <1>5, QuietIsRest DEF OneAtATime
  <2> QED
    BY <1>1, <1>5, <2>1, UserBegins DEF AtRest
<1> QED
  BY <1>2, <1>4, <1>5

LEMMA OneAtATimeStep ==
    ASSUME Assumption, Patient, Types, Types', OneAtATime, [Next]_vars
    PROVE  OneAtATime'
<1>1. CASE UNCHANGED vars
  <2>1. /\ (NoFeed /\ NoQueue /\ NoWorker /\ NoEvents)' = (NoFeed /\ NoQueue /\ NoWorker /\ NoEvents)
        /\ AllWell' = AllWell
    BY <1>1 DEF vars, NoFeed, NoQueue, NoWorker, NoEvents, AllWell
  <2>2. ASSUME NEW d \in Desktops
        PROVE  Settled(d)' = Settled(d)
    BY <1>1 DEF vars, Settled, Up, Down, Runs, HasNone, HoldsNone
  <2>3. ASSUME NEW d \in Desktops, InFlight(d)
        PROVE  InFlight(d)'
    <3>1. StartAsked(d) \/ Choosing(d) \/ Failing(d) \/ Done(d) => InFlight(d)'
      <4>1. Done(d) => Done(d)'
        BY <2>1, <2>2 DEF Done
      <4>2. StartAsked(d) \/ Choosing(d) \/ Failing(d) => (StartAsked(d) \/ Choosing(d) \/ Failing(d))'
        BY <1>1, <2>1 DEF vars, StartAsked, Choosing, Failing, Told, OnlyTold, HasNone, HoldsNone, NoQueue, NoWorker,
           NoEvents
      <4> QED
        BY <4>1, <4>2 DEF InFlight
    <3>2. ASSUME NEW h \in Hyps, NEW u \in Uids \cup {NoUid}, Reserving(d, h, u) \/ StartQueued(d, h, u)
          PROVE  InFlight(d)'
      <4>1. (Reserving(d, h, u) \/ StartQueued(d, h, u))'
        BY <1>1, <3>2 DEF vars, Reserving, StartQueued, HasNone, HoldsNone, UidIn, OneQueued, NoFeed, NoQueue,
           NoWorker, NoEvents
      <4> QED
        BY <4>1 DEF InFlight
    <3>3. ASSUME NEW h \in Hyps, NEW g \in Guests, Creating(d, h, g) \/ Rising(d, h, g)
          PROVE  InFlight(d)'
      <4>1. (Creating(d, h, g) \/ Rising(d, h, g))'
        BY <1>1, <3>3 DEF vars, Creating, Rising, Runs, OneWorks, OnlyTold, NoFeed, NoQueue, NoWorker, NoEvents
      <4> QED
        BY <4>1 DEF InFlight
    <3>4. ASSUME NEW g \in Guests,
                 StopAsked(d, g) \/ StopQueued(d, g) \/ ShutdownAsked(d, g) \/ ShutdownQueued(d, g)
          PROVE  InFlight(d)'
      <4>1. Runs(d, row[d].hyp, g)' = Runs(d, row[d].hyp, g)
        BY <1>1 DEF vars, Runs
      <4>2. (StopAsked(d, g) \/ StopQueued(d, g) \/ ShutdownAsked(d, g) \/ ShutdownQueued(d, g))'
        BY <1>1, <3>4, <4>1 DEF vars, StopAsked, StopQueued, ShutdownAsked, ShutdownQueued, Told, OneQueued,
           NoFeed, NoQueue, NoWorker, NoEvents
      <4> QED
        BY <4>2 DEF InFlight
    <3>5. ASSUME NEW h \in Hyps, Winding(d, h)
          PROVE  InFlight(d)'
      <4>1. Winding(d, h)'
        BY <1>1, <3>5 DEF vars, Winding, HasNone, HoldsNone, OnlyTold, NoQueue
      <4> QED
        BY <4>1 DEF InFlight
    <3> QED
      BY <2>3, <3>1, <3>2, <3>3, <3>4, <3>5 DEF InFlight
  <2> QED
    BY <2>1, <2>2, <2>3 DEF OneAtATime, AtRest, OneInFlight
<1>2. CASE Next
  <2>1. PICK d \in Desktops : /\ \A e \in Desktops : e # d => Settled(e)
                              /\ Concerns(d) /\ InFlight(d)'
    BY <1>2, OneStep
  <2>2. \A e \in Desktops : e # d => Settled(e)'
    BY <2>1, OthersStaySettled
  <2>3. OneInFlight(d)'
    BY <2>1, <2>2 DEF OneInFlight
  <2>4. AllWell'
    BY <2>1 DEF Concerns, OneAtATime, AllWell
  <2> QED
    BY <2>3, <2>4 DEF OneAtATime
<1> QED
  BY <1>1, <1>2

LEMMA OneAtATimeInit == Assumption /\ Init => OneAtATime
<1> SUFFICES ASSUME Assumption, Init PROVE OneAtATime
  OBVIOUS
<1>1. \A d \in Desktops : Down(d)
  BY DEF Init, Down, HasNone, HoldsNone, Assumption
<1>2. AllWell /\ NoFeed /\ NoQueue /\ NoWorker /\ NoEvents
  BY DEF Init, AllWell, NoFeed, NoQueue, NoWorker, NoEvents
<1> QED
  BY <1>1, <1>2 DEF OneAtATime, AtRest, Settled

LEMMA OneAtATimeInvariant == Assumption /\ Patient => (Spec => [](Types /\ OneAtATime))
<1> SUFFICES ASSUME Assumption, Patient PROVE Spec => [](Types /\ OneAtATime)
  OBVIOUS
<1>1. Init => Types /\ OneAtATime
  BY TypesInit, OneAtATimeInit
<1>2. Types /\ OneAtATime /\ [Next]_vars => (Types /\ OneAtATime)'
  BY TypesStep, OneAtATimeStep
<1> QED
  BY <1>1, <1>2, PTL DEF Spec

----------------------------------------------------------------------------
(* The uids of the cards.                                                  *)

\* A desktop in flight has no guest, or one with its VLAN and uid.
LEMMA RunsOrNot ==
    ASSUME NEW d \in Desktops, InFlight(d)
    PROVE  HasNone(d) \/ (Placed(d) /\ \E h \in Hyps, g \in Guests : Runs(d, h, g))
<1>1. ASSUME Settled(d) PROVE HasNone(d) \/ (Placed(d) /\ \E h \in Hyps, g \in Guests : Runs(d, h, g))
  BY <1>1 DEF Settled, Up, Down, Placed, Runs
<1>2. StartAsked(d) \/ Choosing(d) \/ Failing(d) => HasNone(d)
  BY DEF StartAsked, Choosing, Failing
<1>3. \A h \in Hyps, u \in Uids \cup {NoUid} : Reserving(d, h, u) \/ StartQueued(d, h, u) => HasNone(d)
  BY DEF Reserving, StartQueued
<1>4. \A h \in Hyps, g \in Guests : Creating(d, h, g) \/ Rising(d, h, g) => Placed(d) /\ Runs(d, h, g)
  BY DEF Creating, Rising, Placed, NoFeed
<1>5. \A g \in Guests : StopAsked(d, g) \/ StopQueued(d, g) \/ ShutdownAsked(d, g) \/ ShutdownQueued(d, g) =>
         Placed(d) /\ row[d].hyp \in Hyps /\ Runs(d, row[d].hyp, g)
  BY DEF StopAsked, StopQueued, ShutdownAsked, ShutdownQueued, Placed, Runs
<1>6. \A h \in Hyps : Winding(d, h) => HasNone(d)
  BY DEF Winding
<1> QED
  BY <1>1, <1>2, <1>3, <1>4, <1>5, <1>6 DEF InFlight, Done

LEMMA GuestIsPlaced ==
    ASSUME Types, OneAtATime, NEW h \in Hyps, NEW g \in guests[h]
    PROVE  g.desktop \in Desktops /\ Placed(g.desktop) /\ Runs(g.desktop, h, g)
<1>1. PICK d \in Desktops : d = g.desktop
  BY GuestOfDesktop
<1>2. CASE Settled(d)
  <2>1. Runs(d, h, g)
    BY <1>1, <1>2, HoldsIts
  <2>2. ~Down(d)
    BY <1>1 DEF Down, HasNone
  <2> QED
    BY <1>1, <1>2, <2>1, <2>2 DEF Settled, Up, Placed
<1>3. CASE InFlight(d)
  <2>1. ~HasNone(d)
    BY <1>1 DEF HasNone
  <2>2. PICK k \in Hyps, f \in Guests : Placed(d) /\ Runs(d, k, f)
    BY <1>3, <2>1, RunsOrNot
  <2>3. k = h /\ f = g
    BY <1>1, <2>2 DEF Runs
  <2> QED
    BY <1>1, <2>2, <2>3
<1> QED
  BY <1>2, <1>3 DEF OneAtATime, AtRest, OneInFlight

LEMMA HeldAtRest ==
    ASSUME Types, AtRest
    PROVE  \A u \in Uids : held[u] # Free => \E g \in guests[UidHyp(u)] : g.uid = u /\ g.desktop = held[u]
<1> SUFFICES ASSUME NEW u \in Uids, held[u] # Free
             PROVE  \E g \in guests[UidHyp(u)] : g.uid = u /\ g.desktop = held[u]
  OBVIOUS
<1>1. PICK e \in Desktops : e = held[u]
  BY DEF Types, TypeOK
<1>2. ~Down(e)
  BY <1>1 DEF Down, HoldsNone
<1>3. PICK g \in Guests : Runs(e, row[e].hyp, g)
  BY <1>2 DEF AtRest, Settled, Up
<1>4. g.uid = u /\ g.desktop = e /\ g \in guests[row[e].hyp]
  BY <1>1, <1>3 DEF Runs
<1>5. row[e].hyp = UidHyp(u)
  BY <1>3, <1>4, NoUidIsNone DEF Runs, UidIn
<1> QED
  BY <1>1, <1>4, <1>5

LEMMA UidsFollow ==
    ASSUME Types, OneAtATime
    PROVE  UidsAreHeld
<1>1. GuestHoldsUid
  <2> SUFFICES ASSUME NEW h \in Hyps, NEW g \in guests[h], g.uid # NoUid
               PROVE  held[g.uid] = g.desktop
    BY DEF GuestHoldsUid
  <2>1. Runs(g.desktop, h, g)
    BY GuestIsPlaced
  <2> QED
    BY <2>1 DEF Runs, UidIn
<1>2. HeldIsUsed
  <2>1. Quiet => AtRest
    BY QuietIsRest DEF OneAtATime
  <2> QED
    BY <2>1, HeldAtRest DEF HeldIsUsed
<1> QED
  BY <1>1, <1>2 DEF UidsAreHeld

\* A guest with a virtual GPU holds its uid, and when nothing is going on a
\* uid is held for a guest that has it (UidsAreHeld), for users that wait.
THEOREM UidsGoWithGuests == Assumption /\ Patient => (Spec => []UidsAreHeld)
<1> SUFFICES ASSUME Assumption, Patient PROVE Spec => []UidsAreHeld
  OBVIOUS
<1>1. Types /\ OneAtATime => UidsAreHeld
  BY UidsFollow
<1> QED
  BY <1>1, OneAtATimeInvariant, PTL

\* No step takes a uid that is held for another desktop (TakesFreeUids).
THEOREM UidsAreNotTaken == Assumption /\ Patient => (Spec => NoTakeover)
<1> SUFFICES ASSUME Assumption, Patient PROVE Spec => NoTakeover
  OBVIOUS
<1>1. Types /\ OneAtATime /\ Types' /\ [Next]_vars => [TakesFreeUids]_vars
  <2> SUFFICES ASSUME Types, OneAtATime, Types', Next
               PROVE  TakesFreeUids
    OBVIOUS
  <2>1. PICK d \in Desktops : Concerns(d)
    BY OneStep
  <2> QED
    BY <2>1 DEF Concerns, TakesFreeUids
<1> QED
  BY <1>1, OneAtATimeInvariant, PTL DEF Spec, NoTakeover

----------------------------------------------------------------------------
(* The VLANs of users.                                                     *)

\* Desktops are not shut down by users: ActiveVlans does not look at those.
NoneShut == \A d \in Desktops : row[d].status # "Shutting-down"

\* A personal VLAN is what a desktop of the user lends, or one that is free.
LEMMA VlanIsLentOrFree ==
    ASSUME Assumption, NEW d \in Desktops, NEW v \in VlansFor(d)
    PROVE  \/ \E e \in UpOf(d) : v = row[e].vlan /\ v # NoVlan
           \/ /\ v \in (Vlans \ ActiveVlans) \/ (v = NoVlan /\ Vlans \subseteq ActiveVlans)
              /\ \A e \in UpOf(d) : \E f \in UpOf(d) : row[f].vlan = NoVlan
<1> DEFINE some == Vlans \ ActiveVlans
           least == IF some = {} THEN {NoVlan} ELSE {CHOOSE w \in some : \A x \in some : w <= x}
<1>1. \A w \in least : w \in some \/ (w = NoVlan /\ some = {})
  <2>1. some # {} => (CHOOSE w \in some : \A x \in some : w <= x) \in some
    <3>1. some \in SUBSET Vlans
      OBVIOUS
    <3> HIDE DEF some
    <3> QED
      BY <3>1, LeastVlan
  <2> QED
    BY <2>1
<1>2. VlansFor(d) = IF UpOf(d) = {} THEN least
                    ELSE UNION {IF row[e].vlan = NoVlan THEN least ELSE {row[e].vlan} : e \in UpOf(d)}
  BY DEF VlansFor
<1> HIDE DEF least
<1>3. CASE v \in least
  <2>1. CASE UpOf(d) = {} \/ \E f \in UpOf(d) : row[f].vlan = NoVlan
    BY <1>1, <1>3, <2>1
  <2>2. CASE UpOf(d) # {} /\ \A f \in UpOf(d) : row[f].vlan # NoVlan
    BY <1>2, <2>2
  <2> QED
    BY <2>1, <2>2
<1>4. CASE v \notin least
  BY <1>2, <1>4
<1> QED
  BY <1>3, <1>4

LEMMA PlacedOthersAreStarted ==
    ASSUME NoneShut, NEW e \in Desktops, Settled(e), Placed(e)
    PROVE  row[e].status = "Started"
BY DEF NoneShut, Settled, Up, Down, Placed

\* What one step does to the VLANs of the desktops that are placed.
LEMMA VlanStep ==
    ASSUME Assumption, Patient, "shutdown" \notin Ops, Types, Types', OneAtATime, NoneShut, Next
    PROVE  /\ NoneShut'
           /\ \E d \in Desktops :
                /\ \A e \in Desktops : e # d => KeepsVlan(e)
                /\ \/ KeepsVlan(d)
                   \/ /\ TakesVlan(d)
                      /\ \A e \in Desktops : e # d /\ Placed(e)' => row[e].status = "Started"
<1>1. PICK d \in Desktops : /\ \A e \in Desktops : e # d => Settled(e)
                            /\ Concerns(d) /\ (KeepsVlan(d) \/ TakesVlan(d))
  BY OneStep
<1>2. \A e \in Desktops : e # d => KeepsVlan(e)
  BY <1>1, OthersStaySettled
<1>3. \A e \in Desktops : e # d /\ Placed(e)' => row[e].status = "Started"
  BY <1>1, <1>2, PlacedOthersAreStarted DEF KeepsVlan
<1>4. NoneShut'
  <2>1. row'[d].status # "Shutting-down"
    <3>1. CASE KeepsVlan(d)
      BY <3>1 DEF KeepsVlan, NoneShut
    <3>2. CASE TakesVlan(d)
      <4>1. PICK v : row' = [row EXCEPT ![d].vlan = v]
        BY <3>2 DEF TakesVlan
      <4>2. row \in [Desktops -> Rows]
        BY DEF Types, TypeOK
      <4> QED
        BY <4>1, <4>2 DEF NoneShut, Rows
    <3> QED
      BY <1>1, <3>1, <3>2
  <2> QED
    BY <1>2, <2>1 DEF KeepsVlan, NoneShut
<1> QED
  BY <1>1, <1>2, <1>3, <1>4

\* The VLAN that a desktop takes.
LEMMA TakesOne ==
    ASSUME Types, NEW d \in Desktops, TakesVlan(d)
    PROVE  /\ \A e \in Desktops : e # d => row'[e] = row[e]
           /\ IF d \in Personal THEN row'[d].vlan \in VlansFor(d) ELSE row'[d].vlan = NoVlan
<1>1. PICK v : row' = [row EXCEPT ![d].vlan = v] /\ v \in IF d \in Personal THEN VlansFor(d) ELSE {NoVlan}
  BY DEF TakesVlan
<1>2. row \in [Desktops -> Rows]
  BY DEF Types, TypeOK
<1>3. row'[d].vlan = v /\ \A e \in Desktops : e # d => row'[e] = row[e]
  BY <1>1, <1>2 DEF Rows
<1> QED
  BY <1>1, <1>3

LEMMA ApartStep ==
    ASSUME Assumption, Patient, "shutdown" \notin Ops, Types, Types', OneAtATime, NoneShut, Apart, Next
    PROVE  Apart'
<1>1. PICK d \in Desktops :
        /\ \A e \in Desktops : e # d => KeepsVlan(e)
        /\ \/ KeepsVlan(d)
           \/ TakesVlan(d) /\ \A e \in Desktops : e # d /\ Placed(e)' => row[e].status = "Started"
  BY VlanStep
<1>2. CASE KeepsVlan(d)
  BY <1>1, <1>2 DEF KeepsVlan, Apart
<1>3. CASE TakesVlan(d) /\ \A e \in Desktops : e # d /\ Placed(e)' => row[e].status = "Started"
  <2>1. ASSUME NEW e \in Desktops, e # d, Placed(e)', User[e] # User[d], row'[e].vlan = row'[d].vlan
        PROVE  row'[d].vlan = NoVlan
    <3>1. row'[e].vlan = row[e].vlan /\ row[e].status = "Started" /\ Placed(e)
      BY <1>3, <2>1, TakesOne DEF Placed
    <3>2. CASE d \in Personal
      <4>1. row'[d].vlan \in VlansFor(d)
        BY <1>3, <3>2, TakesOne
      <4>2. row'[d].vlan \notin Vlans \ ActiveVlans
        BY <2>1, <3>1 DEF ActiveVlans
      <4>3. ASSUME NEW f \in UpOf(d), row'[d].vlan = row[f].vlan
            PROVE  row'[d].vlan = NoVlan
        <5>1. f \in Desktops /\ User[f] = User[d] /\ Placed(f)
          BY DEF UpOf, Placed
        <5> QED
          BY <2>1, <3>1, <4>3, <5>1 DEF Apart
      <4> QED
        BY <4>1, <4>2, <4>3, VlanIsLentOrFree
    <3>3. CASE d \notin Personal
      BY <1>3, <3>3, TakesOne
    <3> QED
      BY <3>2, <3>3
  <2>2. ASSUME NEW e \in Desktops, NEW f \in Desktops, e # d, f # d, Placed(e)', Placed(f)',
               User[e] # User[f], row'[e].vlan = row'[f].vlan
        PROVE  row'[e].vlan = NoVlan
    BY <1>1, <2>2 DEF KeepsVlan, Apart
  <2> QED
    BY <2>1, <2>2 DEF Apart
<1> QED
  BY <1>1, <1>2, <1>3

\* All desktops want a VLAN, and there is one for each user.
EnoughVlans == Personal = Desktops /\ Cardinality({User[d] : d \in Desktops}) <= Cardinality(Vlans)

\* When all VLANs are active, each is that of another user than d's, who has
\* no other: there are more users than VLANs.
LEMMA SomeVlanIsFree ==
    ASSUME Assumption, EnoughVlans, Together, NEW d \in Desktops, UpOf(d) = {}
    PROVE  ~(Vlans \subseteq ActiveVlans)
<1> SUFFICES ASSUME Vlans \subseteq ActiveVlans PROVE FALSE
  OBVIOUS
<1> DEFINE Started == {e \in Desktops : row[e].status = "Started"}
           All == {User[e] : e \in Desktops}
           Others == All \ {User[d]}
           with(v) == CHOOSE e \in Started : row[e].vlan = v
           user == [v \in Vlans |-> User[with(v)]]
<1>1. \A v \in Vlans : with(v) \in Started /\ row[with(v)].vlan = v
  BY DEF ActiveVlans
<1>2. \A e \in Started : e \in Desktops /\ Placed(e) /\ User[e] # User[d]
  BY DEF UpOf, Placed
<1>3. user \in [Vlans -> Others]
  BY <1>1, <1>2
<1>4. IsFiniteSet(All)
  <2> DEFINE f == [e \in Desktops |-> User[e]]
  <2>1. f \in Surjection(Desktops, All)
    BY DEF Surjection
  <2> HIDE DEF f
  <2> QED
    BY <2>1, FS_Surjection DEF Assumption
<1>5. IsFiniteSet(Others) /\ Cardinality(Others) < Cardinality(All)
  <2>1. User[d] \in All
    OBVIOUS
  <2>2. IsFiniteSet(Others) /\ Cardinality(Others) = Cardinality(All) - 1 /\ Cardinality(All) \in Nat
    <3> HIDE DEF All
    <3> QED
      BY <1>4, <2>1, FS_RemoveElement, FS_CardinalityType
  <2> QED
    BY <2>2
<1>6. Cardinality(Others) < Cardinality(Vlans)
  <2>1. Cardinality(All) <= Cardinality(Vlans)
    BY DEF EnoughVlans
  <2>2. Cardinality(Others) \in Nat /\ Cardinality(All) \in Nat /\ Cardinality(Vlans) \in Nat
    <3> HIDE DEF All, Others
    <3> QED
      BY <1>4, <1>5, FS_CardinalityType DEF Assumption
  <2> HIDE DEF All, Others
  <2> QED
    BY <1>5, <2>1, <2>2
<1>7. PICK v \in Vlans, w \in Vlans : v # w /\ user[v] = user[w]
  <2> HIDE DEF All, Others, user
  <2> QED
    BY <1>3, <1>5, <1>6, FS_PigeonHole DEF Assumption
<1>8. User[with(v)] = User[with(w)]
  BY <1>7
<1> HIDE DEF with
<1> QED
  BY <1>1, <1>2, <1>7, <1>8 DEF Together

LEMMA TogetherStep ==
    ASSUME Assumption, Patient, "shutdown" \notin Ops, EnoughVlans, Types, Types', OneAtATime, NoneShut, Together, Next
    PROVE  Together'
<1>1. PICK d \in Desktops :
        /\ \A e \in Desktops : e # d => KeepsVlan(e)
        /\ \/ KeepsVlan(d)
           \/ TakesVlan(d) /\ \A e \in Desktops : e # d /\ Placed(e)' => row[e].status = "Started"
  BY VlanStep
<1>2. CASE KeepsVlan(d)
  BY <1>1, <1>2 DEF KeepsVlan, Together
<1>3. CASE TakesVlan(d) /\ \A e \in Desktops : e # d /\ Placed(e)' => row[e].status = "Started"
  <2>1. row'[d].vlan \in VlansFor(d) /\ \A e \in Desktops : e # d => row'[e] = row[e]
    BY <1>3, TakesOne DEF EnoughVlans
  <2>2. \A e \in UpOf(d) : e \in Desktops /\ Placed(e) /\ row[e].vlan # NoVlan /\ User[e] = User[d]
    BY DEF UpOf, Placed, Together
  <2>3. row'[d].vlan # NoVlan
    <3>1. \/ \E e \in UpOf(d) : row'[d].vlan # NoVlan
          \/ /\ row'[d].vlan \in Vlans \/ Vlans \subseteq ActiveVlans
             /\ UpOf(d) = {}
      BY <2>1, <2>2, VlanIsLentOrFree
    <3> QED
      BY <3>1, SomeVlanIsFree DEF Assumption
  <2>4. ASSUME NEW e \in Desktops, e # d, Placed(e)', User[e] = User[d]
        PROVE  row'[e].vlan = row'[d].vlan
    <3>1. row[e].status = "Started" /\ row'[e].vlan = row[e].vlan /\ Placed(e)
      BY <1>3, <2>1, <2>4 DEF Placed
    <3>2. e \in UpOf(d)
      BY <2>4, <3>1 DEF UpOf
    <3>3. PICK f \in UpOf(d) : row'[d].vlan = row[f].vlan
      BY <2>1, <2>2, <3>2, VlanIsLentOrFree
    <3> QED
      BY <2>2, <2>4, <3>1, <3>3 DEF Together
  <2>5. ASSUME NEW e \in Desktops, NEW f \in Desktops, e # d, f # d, Placed(e)', Placed(f)'
        PROVE  row'[e].vlan # NoVlan /\ (User[e] = User[f] => row'[e].vlan = row'[f].vlan)
    BY <1>1, <2>5 DEF KeepsVlan, Together
  <2> QED
    BY <2>3, <2>4, <2>5 DEF Together
<1> QED
  BY <1>1, <1>2, <1>3

\* Guests have the VLANs of their rows.
LEMMA ApartFollows ==
    ASSUME Types, OneAtATime, Apart
    PROVE  UsersApart
<1> SUFFICES ASSUME NEW h \in Hyps, NEW f \in guests[h], NEW k \in Hyps, NEW g \in guests[k],
                    User[f.desktop] # User[g.desktop], f.vlan = g.vlan
             PROVE  f.vlan = NoVlan
  BY DEF UsersApart
<1>1. /\ f.desktop \in Desktops /\ Placed(f.desktop) /\ f.vlan = row[f.desktop].vlan
      /\ g.desktop \in Desktops /\ Placed(g.desktop) /\ g.vlan = row[g.desktop].vlan
  BY GuestIsPlaced DEF Runs
<1> QED
  BY <1>1 DEF Apart

LEMMA TogetherFollows ==
    ASSUME Types, OneAtATime, Together
    PROVE  UserTogether
<1> SUFFICES ASSUME NEW h \in Hyps, NEW f \in guests[h], NEW k \in Hyps, NEW g \in guests[k],
                    User[f.desktop] = User[g.desktop]
             PROVE  f.vlan = g.vlan
  BY DEF UserTogether
<1>1. /\ f.desktop \in Desktops /\ Placed(f.desktop) /\ f.vlan = row[f.desktop].vlan
      /\ g.desktop \in Desktops /\ Placed(g.desktop) /\ g.vlan = row[g.desktop].vlan
  BY GuestIsPlaced DEF Runs
<1> QED
  BY <1>1 DEF Together

LEMMA VlansInit == Assumption /\ Init => NoneShut /\ Apart /\ Together
BY DEF Init, NoneShut, Apart, Together, Placed

LEMMA PlacesStay ==
    ASSUME NoneShut, UNCHANGED vars
    PROVE  NoneShut' /\ (Apart => Apart') /\ (Together => Together')
BY DEF vars, NoneShut, Apart, Together, Placed

\* Guests of two users are not in one VLAN, for users that wait and do not
\* shut down (UsersApart); there may be fewer VLANs than users.
THEOREM UsersStayApart == Assumption /\ Patient /\ "shutdown" \notin Ops => (Spec => []UsersApart)
<1> SUFFICES ASSUME Assumption, Patient, "shutdown" \notin Ops PROVE Spec => []UsersApart
  OBVIOUS
<1>1. Init => NoneShut /\ Apart
  BY VlansInit
<1>2. Types /\ OneAtATime /\ Types' /\ NoneShut /\ Apart /\ [Next]_vars => (NoneShut /\ Apart)'
  BY VlanStep, ApartStep, PlacesStay
<1>3. Types /\ OneAtATime /\ NoneShut /\ Apart => UsersApart
  BY ApartFollows
<1> QED
  BY <1>1, <1>2, <1>3, OneAtATimeInvariant, PTL DEF Spec

\* If there are enough VLANs, those of a user's guests are the same as well
\* (VlansGoByUser).
THEOREM VlansFollowUsers ==
    Assumption /\ Patient /\ "shutdown" \notin Ops /\ EnoughVlans => (Spec => []VlansGoByUser)
<1> SUFFICES ASSUME Assumption, Patient, "shutdown" \notin Ops, EnoughVlans PROVE Spec => []VlansGoByUser
  OBVIOUS
<1>1. Init => NoneShut /\ Apart /\ Together
  BY VlansInit
<1>2. Types /\ OneAtATime /\ Types' /\ NoneShut /\ Apart /\ Together /\ [Next]_vars => (NoneShut /\ Apart /\ Together)'
  BY VlanStep, ApartStep, TogetherStep, PlacesStay
<1>3. Types /\ OneAtATime /\ NoneShut /\ Apart /\ Together => VlansGoByUser
  BY ApartFollows, TogetherFollows DEF VlansGoByUser
<1> QED
  BY <1>1, <1>2, <1>3, OneAtATimeInvariant, PTL DEF Spec
=============================================================================
