-------------------------- MODULE DesktopRequests --------------------------
(***************************************************************************)
(* The requests for desktops that the API serves: a volatile desktop of a  *)
(* template (POST /desktop), a persistent one, one from scratch, start,    *)
(* stop and delete.  Each request is a thread of the API.  It reads the    *)
(* table in one step and writes it in another, checks quotas in between,   *)
(* and waits up to ten seconds for the engine through a changefeed on the  *)
(* row (WaitStatus).  The engine follows the changes of the rows and acts. *)
(***************************************************************************)
EXTENDS Quotas, SequencesExt

CONSTANTS
    Requests,   \* ids of requests
    Templates,  \* ids of templates
    Names,      \* names of persistent desktops
    Allowed,    \* Allowed[t]: the users a template is shared with
    Hardware,   \* Hardware[t]: virtual CPUs and memory of the desktops of a template
    Ops,        \* what is requested, a subset of AllOps
    Clients,    \* bound on the requests that are served at once
    Seconds,    \* bound on the clock of the API
    Patient,    \* whether users act on a desktop, and a wait ends, only once the engine is done with it
    Failures    \* whether the actions of the engine may fail

AllOps == {"volatile", "persistent", "scratch", "start", "stop", "delete"}

Assumption ==
    /\ QuotasAssumption
    /\ Ops \subseteq AllOps
    /\ DOMAIN Allowed = Templates /\ Hardware \in [Templates -> [v : Nat, m : Nat]]
    /\ IsFiniteSet(Requests) /\ Clients \in Nat /\ Seconds \in Nat \ {0}
    /\ Patient \in BOOLEAN /\ Failures \in BOOLEAN
    /\ Templates \cap Names = {}

VARIABLES
    domains,    \* the rows of the table that are desktops
    feed,       \* per desktop, the changes of its status the engine has not read
    jobs,       \* per desktop, what the engine does for it
    guests,     \* desktops that run
    now,        \* the second the clock of the API shows
    req         \* the requests

vars == <<domains, feed, jobs, guests, now, req>>

(***************************************************************************)
(* Ids: a volatile desktop is named after its user, the time and the name  *)
(* of the template, a persistent one after its user and its own name.      *)
(***************************************************************************)
VolatileIds == Users \X Templates \X (1 .. Seconds)
PersistentIds == Users \X Names \X {0}
Ids == VolatileIds \cup PersistentIds
IsVolatile(d) == d[3] # 0
NoId == <<"none", "none", 0>>

Statuses == {"CreatingAndStarting", "Creating", "CreatingDomainFromDisk", "Stopped", "Starting",
             "Started", "Stopping", "Failed", "Deleting"}
Rows == [user: Users, template: Templates, kind: {"desktop"}, status: Statuses,
         vcpus: Nat, memory: Nat]
Exists(d) == d \in DOMAIN domains
VolatileOf(u, t) == {d \in DOMAIN domains : IsVolatile(d) /\ d[1] = u /\ d[2] = t}
Tables == [domains |-> domains, media |-> <<>>, users |-> Users]

NoGoal == [to |-> "none", final |-> "none", then |-> "none"]
Goal(to, final, then) == [to |-> to, final |-> final, then |-> then]
Idle == [op |-> "none", user |-> "none", template |-> "none", id |-> NoId, pc |-> "idle",
         todo |-> <<>>, goal |-> NoGoal, answer |-> "none"]
\* The engine has nothing left to do for a desktop.
DoneWith(d) == feed[d] = <<>> /\ jobs[d] = {}
Active == {r \in Requests : req[r].pc \notin {"idle", "answered"}}

\* What a request is answered: the codes of the views are 200, 400, 507, 404, 409, 403, 504 and 500.
Answers == {"none", "ok", "bad", "quota", "notfound", "exists", "forbidden", "timeout", "error"}

TypeOK ==
    /\ DOMAIN domains \subseteq Ids
    /\ \A d \in DOMAIN domains : domains[d] \in Rows
    /\ feed \in [Ids -> Seq((Statuses \cup {"none"}) \X Statuses)]
    /\ jobs \in [Ids -> SUBSET {"create", "createStart", "start", "stop", "delete"}]
    /\ guests \subseteq Ids
    /\ now \in 1 .. Seconds
    /\ \A r \in Requests :
         /\ req[r].op \in Ops \cup {"none"}
         /\ req[r].id \in Ids \cup {NoId}
         /\ req[r].pc \in {"idle", "begin", "quota", "both", "look", "write", "wait", "next",
                           "create", "open", "answered"}
         /\ req[r].todo \in Seq(Ids \X Statuses)
         /\ req[r].goal \in {NoGoal, Goal("Starting", "Started", "ok"), Goal("Any", "Started", "ok"),
                             Goal("Stopping", "Stopped", "ok"), Goal("Stopping", "Stopped", "delete"),
                             Goal("Deleting", "gone", "next")}
         /\ req[r].answer \in Answers
         /\ req[r].pc \in {"open", "write", "wait"} => req[r].id \in Ids
         /\ req[r].pc \in {"write", "wait"} => req[r].goal # NoGoal

Init ==
    /\ domains = <<>>
    /\ feed = [d \in Ids |-> <<>>] /\ jobs = [d \in Ids |-> {}] /\ guests = {}
    /\ now = 1
    /\ req = [r \in Requests |-> Idle]

(***************************************************************************)
(* Parts of requests.                                                      *)
(***************************************************************************)
\* A request with some of its fields changed.
With(request, fields) == [f \in DOMAIN request |-> IF f \in DOMAIN fields THEN fields[f] ELSE request[f]]
Go(r, fields) == req' = [req EXCEPT ![r] = With(@, fields)]
Answered(a) == [pc |-> "answered", answer |-> a, goal |-> NoGoal, todo |-> <<>>, id |-> NoId]
OkWith(d) == [pc |-> "answered", answer |-> "ok", goal |-> NoGoal, todo |-> <<>>, id |-> d]

\* The handlers of exceptions of the views for what the quotas raise.
AnswerToQuota(raised) == IF raised = "NameError" THEN "error" ELSE "quota"

\* The handlers of the views for what New, Start, Stop, NewFromTemplate and Delete raise.
AnswerToAction(raised) == IF raised = "DesktopActionTimeout" THEN "timeout" ELSE "error"
AnswerToNew(raised) ==
    IF raised \in {"UserNotFound", "TemplateNotFound", "DesktopNotCreated"} THEN "notfound"
    ELSE AnswerToAction(raised)
AnswerToNamed(raised) ==
    CASE raised \in {"UserNotFound", "TemplateNotFound"} -> "notfound"
      [] raised = "DesktopExists" -> "exists"
      [] OTHER -> "error"
AnswerToDelete(raised) == IF raised \in {"DesktopNotFound", "DesktopDeleteFailed"} THEN "notfound" ELSE "error"

\* A write of a status.
WithStatus(d, s) == IF Exists(d) THEN [domains EXCEPT ![d].status = s] ELSE domains

\* A write of a status by a request: a row that is gone is skipped, the same status is no change.
PutStatus(d, s) ==
    /\ domains' = WithStatus(d, s)
    /\ feed' = IF Exists(d) /\ domains[d].status # s
               THEN [feed EXCEPT ![d] = Append(@, <<domains[d].status, s>>)] ELSE feed
Insert(d, u, t, s) ==
    /\ domains' = [e \in DOMAIN domains \cup {d} |->
                    IF e = d THEN [user |-> u, template |-> t, kind |-> "desktop", status |-> s,
                                   vcpus |-> Hardware[t].v, memory |-> Hardware[t].m]
                    ELSE domains[e]]
    /\ feed' = [feed EXCEPT ![d] = Append(@, <<"none", s>>)]

\* What the change of a row to a status, or its removal ("gone"), does to those who wait for it.
Told(reqs, d, s) ==
    [r \in Requests |->
       IF reqs[r].pc = "wait" /\ reqs[r].id = d /\ reqs[r].goal.final = s
       THEN With(reqs[r], IF reqs[r].goal.then = "ok" THEN OkWith(d)
                          ELSE [pc |-> "next", goal |-> NoGoal,
                                todo |-> IF reqs[r].goal.then = "delete" THEN <<<<d, "Stopped">>>> \o reqs[r].todo
                                         ELSE reqs[r].todo])
       ELSE reqs[r]]

Arrives(r, op, u, t, d) ==
    /\ Cardinality(Active) < Clients
    /\ req[r].pc = "idle" /\ op \in Ops
    /\ Go(r, [op |-> op, user |-> u, template |-> t, id |-> d, pc |-> "begin"])
    /\ UNCHANGED <<domains, feed, jobs, guests, now>>

AsksVolatile(r) == \E u \in Users, t \in Templates : Arrives(r, "volatile", u, t, NoId)
AsksNamed(r) == \E t \in Templates, d \in PersistentIds : Arrives(r, "persistent", d[1], t, d)
\* The hardware of a desktop from scratch is that of the form: here as many kinds as templates.
AsksScratch(r) == \E t \in Templates, d \in PersistentIds : Arrives(r, "scratch", d[1], t, d)
\* Users act on the desktops they see.
AsksAction(r) == \E op \in {"start", "stop", "delete"}, d \in DOMAIN domains :
    /\ Patient => DoneWith(d)
    /\ Arrives(r, op, d[1], domains[d].template, d)

ClockTicks ==
    /\ now < Seconds /\ now' = now + 1
    /\ UNCHANGED <<domains, feed, jobs, guests, req>>

(***************************************************************************)
(* POST /desktop.                                                          *)
(***************************************************************************)
Newest(D) == CHOOSE d \in D : \A e \in D : d[3] >= e[3]

\* allowedTemplateId, then DeleteOthers.  The range of its loop leaves the oldest one out: it does
\* nothing for two desktops, and for more delete_desktop is called without its second argument.
LooksForOthers(r) ==
    LET u == req[r].user  t == req[r].template  others == VolatileOf(u, t)
    IN /\ req[r].pc = "begin" /\ req[r].op = "volatile"
       /\ Go(r, CASE u \notin Allowed[t] -> Answered("forbidden")
                  [] u \in Allowed[t] /\ Cardinality(others) > 2 -> Answered("error")
                  [] u \in Allowed[t] /\ others = {} -> [pc |-> "both"]
                  [] u \in Allowed[t] /\ Cardinality(others) \in {1, 2} ->
                       [pc |-> IF domains[Newest(others)].status = "Stopped" THEN "quota" ELSE "look"])
       /\ UNCHANGED <<domains, feed, jobs, guests, now>>

ChecksBoth(r) ==
    LET raised == DesktopCreateAndStart(Tables, req[r].user)
    IN /\ req[r].pc = "both" /\ req[r].op = "volatile"
       /\ Go(r, IF raised = Fine THEN [pc |-> "look"] ELSE Answered(AnswerToQuota(raised)))
       /\ UNCHANGED <<domains, feed, jobs, guests, now>>

\* New: the only volatile desktop is used when it is Started or Stopped, otherwise all are deleted.
ToDelete(u, t) == LET ds == SetToSeq(VolatileOf(u, t)) IN [k \in DOMAIN ds |-> <<ds[k], domains[ds[k]].status>>]
LooksAtOwn(r) ==
    LET u == req[r].user  t == req[r].template  own == VolatileOf(u, t)
        only == Cardinality(own) = 1  d == CHOOSE x \in own : TRUE
    IN /\ req[r].pc = "look" /\ req[r].op = "volatile"
       /\ Go(r, IF only /\ domains[d].status = "Started" THEN OkWith(d)
                ELSE IF only /\ domains[d].status = "Stopped"
                THEN [pc |-> "write", id |-> d, goal |-> Goal("Starting", "Started", "ok")]
                ELSE [pc |-> "next", todo |-> ToDelete(u, t)])
       /\ UNCHANGED <<domains, feed, jobs, guests, now>>

\* The id holds the second: a second request of the user in it finds its id in the table.
Creates(r) ==
    LET d == <<req[r].user, req[r].template, now>>
    IN /\ req[r].pc = "create"
       /\ IF Exists(d) THEN Go(r, Answered(AnswerToNew("DesktopNotCreated"))) /\ UNCHANGED <<domains, feed>>
          ELSE /\ Insert(d, req[r].user, req[r].template, "CreatingAndStarting")
               /\ Go(r, [pc |-> "open", id |-> d])
       /\ UNCHANGED <<jobs, guests, now>>

\* WaitStatus "Any" opens its changefeed after the insertion.
Opens(r) ==
    /\ req[r].pc = "open"
    /\ Go(r, [pc |-> "wait", goal |-> Goal("Any", "Started", "ok")])
    /\ UNCHANGED <<domains, feed, jobs, guests, now>>

(***************************************************************************)
(* WaitStatus: the changefeed is opened, the status written, and the final *)
(* status awaited.                                                         *)
(***************************************************************************)
Writes(r) ==
    /\ req[r].pc = "write"
    /\ PutStatus(req[r].id, req[r].goal.to)
    /\ Go(r, [pc |-> "wait"])
    /\ UNCHANGED <<jobs, guests, now>>

\* WaitStatus means to raise a DesktopError of code 504, whose constructor raises NameError.  Stop and
\* delete_desktop expect other exceptions, so that it reaches the handlers of the views.
TimesOut(r) ==
    /\ req[r].pc = "wait"
    /\ Patient => DoneWith(req[r].id)
    /\ Go(r, Answered(CASE req[r].op = "volatile" -> AnswerToNew("NameError")
                         [] req[r].op = "delete" -> AnswerToDelete("NameError")
                         [] OTHER -> AnswerToAction("NameError")))
    /\ UNCHANGED <<domains, feed, jobs, guests, now>>

(***************************************************************************)
(* DELETE, and the deletions of New: delete_desktop works with the status  *)
(* that was read before.                                                   *)
(***************************************************************************)
LooksToDelete(r) ==
    LET d == req[r].id
    IN /\ req[r].pc = "begin" /\ req[r].op = "delete"
       /\ Go(r, IF ~Exists(d) THEN Answered(AnswerToDelete("DesktopNotFound"))
                ELSE [pc |-> "next", todo |-> <<<<d, domains[d].status>>>>])
       /\ UNCHANGED <<domains, feed, jobs, guests, now>>

\* Mutant: the row of a desktop that is not stopped is written Failed, Started or not.
StopsFirstNever(s) == FALSE
StopsFirst(s) == s = "Started"

DeletesNext(r) ==
    LET d == req[r].todo[1][1]  s == req[r].todo[1][2]
    IN /\ req[r].pc = "next" /\ req[r].todo # <<>>
       /\ IF StopsFirst(s)
          THEN /\ Go(r, [pc |-> "write", id |-> d, todo |-> Tail(req[r].todo),
                         goal |-> Goal("Stopping", "Stopped", "delete")])
               /\ UNCHANGED <<domains, feed>>
          ELSE /\ Go(r, [pc |-> "write", id |-> d, todo |-> Tail(req[r].todo),
                         goal |-> Goal("Deleting", "gone", "next")])
               /\ IF s \in {"Stopped", "Failed"} THEN UNCHANGED <<domains, feed>> ELSE PutStatus(d, "Failed")
       /\ UNCHANGED <<jobs, guests, now>>

AllDeleted(r) ==
    /\ req[r].pc = "next" /\ req[r].todo = <<>>
    /\ Go(r, IF req[r].op = "delete" THEN OkWith(req[r].id) ELSE [pc |-> "create"])
    /\ UNCHANGED <<domains, feed, jobs, guests, now>>

(***************************************************************************)
(* GET /desktop/start and /desktop/stop.                                   *)
(***************************************************************************)
\* UserDesktop raises DesktopNotFound, which the view does not expect.
LooksUpToStart(r) ==
    /\ req[r].pc = "begin" /\ req[r].op = "start"
    /\ Go(r, IF Exists(req[r].id) THEN [pc |-> "quota"] ELSE Answered("error"))
    /\ UNCHANGED <<domains, feed, jobs, guests, now>>

LooksUpToStop(r) ==
    /\ req[r].pc = "begin" /\ req[r].op = "stop"
    /\ Go(r, IF Exists(req[r].id) THEN [pc |-> "look"] ELSE Answered("error"))
    /\ UNCHANGED <<domains, feed, jobs, guests, now>>

\* DeleteOthers found the desktop Stopped.
ChecksStartOfOwn(r) ==
    LET raised == DesktopStart(Tables, req[r].user)
    IN /\ req[r].pc = "quota" /\ req[r].op = "volatile"
       /\ Go(r, IF raised = Fine THEN [pc |-> "look"] ELSE Answered(AnswerToQuota(raised)))
       /\ UNCHANGED <<domains, feed, jobs, guests, now>>

ChecksStart(r) ==
    LET raised == DesktopStart(Tables, req[r].user)
    IN /\ req[r].pc = "quota" /\ req[r].op = "start"
       /\ Go(r, IF raised = Fine THEN [pc |-> "look"] ELSE Answered(AnswerToQuota(raised)))
       /\ UNCHANGED <<domains, feed, jobs, guests, now>>

LooksToStart(r) ==
    LET d == req[r].id
    IN /\ req[r].pc = "look" /\ req[r].op = "start"
       /\ Go(r, IF ~Exists(d) THEN Answered("error")
                ELSE IF domains[d].status = "Started" THEN OkWith(d)
                ELSE IF domains[d].status \notin {"Stopped", "Failed"} THEN Answered(AnswerToAction("DesktopActionFailed"))
                ELSE [pc |-> "write", goal |-> Goal("Starting", "Started", "ok")])
       /\ UNCHANGED <<domains, feed, jobs, guests, now>>

LooksToStop(r) ==
    LET d == req[r].id
    IN /\ req[r].pc = "look" /\ req[r].op = "stop"
       /\ Go(r, IF ~Exists(d) THEN Answered("error")
                ELSE IF domains[d].status = "Stopped" THEN OkWith(d)
                ELSE IF domains[d].status # "Started" THEN Answered(AnswerToAction("DesktopActionFailed"))
                ELSE [pc |-> "write", goal |-> Goal("Stopping", "Stopped", "ok")])
       /\ UNCHANGED <<domains, feed, jobs, guests, now>>

(***************************************************************************)
(* POST /persistent_desktop.                                               *)
(***************************************************************************)
ChecksNamed(r) ==
    LET raised == DesktopCreate(Tables, req[r].user)
    IN /\ req[r].pc = "begin" /\ req[r].op = "persistent"
       /\ Go(r, IF req[r].user \notin Allowed[req[r].template] THEN Answered("forbidden")
                ELSE IF raised = Fine THEN [pc |-> "look"] ELSE Answered(AnswerToQuota(raised)))
       /\ UNCHANGED <<domains, feed, jobs, guests, now>>

LooksForName(r) ==
    /\ req[r].pc = "look" /\ req[r].op = "persistent"
    /\ Go(r, IF Exists(req[r].id) THEN Answered(AnswerToNamed("DesktopExists")) ELSE [pc |-> "both"])
    /\ UNCHANGED <<domains, feed, jobs, guests, now>>

\* What the request for a persistent desktop is answered when its insertion finds the id in use.
AnswerToConflict(d) == Answered(AnswerToNamed("NewDesktopNotInserted"))
InsertsNamed(r) ==
    LET d == req[r].id
    IN /\ req[r].pc = "both" /\ req[r].op = "persistent"
       /\ IF Exists(d) THEN Go(r, AnswerToConflict(d)) /\ UNCHANGED <<domains, feed>>
          ELSE Insert(d, req[r].user, req[r].template, "Creating") /\ Go(r, OkWith(d))
       /\ UNCHANGED <<jobs, guests, now>>

(***************************************************************************)
(* POST /desktop/from/scratch.  It checks no quota, and does not look at   *)
(* what its insertion returned.                                            *)
(***************************************************************************)
\* The form lacks something.
RefusesScratch(r) ==
    /\ req[r].pc = "begin" /\ req[r].op = "scratch" /\ Go(r, Answered("bad"))
    /\ UNCHANGED <<domains, feed, jobs, guests, now>>

\* Every exception is answered in the same way: that the name is in use ...
AnswerToScratch == Answered("error")
LooksForScratch(r) ==
    /\ req[r].pc = "begin" /\ req[r].op = "scratch"
    /\ Go(r, IF Exists(req[r].id) THEN AnswerToScratch ELSE [pc |-> "both"])
    /\ UNCHANGED <<domains, feed, jobs, guests, now>>

\* ... or that a disk, a medium, a video or an interface of the form is not there.
LacksHardware(r) ==
    /\ req[r].pc = "both" /\ req[r].op = "scratch" /\ Go(r, AnswerToScratch)
    /\ UNCHANGED <<domains, feed, jobs, guests, now>>

InsertsScratch(r) ==
    LET d == req[r].id
    IN /\ req[r].pc = "both" /\ req[r].op = "scratch" /\ Go(r, OkWith(d))
       /\ IF Exists(d) THEN UNCHANGED <<domains, feed>>
          ELSE Insert(d, req[r].user, req[r].template, "CreatingDomainFromDisk")
       /\ UNCHANGED <<jobs, guests, now>>

(***************************************************************************)
(* The engine: DomainsChangesThread reads the changes of a row in order and*)
(* gives work to the workers, which end in their own time.                 *)
(***************************************************************************)
JobFor(old, new) ==
    CASE old = "none" /\ new = "CreatingAndStarting" -> {"createStart"}
      [] old = "none" /\ new \in {"Creating", "CreatingDomainFromDisk"} -> {"create"}
      [] old \in {"Stopped", "Failed"} /\ new = "Starting" -> {"start"}
      [] old = "Started" /\ new = "Stopping" -> {"stop"}
      [] old # "Started" /\ new = "Deleting" -> {"delete"}
      [] OTHER -> {}

EngineReads(d) ==
    /\ feed[d] # <<>>
    /\ feed' = [feed EXCEPT ![d] = Tail(@)]
    /\ jobs' = [jobs EXCEPT ![d] = @ \cup JobFor(feed[d][1][1], feed[d][1][2])]
    /\ UNCHANGED <<domains, guests, now, req>>

\* The end of a job: the status it writes, if the row is there.
Ends(d, job, s, more) ==
    /\ job \in jobs[d]
    /\ jobs' = [jobs EXCEPT ![d] = (@ \ {job}) \cup more]
    /\ domains' = WithStatus(d, s)
    /\ req' = IF Exists(d) THEN Told(req, d, s) ELSE req
    /\ UNCHANGED <<feed, now>>

EngineCreated(d) == Ends(d, "create", "Stopped", {}) /\ UNCHANGED guests
EngineStartsCreated(d) == Ends(d, "createStart", "Starting", {"start"}) /\ UNCHANGED guests
EngineStarted(d) == Ends(d, "start", "Started", {}) /\ guests' = guests \cup {d}
EngineStopped(d) == Ends(d, "stop", "Stopped", {}) /\ guests' = guests \ {d}
EngineFailed(d) ==
    /\ Failures
    /\ \E job \in {"create", "createStart", "start"} : Ends(d, job, "Failed", {})
    /\ UNCHANGED guests
EngineDeleted(d) ==
    /\ "delete" \in jobs[d]
    /\ jobs' = [jobs EXCEPT ![d] = @ \ {"delete"}]
    /\ domains' = [e \in DOMAIN domains \ {d} |-> domains[e]]
    /\ req' = Told(req, d, "gone")
    /\ UNCHANGED <<feed, guests, now>>

\* The guest of a desktop ends by itself, and the engine writes it at the event.
GuestEnds(d) ==
    /\ d \in guests /\ Failures
    /\ guests' = guests \ {d}
    /\ domains' = WithStatus(d, "Stopped")
    /\ req' = IF Exists(d) THEN Told(req, d, "Stopped") ELSE req
    /\ UNCHANGED <<feed, jobs, now>>

Engine == \E d \in Ids : EngineReads(d) \/ EngineCreated(d) \/ EngineStartsCreated(d) \/ EngineStarted(d)
                         \/ EngineStopped(d) \/ EngineFailed(d) \/ EngineDeleted(d) \/ GuestEnds(d)
Api == \E r \in Requests :
    \/ AsksVolatile(r) \/ AsksNamed(r) \/ AsksScratch(r) \/ AsksAction(r)
    \/ LooksForOthers(r) \/ ChecksBoth(r) \/ LooksAtOwn(r) \/ Creates(r) \/ Opens(r)
    \/ Writes(r) \/ TimesOut(r) \/ LooksToDelete(r) \/ DeletesNext(r) \/ AllDeleted(r)
    \/ LooksUpToStart(r) \/ LooksUpToStop(r) \/ ChecksStartOfOwn(r) \/ ChecksStart(r) \/ LooksToStart(r) \/ LooksToStop(r)
    \/ ChecksNamed(r) \/ LooksForName(r) \/ InsertsNamed(r)
    \/ RefusesScratch(r) \/ LooksForScratch(r) \/ LacksHardware(r) \/ InsertsScratch(r)
Next == Api \/ Engine \/ ClockTicks
Spec == Init /\ [][Next]_vars

(***************************************************************************)
(* Properties.                                                             *)
(***************************************************************************)
\* A user has one volatile desktop of a template at most: api_desktops_nonpersistent relies on it
\* ("there should only be a maximum of 1 non persistent desktop").
OneVolatile == \A u \in Users, t \in Templates : Cardinality(VolatileOf(u, t)) <= 1

\* A user never has more desktops than its quota: DesktopCreate counts before the insertion.
DesktopsWithinQuota == \A u \in Users : UserQuota[u] # NoLimit =>
    Cardinality(Desktops(domains, {u})) <= UserQuota[u].d

\* Desktops that run or that the engine is about to start.
RunningOf(u) == {d \in Ids : d[1] = u /\ (d \in guests \/ "start" \in jobs[d])}
\* A user never runs more desktops than its quota: DesktopStart counts those that are Started
\* before the status is written, and the request waits until the desktop is.
RunningWithinQuota == \A u \in Users : UserQuota[u] # NoLimit => Cardinality(RunningOf(u)) <= UserQuota[u].r

\* No guest runs whose desktop was deleted: delete_desktop stops it before.
GuestHasRow == guests \subseteq DOMAIN domains

\* Two requests that create a desktop are never both answered with the same one.
CreatedByOne == \A r, q \in Requests : r # q
    /\ {req[r].op, req[q].op} \subseteq {"persistent", "scratch"}
    /\ req[r].answer = "ok" /\ req[q].answer = "ok" => req[r].id # req[q].id
=============================================================================
