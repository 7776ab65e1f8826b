----------------------------- MODULE MCRequests -----------------------------
(***************************************************************************)
(* Instances of DesktopRequests and of Accounts for TLC, each for the      *)
(* properties that hold under what it lets happen, and the rule that says  *)
(* when a quota is exhausted for every quota up to MaxLimit.  One is       *)
(* chosen at the start, and the state of the others is left out.           *)
(***************************************************************************)
EXTENDS Accounts

CONSTANTS k1, g1, g2, u1, u2, u3, d1, d2, d3, c1, c2, MaxLimit

VARIABLES domains, feed, jobs, guests, now, req,
          category2, group2, user2, domain2, client2, saw2, answer2, ops2, used, limit, scenario
requests == <<domains, feed, jobs, guests, now, req>>
accounts == <<category2, group2, user2, domain2, client2, saw2, answer2, ops2>>
runVars == <<vars, requests, accounts, used, limit, scenario>>

----------------------------------------------------------------------------
(* Requests for desktops.                                                  *)

NoBound == <<>>
Small == [d |-> 2, r |-> 1, t |-> 1, i |-> 1, u |-> 2, v |-> 9, m |-> 9]

OneAsks == [
        users |-> {"u1"}, names |-> {"n1"}, requests |-> 1 .. 3, group |-> NoBound, allowed |-> {"u1"},
        clients |-> 1, seconds |-> 2, patient |-> FALSE, failures |-> TRUE,
        ops |-> {"volatile", "persistent", "delete", "start", "stop"}]
Asked == [
    \* One request after the other, and an engine that fails and is slow.
    alone   |-> [OneAsks EXCEPT !.names = {"n1", "n2"}, !.ops = {"volatile", "persistent", "start", "stop"}],
    \* The same, where desktops are deleted.
    deletes |-> [OneAsks EXCEPT !.seconds = 1, !.ops = {"volatile", "persistent", "delete"}],
    \* The same, and an engine that does what it is asked before users go on.
    patient |-> [OneAsks EXCEPT !.requests = 1 .. 4, !.seconds = 1, !.patient = TRUE, !.failures = FALSE],
    \* Two users at once in one second, one of whom may not use the template.
    pair    |-> [OneAsks EXCEPT !.users = {"u1", "u2"}, !.clients = 2, !.seconds = 1, !.failures = FALSE,
                                !.group = [Small EXCEPT !.d = 9], !.ops = {"volatile", "persistent", "start"}],
    \* Two requests at once of every operation.
    all     |-> [OneAsks EXCEPT !.requests = 1 .. 2, !.clients = 2,
                                !.ops = {"volatile", "persistent", "scratch", "start", "stop", "delete"}]]

R(s) == INSTANCE DesktopRequests WITH
    Users <- Asked[s].users, Templates <- {"t1"}, Names <- Asked[s].names,
    Requests <- Asked[s].requests, GroupOf <- [u \in Asked[s].users |-> "g"],
    CategoryOf <- [u \in Asked[s].users |-> "c"], UserQuota <- [u \in Asked[s].users |-> Small],
    GroupLimits <- [g \in {"g"} |-> Asked[s].group], CategoryLimits <- [c \in {"c"} |-> NoBound],
    NoLimit <- NoBound, Allowed <- [t \in {"t1"} |-> Asked[s].allowed],
    Hardware <- [t \in {"t1"} |-> [v |-> 1, m |-> 1]], Ops <- Asked[s].ops,
    Clients <- Asked[s].clients, Seconds <- Asked[s].seconds, Patient <- Asked[s].patient,
    Failures <- Asked[s].failures

ASSUME \A s \in DOMAIN Asked : R(s)!Assumption

----------------------------------------------------------------------------
(* Users, groups and categories.                                           *)

Alone == [u \in {u1} |-> g1]
Together == [u \in {u1, u2} |-> g1]
Apart == [u \in {u1, u2} |-> IF u = u1 THEN g1 ELSE g2]
Three == [u \in {u1, u2, u3} |-> IF u = u3 THEN g2 ELSE g1]

\* The instance the module extends: one request at a time, and an engine that
\* is not late.
OneCategory == {k1}
TwoGroups == {g1, g2}
ThreeUsers == {u1, u2, u3}
ThreeDomains == {d1, d2, d3}
OneClientOnly == {c1}
MainGroups == {g1}
CategoryOfGroup == [g \in {g1, g2} |-> k1]
OneTwo == {1, 2}

Desktops == {"start", "stop", "create", "template", "delete"}
Limiting == {"user_add", "users_add", "api_user_add", "category_limit_propagate", "group_limit", "group_add",
             "category_add", "api_category_add"}
Personal == {"user_delete", "api_user_delete", "toggle"}
Rows == {"category_delete", "group_delete", "category_add", "api_category_add", "group_add", "api_group_add",
         "category_limit_propagate", "group_limit"}
Whole == {"user_delete", "api_user_delete", "group_delete", "category_delete", "template_delete"} \cup Desktops
OpsOfOne == Limiting \cup Personal \cup Rows \cup Whole

\* Users are added while limits change, users are disabled, enabled and deleted,
\* groups and categories come and go with their limits, or everything is deleted
\* with what is in it.
Bases == [limits |-> [ops |-> Limiting, init |-> {u1, u2, u3}, domains |-> {}],
          toggle |-> [ops |-> Personal, init |-> {u1}, domains |-> {d1, d2}],
          rows   |-> [ops |-> Rows, init |-> {}, domains |-> {}],
          whole  |-> [ops |-> Whole, init |-> {u1, u3}, domains |-> {d1, d2, d3}]]

BaseInit(s) == Init /\ \A u \in Users \ Bases[s].init : user[u] = None

BaseNext(s) ==
    /\ Next
    /\ \A c \in Clients : client'[c].op \in Bases[s].ops \cup {None}
    /\ \A d \in Domains \ Bases[s].domains : domain'[d] = domain[d]

NoBase == Init /\ \A u \in Users : user[u] = None

Others == {"user_delete", "group_delete", "api_group_delete", "api_category_delete", "toggle", "user_add",
           "register", "auto_register", "api_group_add", "category_add", "api_category_add", "group_limit",
           "create", "start"}

OneAccount == [
        in |-> Together, groups |-> {g1}, domains |-> {d1, d2}, clients |-> {c1}, waits |-> {}, slow |-> FALSE,
        settled |-> FALSE, limits |-> {}, max |-> 5, ops |-> {}]
Offices == [
    \* Users are deleted, two at once, with an engine that is late.
    users  |-> [OneAccount EXCEPT !.clients = {c1, c2}, !.waits = {"create", "template"},
                                  !.slow = TRUE, !.max = 4, !.ops = {"user_delete", "api_user_delete"} \cup Desktops],
    \* Users are disabled, enabled and deleted, with an engine that is late.
    late   |-> [OneAccount EXCEPT !.in = Alone, !.waits = {"create", "template"}, !.slow = TRUE,
                                  !.ops = Personal \cup Desktops],
    \* Deletions while desktops are used by others.
    ends   |-> [OneAccount EXCEPT !.in = Alone,
                                  !.ops = {"user_delete", "group_delete", "template_delete"} \cup Desktops],
    \* Two requests at once of all other kinds.
    meet   |-> [OneAccount EXCEPT !.in = Apart, !.groups = {g1, g2}, !.domains = {d1}, !.clients = {c1, c2},
                                  !.slow = TRUE, !.limits = {1}, !.max = 2, !.ops = Others]]

A(s) == INSTANCE Accounts WITH
    Categories <- {k1}, Groups <- Offices[s].groups, GroupCategory <- [g \in Offices[s].groups |-> k1],
    Users <- DOMAIN Offices[s].in, UserGroup <- Offices[s].in, Managers <- {g1},
    Domains <- Offices[s].domains, Clients <- Offices[s].clients, Ops <- Offices[s].ops,
    Waits <- Offices[s].waits, Slow <- Offices[s].slow, Settled <- Offices[s].settled,
    Limits <- Offices[s].limits, MaxOps <- Offices[s].max,
    category <- category2, group <- group2, user <- user2, domain <- domain2, client <- client2,
    saw <- saw2, answer <- answer2, ops <- ops2

ASSUME Assumption /\ \A s \in DOMAIN Offices : A(s)!Assumption

----------------------------------------------------------------------------
NoRequests ==
    domains = None /\ feed = None /\ jobs = None /\ guests = None /\ now = None /\ req = None
NoAccounts ==
    /\ category2 = None /\ group2 = None /\ user2 = None /\ domain2 = None
    /\ client2 = None /\ saw2 = None /\ answer2 = None /\ ops2 = None
NoPercent == used = 0 /\ limit = 0

RunInit ==
    \/ \E s \in DOMAIN Bases : scenario = s /\ BaseInit(s) /\ NoAccounts /\ NoRequests /\ NoPercent
    \/ \E s \in DOMAIN Asked : scenario = s /\ R(s)!Init /\ NoBase /\ NoAccounts /\ NoPercent
    \/ \E s \in DOMAIN Offices : scenario = s /\ A(s)!Init /\ NoBase /\ NoRequests /\ NoPercent
    \/ scenario = "percent" /\ NoBase /\ NoRequests /\ NoAccounts /\ used = 0 /\ limit \in 0 .. MaxLimit

\* More is used of a quota, up to one more than it allows.
Uses ==
    /\ scenario = "percent" /\ used <= limit /\ used' = used + 1
    /\ UNCHANGED <<vars, requests, accounts, limit>>

RunNext ==
    /\ UNCHANGED scenario
    /\ \/ Uses
       \/ \E s \in DOMAIN Bases : scenario = s /\ BaseNext(s) /\ UNCHANGED <<requests, accounts, used, limit>>
       \/ \E s \in DOMAIN Asked : scenario = s /\ R(s)!Next /\ UNCHANGED <<vars, accounts, used, limit>>
       \/ \E s \in DOMAIN Offices : scenario = s /\ A(s)!Next /\ UNCHANGED <<vars, requests, used, limit>>

RunSpec == RunInit /\ [][RunNext]_runVars

\* The engine does what it is told, and a request that is begun goes on.
Step(E) == scenario = "ends" /\ E /\ UNCHANGED <<vars, requests, used, limit, scenario>>
FairSpec ==
    /\ RunSpec
    /\ \A d \in {d1, d2} : WF_runVars(Step(A("ends")!Engine(d)))
    /\ WF_runVars(Step(A("ends")!GoesOn(c1)))

\* Tables and requests are well typed.
RunTypeOK ==
    /\ TypeOK
    /\ \A s \in DOMAIN Asked : scenario = s => R(s)!TypeOK
    /\ \A s \in DOMAIN Offices : scenario = s => A(s)!TypeOK

\* Each property of the modules, where it holds.
OneVolatile == \A s \in {"alone", "deletes"} : scenario = s => R(s)!OneVolatile
DesktopsWithinQuota == \A s \in {"alone", "deletes"} : scenario = s => R(s)!DesktopsWithinQuota
RunningWithinQuota == scenario = "patient" => R("patient")!RunningWithinQuota
GuestHasRow == scenario = "patient" => R("patient")!GuestHasRow
CreatedByOne == scenario = "pair" => R("pair")!CreatedByOne
UsersStay ==
    /\ scenario = "users" => A("users")!DomainsHaveUsers
    /\ scenario = "late" => A("late")!UsersAgree

\* A quota counts as exhausted exactly when as much is used as it allows,
\* although the code compares a rounded percentage (WebappQuotas.check).
RefusesAtTheLimit == scenario = "percent" => (R("alone")!Full("d", used, limit, FALSE) <=> used >= limit)

\* Nobody has or runs more desktops than the quota allows, and nobody is
\* refused before.
WithinQuota == OneVolatile /\ DesktopsWithinQuota /\ RunningWithinQuota /\ RefusesAtTheLimit

\* A desktop that runs is in the table, what a request is told to have created
\* is its own, and what a user has goes with the user when the engine is late.
DesktopsHaveRows == RunTypeOK /\ GuestHasRow /\ CreatedByOne /\ UsersStay

\* Every request is answered, if only because it stops waiting.
RepliesCome == (scenario = "ends" /\ A("ends")!Busy(c1)) ~> (scenario = "ends" => ~A("ends")!Busy(c1))
=============================================================================
