------------------------------ MODULE Accounts ------------------------------
(***************************************************************************)
(* Categories, groups and users, what belongs to them, and the requests    *)
(* that add, limit and delete them.                                        *)
(*                                                                         *)
(* The webapp and the API keep each of these in a table, and none has a    *)
(* transaction: a request reads, decides and writes one row after another. *)
(* To delete a user, a group or a category is to list everything that is   *)
(* in it, with what derives from its templates, and to delete the items    *)
(* one by one: a row at once, a desktop by writing statuses for the engine *)
(* and waiting for them.  A wait that ends late ends the request.          *)
(***************************************************************************)
EXTENDS Naturals, Sequences, FiniteSets

CONSTANTS
    Categories, Groups, Users, Domains,
    None,           \* no row, or no limit
    GroupCategory,  \* the category in the id of a group
    UserGroup,      \* the group of a user
    Managers,       \* the groups of who adds users in the webapp
    Clients,        \* requests at once
    Ops,            \* what is done, a subset of AllOps
    Waits,          \* what users and the engine do only while nothing is deleted
    Slow,           \* whether the engine may answer late
    Settled,        \* whether a deletion is asked for only when the engine has no work
    Limits,         \* limits that are set
    MaxOps          \* bound on what is done

Deletions == {"user_delete", "api_user_delete", "group_delete", "category_delete", "template_delete"}
Registrations == {"register", "auto_register"}
Additions == {"user_add", "users_add", "api_user_add"} \cup Registrations
RowAdditions == {"group_add", "api_group_add", "category_add", "api_category_add"}
LimitUpdates == {"category_limit", "category_limit_propagate", "group_limit"}
UserOps == {"start", "stop", "create", "template", "delete"}
AllOps == Deletions \cup Additions \cup RowAdditions \cup LimitUpdates \cup UserOps
              \cup {"api_group_delete", "api_category_delete", "toggle"}

Statuses == {"Creating", "Stopped", "Started", "Stopping", "Deleting", "Failed", "Disabled"}
Limited == [limit : Limits \cup {None}]
Domain == [kind : {"desktop", "template"}, user : Users, parents : SUBSET Domains, status : Statuses]
Item == [kind : {"category", "group", "user", "domain"},
         id : Categories \cup Groups \cup Users \cup Domains,
         status : Statuses \cup {None}]

Assumption ==
    /\ GroupCategory \in [Groups -> Categories]
    /\ UserGroup \in [Users -> Groups] /\ Managers \subseteq Groups
    /\ None \notin Categories \cup Groups \cup Users \cup Domains \cup Limits
    /\ None \notin AllOps \cup Statuses /\ None \notin [active : BOOLEAN] \cup Limited \cup Domain \cup Item
    /\ Ops \subseteq AllOps /\ Waits \subseteq UserOps
    /\ Slow \in BOOLEAN /\ Settled \in BOOLEAN
    /\ Limits \subseteq Nat /\ MaxOps \in Nat

VARIABLES
    category,   \* the tables "categories", "groups", "users" and "domains"
    group,
    user,
    domain,
    client,     \* what each request does
    saw,        \* whether the change it waits for came
    answer,     \* what it told last
    ops         \* what was done so far

vars == <<category, group, user, domain, client, saw, answer, ops>>
rows == <<category, group, user>>

UserCategory(u) == GroupCategory[UserGroup[u]]

Idle == [pc |-> "idle", op |-> None, id |-> None, todo |-> <<>>, now |-> None,
         value |-> None, active |-> FALSE]

TypeOK ==
    /\ category \in [Categories -> Limited \cup {None}]
    /\ group \in [Groups -> Limited \cup {None}]
    /\ user \in [Users -> [active : BOOLEAN] \cup {None}]
    /\ domain \in [Domains -> Domain \cup {None}]
    /\ \A c \in Clients : LET r == client[c] IN
        /\ r.pc \in {"idle", "own", "derived", "items", "stopping", "deleting", "second", "third"}
        /\ r.op \in Ops \cup {None}
        /\ \A k \in 1 .. Len(r.todo) : r.todo[k] \subseteq Item
        /\ r.now \in Item \cup {None}
        /\ r.value \in Limits \cup {None}
        /\ r.active \in BOOLEAN
    /\ saw \in [Clients -> BOOLEAN]
    /\ \A c \in Clients : answer[c] # None => answer[c].ok \in BOOLEAN
    /\ ops \in 0 .. MaxOps

Init ==
    /\ category = [c \in Categories |-> [limit |-> None]]
    /\ group = [g \in Groups |-> [limit |-> None]]
    /\ user \in [Users -> {[active |-> TRUE], None}]
    /\ domain = [d \in Domains |-> None]
    /\ client = [c \in Clients |-> Idle]
    /\ saw = [c \in Clients |-> FALSE]
    /\ answer = [c \in Clients |-> None]
    /\ ops = 0

----------------------------------------------------------------------------
Resting == \A c \in Clients : client[c].pc = "idle"

Does(op) == op \in Ops /\ ops < MaxOps /\ ops' = ops + 1

Begins(c, op, r) ==
    /\ client[c].pc = "idle" /\ Does(op)
    /\ client' = [client EXCEPT ![c] = [r EXCEPT !.op = op]]
    /\ answer' = [answer EXCEPT ![c] = None]
    /\ UNCHANGED saw

Answers(c, ok) ==
    /\ client' = [client EXCEPT ![c] = Idle]
    /\ answer' = [answer EXCEPT ![c] = [op |-> client[c].op, id |-> client[c].id, ok |-> ok]]
    /\ UNCHANGED <<saw, ops>>

Goes(c, r) == client' = [client EXCEPT ![c] = r] /\ UNCHANGED <<answer, ops>>

\* A row of domains is written, which the requests see that wait for it.
SeesWhat(c, d, status) ==
    /\ client[c].now # None /\ client[c].now.id = d
    /\ \/ client[c].pc = "stopping" /\ status = "Stopped"
       \/ client[c].pc = "deleting" /\ status = None

Put(d, new) ==
    /\ domain' = [domain EXCEPT ![d] = new]
    /\ saw' = [c \in Clients |-> saw[c] \/ SeesWhat(c, d, IF new = None THEN None ELSE new.status)]

PutStatus(d, status) == Put(d, [domain[d] EXCEPT !.status = status])

----------------------------------------------------------------------------
(* Users and the engine.                                                   *)

DeletionRuns == \E c \in Clients : client[c].op \in Deletions \cup {"api_group_delete", "api_category_delete"}

UserDoes(op) ==
    /\ Does(op)
    /\ op \in Waits => ~DeletionRuns
    /\ UNCHANGED <<rows, client, answer>>

\* A desktop does not start without the disks it is based on.
Starts(d) ==
    /\ domain[d] # None /\ domain[d].kind = "desktop" /\ domain[d].status \in {"Stopped", "Failed"}
    /\ UserDoes("start")
    /\ PutStatus(d, IF \A p \in domain[d].parents : domain[p] # None THEN "Started" ELSE "Failed")

Stops(d) ==
    /\ domain[d] # None /\ domain[d].status = "Started"
    /\ UserDoes("stop")
    /\ PutStatus(d, "Stopping")

\* The desktop of a template gets its parents and the template.
Creates(u, d, t) ==
    /\ domain[d] = None /\ user[u] # None
    /\ domain[t] # None => domain[t].kind = "template" /\ domain[t].status = "Stopped"
    /\ UserDoes("create")
    /\ Put(d, [kind |-> "desktop", user |-> u, status |-> "Creating",
               parents |-> IF domain[t] # None THEN domain[t].parents \cup {t} ELSE {}])

\* A template takes the disk of a desktop, which comes to be based on it.
MakesTemplate(d, t) ==
    /\ domain[t] = None /\ domain[d] # None
    /\ domain[d].kind = "desktop" /\ domain[d].status = "Stopped"
    /\ UserDoes("template")
    /\ domain' = [domain EXCEPT ![t] = [domain[d] EXCEPT !.kind = "template"],
                                ![d].parents = @ \cup {t}]
    /\ UNCHANGED saw

Deletes(d) ==
    /\ domain[d] # None /\ domain[d].kind = "desktop" /\ domain[d].status \in {"Stopped", "Failed"}
    /\ UserDoes("delete")
    /\ PutStatus(d, "Deleting")

Engine(d) ==
    /\ domain[d] # None
    /\ \/ domain[d].status = "Creating" /\ PutStatus(d, "Stopped")
       \/ domain[d].status = "Stopping" /\ PutStatus(d, "Stopped")
       \/ domain[d].status = "Deleting" /\ Put(d, None)
    /\ UNCHANGED <<rows, client, answer, ops>>

----------------------------------------------------------------------------
(* Deletion.                                                               *)

RowItem(kind, id) == [kind |-> kind, id |-> id, status |-> None]
DomainItem(d) == [kind |-> "domain", id |-> d, status |-> domain[d].status]
There(S) == {d \in S : domain[d] # None}

DeletionBegins(c, op, id) ==
    /\ Settled => \A d \in There(Domains) : domain[d].status \notin {"Creating", "Stopping", "Deleting"}
    /\ Begins(c, op, [Idle EXCEPT !.pc = "own", !.id = id])
    /\ UNCHANGED <<rows, domain>>

UserDelete(c, u) == DeletionBegins(c, "user_delete", u)
GroupDelete(c, g) == DeletionBegins(c, "group_delete", g)
CategoryDelete(c, k) == DeletionBegins(c, "category_delete", k)
TemplateDelete(c, t) == domain[t] # None /\ domain[t].kind = "template" /\ DeletionBegins(c, "template_delete", t)
ApiUserDelete(c, u) == DeletionBegins(c, "api_user_delete", u)

UsersOfGroup(g) == {u \in Users : UserGroup[u] = g}
UsersOfCategory(k) == {u \in Users : UserCategory(u) = k}

UserItems(us) == {RowItem("user", u) : u \in {u \in us : user[u] # None}}

\* Desktops and templates are found by the user, group or category in their rows.
Owned(us, kind) ==
    {DomainItem(d) : d \in {d \in There(Domains) : domain[d].kind = kind /\ domain[d].user \in us}}

\* Mutant: the templates of the user are left out.
DesktopChecks(u) == <<Owned({u}, "desktop")>>

\* What is deleted, in this order: the rows of a group or a category go before
\* the desktops, and that of a single user after all.
UserDeleteChecks(u) == <<Owned({u}, "desktop"), Owned({u}, "template")>>

GroupDeleteChecks(g) ==
    LET us == UsersOfGroup(g)
    IN  <<{RowItem("group", g)}, UserItems(us), Owned(us, "desktop"), Owned(us, "template")>>

CategoryDeleteChecks(k) ==
    LET us == UsersOfCategory(k)
        gs == {g \in Groups : group[g] # None /\ GroupCategory[g] = k}
    IN  <<{RowItem("category", k)}, {RowItem("group", g) : g \in gs}, UserItems(us),
          Owned(us, "desktop"), Owned(us, "template")>>

TemplateDeleteList(t) == <<{DomainItem(t)}>>

\* What is not there is refused, but for a group: nothing of it is deleted.
ReadsOwn(c) ==
    LET r == client[c]
        missing == CASE r.op = "api_user_delete" -> user[r.id] = None
                     [] r.op = "category_delete" -> category[r.id] = None
                     [] r.op = "template_delete" -> domain[r.id] = None
                     [] OTHER -> FALSE
        own == CASE r.op \in {"user_delete", "api_user_delete"} -> UserDeleteChecks(r.id)
                 [] r.op = "group_delete" -> GroupDeleteChecks(r.id)
                 [] r.op = "category_delete" -> CategoryDeleteChecks(r.id)
                 [] r.op = "template_delete" -> TemplateDeleteList(r.id)
    IN  /\ r.pc = "own"
        /\ IF missing THEN Answers(c, FALSE)
           ELSE IF r.op = "group_delete" /\ group[r.id] = None THEN Answers(c, TRUE)
           ELSE Goes(c, [r EXCEPT !.pc = "derived", !.todo = own]) /\ UNCHANGED saw
        /\ UNCHANGED <<rows, domain>>

\* An item that was found twice stays where it was found last.
LastOnly(todo) ==
    [k \in 1 .. Len(todo) |-> todo[k] \ UNION {todo[j] : j \in k + 1 .. Len(todo)}]

\* Mutant: what derives from the templates is not looked for.
Childless(S) == {}

Derived(S) == {d \in There(Domains) : domain[d].parents \cap S # {}}

ReadsDerived(c) ==
    LET r == client[c]
        listed == UNION {r.todo[k] : k \in 1 .. Len(r.todo)}
        templates == {i.id : i \in {i \in listed : i.kind = "domain"}}
        \* the desktops among them have nothing that derives from them
        derived == {DomainItem(d) : d \in Derived(templates)}
    IN  /\ r.pc = "derived"
        /\ Goes(c, [r EXCEPT !.pc = "items", !.todo = LastOnly(Append(r.todo, derived))])
        /\ UNCHANGED <<rows, domain, saw>>

First(r) == CHOOSE k \in 1 .. Len(r.todo) : r.todo[k] # {} /\ \A j \in 1 .. k - 1 : r.todo[j] = {}
Left(r) == \E k \in 1 .. Len(r.todo) : r.todo[k] # {}

DeletesRow(c) ==
    LET r == client[c] IN
    /\ r.pc = "items" /\ Left(r)
    /\ \E i \in r.todo[First(r)] :
        /\ i.kind # "domain"
        /\ category' = (IF i.kind = "category" THEN [category EXCEPT ![i.id] = None] ELSE category)
        /\ group' = (IF i.kind = "group" THEN [group EXCEPT ![i.id] = None] ELSE group)
        /\ user' = (IF i.kind = "user" THEN [user EXCEPT ![i.id] = None] ELSE user)
        /\ Goes(c, [r EXCEPT !.todo[First(r)] = @ \ {i}])
    /\ UNCHANGED <<domain, saw>>

\* WaitStatus: the changefeed is open before the status is written, and a row
\* that is not there is written by nobody.
WritesAndWaits(c, d, status, r) ==
    /\ domain' = (IF domain[d] = None THEN domain ELSE [domain EXCEPT ![d].status = status])
    /\ saw' = [saw EXCEPT ![c] = FALSE]
    /\ Goes(c, r)

\* delete_desktop: what runs, or did when it was listed, is stopped before.  What is listed in a status
\* that is neither Stopped nor Failed is written Failed just before Deleting; nobody follows that write,
\* and it is one with the next here.
DeletesDomain(c) ==
    LET r == client[c] IN
    /\ r.pc = "items" /\ Left(r)
    /\ \E i \in r.todo[First(r)] :
        /\ i.kind = "domain"
        /\ LET left == [r EXCEPT !.todo[First(r)] = @ \ {i}, !.now = i]
           IN  IF i.status = "Started"
               THEN WritesAndWaits(c, i.id, "Stopping", [left EXCEPT !.pc = "stopping"])
               ELSE WritesAndWaits(c, i.id, "Deleting", [left EXCEPT !.pc = "deleting"])
    /\ UNCHANGED rows

SawStopped(c) ==
    /\ client[c].pc = "stopping" /\ saw[c]
    /\ WritesAndWaits(c, client[c].now.id, "Deleting", [client[c] EXCEPT !.pc = "deleting"])
    /\ UNCHANGED rows

SawDeleted(c) ==
    /\ client[c].pc = "deleting" /\ saw[c]
    /\ Goes(c, [client[c] EXCEPT !.pc = "items", !.now = None])
    /\ UNCHANGED <<rows, domain, saw>>

\* What is waited for will not come unless somebody else brings it about.
Hopeless(r) ==
    domain[r.now.id] # None => domain[r.now.id].status # (IF r.pc = "stopping" THEN "Stopping" ELSE "Deleting")

\* Mutant: a wait has no end.
NeverTimesOut(c) == FALSE /\ UNCHANGED vars

\* WaitStatus makes of a timeout an exception that delete_desktop does not
\* catch: the request ends where it is.
TimesOut(c) ==
    /\ client[c].pc \in {"stopping", "deleting"} /\ ~saw[c]
    /\ Slow \/ Hopeless(client[c])
    /\ Answers(c, FALSE)
    /\ UNCHANGED <<rows, domain>>

Finishes(c) ==
    LET r == client[c] IN
    /\ r.pc = "items" /\ ~Left(r)
    /\ user' = (IF r.op \in {"user_delete", "api_user_delete"} THEN [user EXCEPT ![r.id] = None] ELSE user)
    /\ Answers(c, TRUE)
    /\ UNCHANGED <<category, group, domain>>

\* The API deletes a group or a category with its users, and no desktop.
ApiGroupDelete(c, g) ==
    /\ client[c].pc = "idle" /\ Does("api_group_delete") /\ group[g] # None
    /\ user' = [u \in Users |-> IF u \in UsersOfGroup(g) THEN None ELSE user[u]]
    /\ group' = [group EXCEPT ![g] = None]
    /\ UNCHANGED <<category, domain, client, saw, answer>>

ApiCategoryDelete(c, k) ==
    /\ client[c].pc = "idle" /\ Does("api_category_delete") /\ category[k] # None
    /\ user' = [u \in Users |-> IF UserCategory(u) = k THEN None ELSE user[u]]
    /\ group' = [g \in Groups |-> IF GroupCategory[g] = k THEN None ELSE group[g]]
    /\ category' = [category EXCEPT ![k] = None]
    /\ UNCHANGED <<domain, client, saw, answer>>

----------------------------------------------------------------------------
(* Users and their limits.                                                 *)

Inside(us) == {u \in us : user[u] # None}
InCategory(k) == Inside(UsersOfCategory(k))
InGroup(g) == Inside(UsersOfGroup(g))

Fits(n, amount, limit) == limit # None => n + amount <= limit

\* The checks NewUser, NewUsers and check_new_autoregistered_user
\* Mutant: each new user is compared alone.
FitsAlone(us, g) ==
    /\ Fits(Cardinality(InGroup(g)), 1, group[g].limit)
    /\ Fits(Cardinality(InCategory(GroupCategory[g])), 1, category[GroupCategory[g]].limit)

WithinLimits(us, g) ==
    /\ Fits(Cardinality(InGroup(g)), Cardinality(us), group[g].limit)
    /\ Fits(Cardinality(InCategory(GroupCategory[g])), Cardinality(us), category[GroupCategory[g]].limit)

AddsUsers(c, op, us, g) ==
    /\ us # {} /\ us \subseteq UsersOfGroup(g)
    /\ category[GroupCategory[g]] # None /\ group[g] # None
    /\ Begins(c, op, [Idle EXCEPT !.pc = "second", !.todo = <<{RowItem("user", u) : u \in us}>>])
    /\ UNCHANGED <<rows, domain>>

\* In the webapp what is checked are the limits of the group and the category of
\* who adds, whatever the group of the new users.
UserAdd(c, u, m) == AddsUsers(c, "user_add", {u}, UserGroup[u]) /\ group[m] # None /\ WithinLimits({u}, m)
BulkUsersAdd(c, us, g, m) == AddsUsers(c, "users_add", us, g) /\ group[m] # None /\ WithinLimits(us, m)

\* The API looks for the row as well.
ApiUserInsert(c, u) ==
    user[u] = None /\ AddsUsers(c, "api_user_add", {u}, UserGroup[u]) /\ WithinLimits({u}, UserGroup[u])

\* Who registers with the code of a group, or is registered by the service of
\* authentication, is not checked.
Register(c, u) == user[u] = None /\ AddsUsers(c, "register", {u}, UserGroup[u])
AutoRegister(c, u) == user[u] = None /\ AddsUsers(c, "auto_register", {u}, UserGroup[u])

\* insert: rows that are there already stay, and the others are inserted.  The
\* answer is good when one was.
InsertsUsers(c) ==
    LET us == {i.id : i \in client[c].todo[1]} IN
    /\ client[c].pc = "second" /\ client[c].op \in Additions
    /\ user' = [u \in Users |-> IF u \in us /\ user[u] = None THEN [active |-> TRUE] ELSE user[u]]
    /\ client' = [client EXCEPT ![c] = Idle]
    /\ answer' = [answer EXCEPT ![c] =
        [op |-> client[c].op, id |-> None, ok |-> \E u \in us : user[u] = None,
         whole |-> \A u \in us : user[u] = None]]
    /\ UNCHANGED <<category, group, domain, saw, ops>>

NewRow(row, limit) == IF row = None THEN [limit |-> limit] ELSE row

RowBegins(c, op, g) ==
    /\ Begins(c, op, [Idle EXCEPT !.pc = "second", !.id = g])
    /\ UNCHANGED <<user, domain>>

\* A group goes in when its category was found.
GroupAdd(c, g) ==
    /\ category[GroupCategory[g]] # None
    /\ RowBegins(c, "group_add", g)
    /\ UNCHANGED <<category, group>>

GroupCreate(c, g) ==
    /\ category[GroupCategory[g]] # None
    /\ RowBegins(c, "api_group_add", g)
    /\ UNCHANGED <<category, group>>

\* A new category goes in after its main group, in the API before it and with
\* the limit that was asked for.
CategoryAdd(c, g) ==
    /\ RowBegins(c, "category_add", g)
    /\ group' = [group EXCEPT ![g] = NewRow(@, None)]
    /\ UNCHANGED category

CategoryCreate(c, g) ==
    /\ RowBegins(c, "api_category_add", g)
    /\ \E limit \in Limits \cup {None} : category' = [category EXCEPT ![GroupCategory[g]] = NewRow(@, limit)]
    /\ UNCHANGED group

InsertsRow(c) ==
    LET r == client[c] IN
    /\ r.pc = "second" /\ r.op \in RowAdditions
    /\ IF r.op = "category_add"
       THEN /\ category' = [category EXCEPT ![GroupCategory[r.id]] = NewRow(@, None)]
            /\ UNCHANGED group
       ELSE /\ group' = [group EXCEPT ![r.id] = NewRow(@, None)]
            /\ UNCHANGED category
    /\ Answers(c, TRUE)
    /\ UNCHANGED <<user, domain>>

\* No limit of a group is to be above that of its category.
Clamped(limit, above) == IF above # None /\ above < limit THEN above ELSE limit

\* No limit is false, which a limit of the category cannot be compared with:
\* the request is refused.
GroupLimit(c, g, limit) ==
    LET above == category[GroupCategory[g]].limit IN
    /\ group[g] # None /\ category[GroupCategory[g]] # None
    /\ limit = None => above = None
    /\ Begins(c, "group_limit", [Idle EXCEPT !.pc = "second", !.id = g,
           !.value = IF limit = None THEN None ELSE Clamped(limit, above)])
    /\ UNCHANGED <<rows, domain>>

CategoryLimit(c, op, k, limit) ==
    /\ category[k] # None
    /\ Begins(c, op, [Idle EXCEPT !.pc = "second", !.id = k, !.value = limit])
    /\ category' = [category EXCEPT ![k].limit = limit]
    /\ UNCHANGED <<group, user, domain>>

\* What is written after the limit was compared, or after the category's was
UpdatesGroups(c) ==
    LET r == client[c]
        gs == CASE r.op = "group_limit" -> {r.id}
                [] r.op = "category_limit_propagate" -> {g \in Groups : GroupCategory[g] = r.id}
                [] OTHER -> {}
    IN  /\ r.pc = "second" /\ r.op \in LimitUpdates
        /\ group' = [g \in Groups |-> IF g \in gs /\ group[g] # None
                                      THEN [group[g] EXCEPT !.limit = r.value] ELSE group[g]]
        /\ Answers(c, TRUE)
        /\ UNCHANGED <<category, user, domain>>

\* user_toggle_active: what the user has is disabled or stopped, then the user.
Toggles(c, u) ==
    /\ user[u] # None
    /\ Begins(c, "toggle", [Idle EXCEPT !.pc = "second", !.id = u, !.active = ~user[u].active])
    /\ UNCHANGED <<rows, domain>>

TogglesDesktops(c) ==
    LET r == client[c]
        mine == {d \in There(Domains) : domain[d].user = r.id /\ domain[d].kind = "desktop"}
    IN  /\ r.pc = "second" /\ r.op = "toggle"
        /\ domain' = [d \in Domains |->
             IF d \notin mine THEN domain[d]
             ELSE IF ~r.active THEN [domain[d] EXCEPT !.status = "Disabled"]
             ELSE IF domain[d].status = "Disabled" THEN [domain[d] EXCEPT !.status = "Stopped"]
             ELSE domain[d]]
        /\ saw' = [x \in Clients |-> saw[x] \/ \E d \in mine :
             r.active /\ domain[d].status = "Disabled" /\ SeesWhat(x, d, "Stopped")]
        /\ Goes(c, [r EXCEPT !.pc = "third"])
        /\ UNCHANGED rows

TogglesUser(c) ==
    LET r == client[c] IN
    /\ r.pc = "third"
    /\ user' = [user EXCEPT ![r.id] = IF @ = None THEN None ELSE [active |-> r.active]]
    /\ Answers(c, TRUE)
    /\ UNCHANGED <<category, group, domain>>

----------------------------------------------------------------------------
Asks(c) ==
    \/ \E u \in Users :
            \/ UserDelete(c, u) \/ ApiUserDelete(c, u) \/ Toggles(c, u)
            \/ (\E m \in Managers : UserAdd(c, u, m)) \/ ApiUserInsert(c, u)
            \/ Register(c, u) \/ AutoRegister(c, u)
    \/ \E g \in Groups :
            \/ GroupDelete(c, g) \/ ApiGroupDelete(c, g)
            \/ GroupAdd(c, g) \/ GroupCreate(c, g) \/ CategoryAdd(c, g) \/ CategoryCreate(c, g)
            \/ \E us \in SUBSET Users, m \in Managers : BulkUsersAdd(c, us, g, m)
            \/ \E limit \in Limits \cup {None} : GroupLimit(c, g, limit)
    \/ \E k \in Categories :
            \/ CategoryDelete(c, k) \/ ApiCategoryDelete(c, k)
            \/ \E op \in {"category_limit", "category_limit_propagate"}, limit \in Limits \cup {None} :
                    CategoryLimit(c, op, k, limit)
    \/ \E t \in Domains : TemplateDelete(c, t)

GoesOn(c) ==
    \/ ReadsOwn(c) \/ ReadsDerived(c) \/ DeletesRow(c) \/ DeletesDomain(c)
    \/ SawStopped(c) \/ SawDeleted(c) \/ TimesOut(c) \/ Finishes(c)
    \/ InsertsUsers(c) \/ InsertsRow(c) \/ UpdatesGroups(c) \/ TogglesDesktops(c) \/ TogglesUser(c)

Next ==
    \/ \E d \in Domains : Starts(d) \/ Stops(d) \/ Deletes(d) \/ Engine(d)
    \/ \E u \in Users, d \in Domains, t \in Domains : Creates(u, d, t)
    \/ \E d \in Domains, t \in Domains : MakesTemplate(d, t)
    \/ \E c \in Clients : Asks(c) \/ GoesOn(c)

Spec == Init /\ [][Next]_vars

----------------------------------------------------------------------------
(* Properties.                                                             *)

\* No desktop or template is left without its user: the user goes last.
DomainsHaveUsers ==
    Resting => \A d \in There(Domains) : user[domain[d].user] # None

\* Nobody's desktop is left without the templates that its disk is based on.
ParentsExist ==
    Resting => \A d \in There(Domains) : \A p \in domain[d].parents : domain[p] # None

\* Every user has a group and every group a category.
RowsHaveOwners ==
    Resting => /\ \A u \in Users : user[u] # None => group[UserGroup[u]] # None
               /\ \A g \in Groups : group[g] # None => category[GroupCategory[g]] # None

\* Users that are added do not exceed the limit of their category, nor that of
\* their group if it is the one of who adds.
AddsWithinLimits ==
    \A g \in Groups :
        (\E u \in Users : UserGroup[u] = g /\ user[u] = None /\ user'[u] # None) =>
            /\ g \notin Managers \/ group[g] = None \/ Fits(Cardinality(InGroup(g))', 0, group[g].limit)
            /\ category[GroupCategory[g]] = None
               \/ Fits(Cardinality(InCategory(GroupCategory[g]))', 0, category[GroupCategory[g]].limit)
UsersWithinLimits == [][AddsWithinLimits]_vars

\* "Check that no group limits exceed parent category limits"
LimitsNest ==
    Resting => \A g \in Groups :
        (group[g] # None /\ category[GroupCategory[g]] # None) =>
            LET above == category[GroupCategory[g]].limit IN
            above # None /\ group[g].limit # None => group[g].limit <= above

\* A user who is enabled has no desktop that is disabled.
EnabledHasNoDisabled ==
    Resting => \A d \in There(Domains) :
        LET u == user[domain[d].user] IN u # None /\ u.active => domain[d].status # "Disabled"

\* What a user has goes and is disabled with the user.
UsersAgree == DomainsHaveUsers /\ EnabledHasNoDisabled

\* The rows of accounts agree: desktops have users and users have groups, a
\* template stays while something is made from it, and limits nest.
AccountsAgree == DomainsHaveUsers /\ ParentsExist /\ RowsHaveOwners /\ LimitsNest

\* Every request is answered.
Busy(c) == client[c].pc # "idle"
RequestsEnd == \A c \in Clients : Busy(c) ~> ~Busy(c)
=============================================================================
