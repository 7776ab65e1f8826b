---------------------------- MODULE AccountProofs ----------------------------
(***************************************************************************)
(* Theorems about Accounts for every set of categories, groups, users and  *)
(* desktops, and every bound.                                              *)
(***************************************************************************)
EXTENDS Accounts, FiniteSetTheorems, TLAPS

----------------------------------------------------------------------------
(* What the variables hold, and what a request knows where it is.          *)

\* An item that stands for a desktop or a template has its id.
Found == {i \in Item : i.kind = "domain" => i.id \in Domains}
Ids == Categories \cup Groups \cup Users \cup Domains
Client == [pc : {"idle", "own", "derived", "items", "stopping", "deleting", "second", "third"},
           op : AllOps \cup {None}, id : Ids \cup {None}, todo : Seq(SUBSET Found), now : Found \cup {None},
           value : Limits \cup {None}, active : BOOLEAN]

UserDeletions == {"user_delete", "api_user_delete"}

Knows(r) ==
    /\ r.pc \in {"own", "derived", "items", "stopping", "deleting"} => r.op \in Deletions
    /\ r.pc \in {"stopping", "deleting"} => r.now \in Found /\ r.now.kind = "domain"
    /\ r.pc = "derived" => Len(r.todo) \in 1 .. 5
    /\ r.pc \in {"items", "stopping", "deleting"} => Len(r.todo) \in 1 .. 6
    /\ r.pc = "second" /\ r.op \in Additions => Len(r.todo) = 1
    /\ r.pc = "third" => r.op = "toggle"
    /\ r.op \in UserDeletions \cup {"toggle"} => r.id \in Users
    /\ r.op \in {"group_delete", "group_limit"} \cup RowAdditions => r.id \in Groups
    /\ r.op \in {"category_delete", "category_limit", "category_limit_propagate"} => r.id \in Categories
    /\ r.op = "template_delete" => r.id \in Domains

KnowingClient == {r \in Client : Knows(r)}

Types ==
    /\ category \in [Categories -> Limited \cup {None}]
    /\ group \in [Groups -> Limited \cup {None}]
    /\ user \in [Users -> [active : BOOLEAN] \cup {None}]
    /\ domain \in [Domains -> Domain \cup {None}]
    /\ client \in [Clients -> KnowingClient]
    /\ saw \in [Clients -> BOOLEAN]

LEMMA NoneIsNoOp ==
    Assumption => None \notin AllOps /\ None \notin Additions \cup Deletions \cup UserDeletions \cup RowAdditions
                  /\ None \notin {"toggle", "group_limit", "category_limit", "category_limit_propagate"}
BY DEF Assumption, AllOps, Additions, Registrations, Deletions, UserDeletions, RowAdditions, LimitUpdates

LEMMA IdleKnows == Assumption => Idle \in KnowingClient /\ Idle.pc = "idle" /\ Idle.op = None
<1> SUFFICES ASSUME Assumption PROVE Idle \in KnowingClient /\ Idle.pc = "idle" /\ Idle.op = None
  OBVIOUS
<1>1. Idle \in Client
  BY DEF Idle, Client
<1>2. Idle.pc = "idle" /\ Idle.op = None
  BY DEF Idle
<1>3. Knows(Idle)
  BY <1>2, NoneIsNoOp DEF Knows, Deletions, RowAdditions
<1> QED
  BY <1>1, <1>2, <1>3 DEF KnowingClient

LEMMA TypesInit == Assumption /\ Init => Types
<1> SUFFICES ASSUME Assumption, Init PROVE Types
  OBVIOUS
<1>1. [limit |-> None] \in Limited /\ [active |-> TRUE] \in [active : BOOLEAN]
  BY DEF Limited
<1> QED
  BY <1>1, IdleKnows DEF Init, Types

----------------------------------------------------------------------------
(* Rows of desktops and templates.                                         *)

LEMMA PutTypes ==
    ASSUME Types, NEW d \in Domains, NEW new \in Domain \cup {None}, Put(d, new)
    PROVE  domain' \in [Domains -> Domain \cup {None}] /\ saw' \in [Clients -> BOOLEAN]
<1>1. \A c \in Clients : (saw[c] \/ SeesWhat(c, d, IF new = None THEN None ELSE new.status)) \in BOOLEAN
  BY DEF Types, SeesWhat
<1> QED
  BY <1>1 DEF Types, Put

LEMMA StatusTypes ==
    ASSUME Types, NEW d \in Domains, domain[d] # None, NEW status \in Statuses
    PROVE  /\ [domain[d] EXCEPT !.status = status] \in Domain
           /\ [domain[d] EXCEPT !.status = status].user = domain[d].user
           /\ [domain[d] EXCEPT !.status = status].kind = domain[d].kind
           /\ [domain[d] EXCEPT !.status = status].parents = domain[d].parents
           /\ [domain[d] EXCEPT !.status = status].status = status
BY DEF Types, Domain

\* What users and the engine do.
Others ==
    \/ \E d \in Domains : Starts(d) \/ Stops(d) \/ Deletes(d) \/ Engine(d)
    \/ \E u \in Users, d \in Domains, t \in Domains : Creates(u, d, t)
    \/ \E d \in Domains, t \in Domains : MakesTemplate(d, t)

\* It writes the status of one row, or removes it.
WritesOne(d) ==
    /\ domain[d] # None
    /\ \/ Put(d, None)
       \/ \E status \in Statuses \ {"Disabled"} : PutStatus(d, status)

LEMMA OthersWrite ==
    ASSUME Assumption, NEW d \in Domains, Starts(d) \/ Stops(d) \/ Deletes(d) \/ Engine(d)
    PROVE  WritesOne(d) /\ UNCHANGED <<rows, client>>
<1>1. {"Started", "Failed", "Stopping", "Deleting", "Stopped"} \subseteq Statuses \ {"Disabled"}
  BY DEF Statuses
<1> QED
  BY <1>1 DEF Starts, Stops, Deletes, Engine, UserDoes, WritesOne

\* A template comes to be, with the user of the desktop.
LEMMA TemplateMade ==
    ASSUME Types, NEW d \in Domains, NEW t \in Domains, MakesTemplate(d, t)
    PROVE  /\ Types' /\ d # t /\ domain[d] # None /\ UNCHANGED <<rows, client, saw>>
           /\ \A e \in Domains : e \notin {d, t} => domain'[e] = domain[e]
           /\ domain'[d].user = domain[d].user /\ domain'[d].kind = domain[d].kind
           /\ domain'[d].status = "Stopped" /\ domain'[d].parents = domain[d].parents \cup {t}
           /\ domain'[t].user = domain[d].user /\ domain'[t].status = "Stopped"
           /\ domain'[t].kind = "template" /\ domain'[t].parents = domain[d].parents /\ domain'[t] \in Domain
<1>1. domain[d] \in Domain /\ domain[d].status = "Stopped" /\ d # t /\ UNCHANGED <<rows, client, saw>>
  BY DEF MakesTemplate, UserDoes, Types
<1>2. PICK made : made = [domain[d] EXCEPT !.kind = "template"]
  OBVIOUS
<1>3. PICK new : new = [domain[d] EXCEPT !.parents = @ \cup {t}]
  OBVIOUS
<1>4. made \in Domain /\ made.user = domain[d].user /\ made.status = "Stopped"
      /\ made.kind = "template" /\ made.parents = domain[d].parents
  BY <1>1, <1>2 DEF Domain
<1>5. new \in Domain /\ new.user = domain[d].user /\ new.kind = domain[d].kind /\ new.status = "Stopped"
      /\ new.parents = domain[d].parents \cup {t}
  BY <1>1, <1>3 DEF Domain
<1>6. PICK F : F = [domain EXCEPT ![t] = made]
  OBVIOUS
<1>7. F[d] = domain[d] /\ F[t] = made /\ F \in [Domains -> Domain \cup {None}]
      /\ \A e \in Domains : e # t => F[e] = domain[e]
  BY <1>1, <1>4, <1>6 DEF Types
<1>8. domain' = [F EXCEPT ![d] = [F[d] EXCEPT !.parents = F[d].parents \cup {t}]]
  BY <1>2, <1>6 DEF MakesTemplate
<1>9. domain' = [F EXCEPT ![d] = new]
  BY <1>3, <1>7, <1>8
<1>10. domain' \in [Domains -> Domain \cup {None}] /\ domain'[d] = new /\ domain'[t] = made
       /\ \A e \in Domains : e \notin {d, t} => domain'[e] = domain[e]
  BY <1>1, <1>5, <1>7, <1>9
<1>11. Types'
  BY <1>1, <1>10 DEF Types, rows
<1> QED
  BY <1>1, <1>4, <1>5, <1>10, <1>11 DEF MakesTemplate

LEMMA OthersTypes == ASSUME Assumption, Types, Others PROVE Types'
<1>1. ASSUME NEW d \in Domains, Starts(d) \/ Stops(d) \/ Deletes(d) \/ Engine(d) PROVE Types'
  <2>1. WritesOne(d) /\ UNCHANGED <<rows, client>>
    BY <1>1, OthersWrite
  <2>2. domain' \in [Domains -> Domain \cup {None}] /\ saw' \in [Clients -> BOOLEAN]
    BY <2>1, PutTypes, StatusTypes DEF WritesOne, PutStatus
  <2> QED
    BY <2>1, <2>2 DEF Types, rows
<1>2. ASSUME NEW u \in Users, NEW d \in Domains, NEW t \in Domains, Creates(u, d, t) PROVE Types'
  <2>1. PICK parents \in SUBSET Domains :
            Put(d, [kind |-> "desktop", user |-> u, status |-> "Creating", parents |-> parents])
    <3>1. (IF domain[t] # None THEN domain[t].parents \cup {t} ELSE {}) \in SUBSET Domains
      BY DEF Types, Domain
    <3> QED
      BY <1>2, <3>1 DEF Creates
  <2>2. [kind |-> "desktop", user |-> u, status |-> "Creating", parents |-> parents] \in Domain
    BY DEF Domain, Statuses
  <2>3. UNCHANGED <<rows, client>>
    BY <1>2 DEF Creates, UserDoes
  <2> QED
    BY <2>1, <2>2, <2>3, PutTypes DEF Types, rows
<1>3. ASSUME NEW d \in Domains, NEW t \in Domains, MakesTemplate(d, t) PROVE Types'
  BY <1>3, TemplateMade
<1> QED
  BY <1>1, <1>2, <1>3 DEF Others

----------------------------------------------------------------------------
(* What is asked.                                                          *)

LEMMA BeginsTypes ==
    ASSUME Types, NEW c \in Clients, NEW op, NEW r, Begins(c, op, r), [r EXCEPT !.op = op] \in KnowingClient
    PROVE  client' \in [Clients -> KnowingClient] /\ saw' \in [Clients -> BOOLEAN]
BY DEF Begins, Types

LEMMA LimitedRows ==
    ASSUME Assumption
    PROVE  /\ [limit |-> None] \in Limited
           /\ \A row \in Limited \cup {None}, limit \in Limits \cup {None} : NewRow(row, limit) \in Limited
           /\ \A row \in Limited, limit \in Limits \cup {None} : [row EXCEPT !.limit = limit] \in Limited
BY DEF Limited, NewRow

LEMMA RequestsTypes == ASSUME Assumption, Types, NEW c \in Clients, Asks(c) PROVE Types'
<1>1. Idle \in Client
  BY IdleKnows DEF KnowingClient
<1>2. ASSUME NEW op \in Deletions, NEW id \in Ids,
             op \in UserDeletions => id \in Users,
             op = "group_delete" => id \in Groups,
             op = "category_delete" => id \in Categories,
             op = "template_delete" => id \in Domains,
             DeletionBegins(c, op, id)
      PROVE  Types'
  <2>1. [[Idle EXCEPT !.pc = "own", !.id = id] EXCEPT !.op = op] \in Client
    BY <1>1 DEF Client, AllOps
  <2>2. Knows([[Idle EXCEPT !.pc = "own", !.id = id] EXCEPT !.op = op])
    BY <1>1, <1>2 DEF Client, Knows, Deletions, UserDeletions, RowAdditions
  <2>3. Begins(c, op, [Idle EXCEPT !.pc = "own", !.id = id]) /\ UNCHANGED <<rows, domain>>
    BY <1>2 DEF DeletionBegins
  <2> QED
    BY <2>1, <2>2, <2>3, BeginsTypes DEF KnowingClient, Types, rows
<1>3. ASSUME NEW op \in Additions, NEW us \in SUBSET Users, NEW g \in Groups, AddsUsers(c, op, us, g) PROVE Types'
  <2>1. PICK todo \in Seq(SUBSET Found) : todo = <<{RowItem("user", u) : u \in us}>> /\ Len(todo) = 1
    <3>1. \A u \in us : RowItem("user", u) \in Found
      BY DEF RowItem, Found, Item
    <3>2. {RowItem("user", u) : u \in us} \subseteq Found
      BY <3>1
    <3>3. PICK items : items = {RowItem("user", u) : u \in us}
      OBVIOUS
    <3>4. <<items>> \in Seq(SUBSET Found) /\ Len(<<items>>) = 1
      BY <3>2, <3>3
    <3> QED
      BY <3>3, <3>4
  <2>2. [[Idle EXCEPT !.pc = "second", !.todo = todo] EXCEPT !.op = op] \in Client
    BY <1>1 DEF Client, AllOps
  <2>3. Knows([[Idle EXCEPT !.pc = "second", !.todo = todo] EXCEPT !.op = op])
    BY <1>1, <2>1 DEF Client, Knows, Additions, Registrations, UserDeletions, RowAdditions
  <2>4. Begins(c, op, [Idle EXCEPT !.pc = "second", !.todo = todo]) /\ UNCHANGED <<rows, domain>>
    BY <1>3, <2>1 DEF AddsUsers
  <2> QED
    BY <2>2, <2>3, <2>4, BeginsTypes DEF KnowingClient, Types, rows
<1>4. ASSUME NEW u \in Users,
             \/ UserDelete(c, u) \/ ApiUserDelete(c, u) \/ Toggles(c, u)
             \/ (\E m \in Managers : UserAdd(c, u, m)) \/ ApiUserInsert(c, u) \/ Register(c, u) \/ AutoRegister(c, u)
      PROVE  Types'
  <2>1. CASE UserDelete(c, u) \/ ApiUserDelete(c, u)
    BY <1>2, <2>1 DEF UserDelete, ApiUserDelete, Deletions, UserDeletions, Ids
  <2>2. CASE Toggles(c, u)
    <3>1. PICK active \in BOOLEAN : active = ~user[u].active
      OBVIOUS
    <3>2. [[Idle EXCEPT !.pc = "second", !.id = u, !.active = active] EXCEPT !.op = "toggle"] \in Client
      BY <1>1 DEF Client, AllOps, Ids
    <3>3. Knows([[Idle EXCEPT !.pc = "second", !.id = u, !.active = active] EXCEPT !.op = "toggle"])
      BY <1>1 DEF Client, Knows, Additions, Registrations, UserDeletions, RowAdditions
    <3>4. Begins(c, "toggle", [Idle EXCEPT !.pc = "second", !.id = u, !.active = active]) /\ UNCHANGED <<rows, domain>>
      BY <2>2, <3>1 DEF Toggles
    <3> QED
      BY <3>2, <3>3, <3>4, BeginsTypes DEF KnowingClient, Types, rows
  <2>3. CASE (\E m \in Managers : UserAdd(c, u, m)) \/ ApiUserInsert(c, u) \/ Register(c, u) \/ AutoRegister(c, u)
    <3>1. UserGroup[u] \in Groups /\ {u} \in SUBSET Users
      BY DEF Assumption
    <3> QED
      BY <1>3, <2>3, <3>1 DEF UserAdd, ApiUserInsert, Register, AutoRegister, Additions, Registrations
  <2> QED
    BY <1>4, <2>1, <2>2, <2>3
<1>5. ASSUME NEW op \in RowAdditions, NEW g \in Groups, RowBegins(c, op, g)
      PROVE  client' \in [Clients -> KnowingClient] /\ saw' \in [Clients -> BOOLEAN] /\ UNCHANGED <<user, domain>>
  <2>1. [[Idle EXCEPT !.pc = "second", !.id = g] EXCEPT !.op = op] \in Client
    BY <1>1 DEF Client, AllOps, Ids, RowAdditions
  <2>2. Knows([[Idle EXCEPT !.pc = "second", !.id = g] EXCEPT !.op = op])
    BY <1>1 DEF Client, Knows, Additions, Registrations, UserDeletions, RowAdditions
  <2> QED
    BY <1>5, <2>1, <2>2, BeginsTypes DEF RowBegins, KnowingClient
<1>6. ASSUME NEW g \in Groups, GroupDelete(c, g) \/ ApiGroupDelete(c, g) PROVE Types'
  <2>1. CASE GroupDelete(c, g)
    BY <1>2, <2>1 DEF GroupDelete, Deletions, UserDeletions, Ids
  <2>2. CASE ApiGroupDelete(c, g)
    BY <2>2 DEF ApiGroupDelete, Types
  <2> QED
    BY <1>6, <2>1, <2>2
<1>7. ASSUME NEW g \in Groups, GroupAdd(c, g) \/ GroupCreate(c, g) \/ CategoryAdd(c, g) \/ CategoryCreate(c, g) PROVE Types'
  <2>1. GroupCategory[g] \in Categories
    BY DEF Assumption
  <2>2. \A limit \in Limits \cup {None} :
            NewRow(group[g], limit) \in Limited /\ NewRow(category[GroupCategory[g]], limit) \in Limited
    BY <2>1, LimitedRows DEF Types
  <2>3. /\ client' \in [Clients -> KnowingClient] /\ saw' \in [Clients -> BOOLEAN] /\ UNCHANGED <<user, domain>>
    BY <1>5, <1>7 DEF GroupAdd, GroupCreate, CategoryAdd, CategoryCreate, RowAdditions
  <2>4. /\ \/ category' = category
           \/ \E limit \in Limits \cup {None} :
                  category' = [category EXCEPT ![GroupCategory[g]] = NewRow(category[GroupCategory[g]], limit)]
        /\ group' = group \/ group' = [group EXCEPT ![g] = NewRow(group[g], None)]
    BY <1>7 DEF GroupAdd, GroupCreate, CategoryAdd, CategoryCreate
  <2> QED
    BY <2>2, <2>3, <2>4 DEF Types
<1>8. ASSUME NEW g \in Groups, NEW us \in SUBSET Users, NEW m \in Managers, BulkUsersAdd(c, us, g, m) PROVE Types'
  BY <1>3, <1>8 DEF BulkUsersAdd, Additions, Registrations
<1>9. ASSUME NEW g \in Groups, NEW limit \in Limits \cup {None}, GroupLimit(c, g, limit) PROVE Types'
  <2>1. PICK above : above = category[GroupCategory[g]].limit
    OBVIOUS
  <2>2. above \in Limits \cup {None}
    BY <1>9, <2>1 DEF GroupLimit, Types, Limited, Assumption
  <2>3. PICK value \in Limits \cup {None} : value = IF limit = None THEN None ELSE Clamped(limit, above)
    BY <2>2 DEF Clamped
  <2>4. [[Idle EXCEPT !.pc = "second", !.id = g, !.value = value] EXCEPT !.op = "group_limit"] \in Client
    BY <1>1 DEF Client, AllOps, Ids, LimitUpdates
  <2>5. Knows([[Idle EXCEPT !.pc = "second", !.id = g, !.value = value] EXCEPT !.op = "group_limit"])
    BY <1>1 DEF Client, Knows, Additions, Registrations, UserDeletions, RowAdditions
  <2>6. Begins(c, "group_limit", [Idle EXCEPT !.pc = "second", !.id = g, !.value = value]) /\ UNCHANGED <<rows, domain>>
    BY <1>9, <2>1, <2>3 DEF GroupLimit
  <2> QED
    BY <2>4, <2>5, <2>6, BeginsTypes DEF KnowingClient, Types, rows
<1>10. ASSUME NEW k \in Categories, CategoryDelete(c, k) \/ ApiCategoryDelete(c, k) PROVE Types'
  <2>1. CASE CategoryDelete(c, k)
    BY <1>2, <2>1 DEF CategoryDelete, Deletions, UserDeletions, Ids
  <2>2. CASE ApiCategoryDelete(c, k)
    BY <2>2 DEF ApiCategoryDelete, Types
  <2> QED
    BY <1>10, <2>1, <2>2
<1>11. ASSUME NEW k \in Categories, NEW op \in {"category_limit", "category_limit_propagate"},
              NEW limit \in Limits \cup {None}, CategoryLimit(c, op, k, limit)
       PROVE  Types'
  <2>1. [[Idle EXCEPT !.pc = "second", !.id = k, !.value = limit] EXCEPT !.op = op] \in Client
    BY <1>1 DEF Client, AllOps, Ids, LimitUpdates
  <2>2. Knows([[Idle EXCEPT !.pc = "second", !.id = k, !.value = limit] EXCEPT !.op = op])
    BY <1>1 DEF Client, Knows, Additions, Registrations, UserDeletions, RowAdditions
  <2>3. Begins(c, op, [Idle EXCEPT !.pc = "second", !.id = k, !.value = limit]) /\ UNCHANGED <<group, user, domain>>
        /\ category[k] \in Limited
        /\ category' = [category EXCEPT ![k] = [category[k] EXCEPT !.limit = limit]]
    BY <1>11 DEF CategoryLimit, Types
  <2>4. [category[k] EXCEPT !.limit = limit] \in Limited
    BY <2>3, LimitedRows
  <2> QED
    BY <2>1, <2>2, <2>3, <2>4, BeginsTypes DEF KnowingClient, Types
<1>12. ASSUME NEW t \in Domains, TemplateDelete(c, t) PROVE Types'
  BY <1>2, <1>12 DEF TemplateDelete, Deletions, UserDeletions, Ids
<1> QED
  BY <1>4, <1>6, <1>7, <1>8, <1>9, <1>10, <1>11, <1>12 DEF Asks

----------------------------------------------------------------------------
(* What goes on.                                                           *)

LEMMA DomainItemFound ==
    ASSUME Types, NEW d \in Domains, domain[d] # None
    PROVE  /\ DomainItem(d) \in Found /\ DomainItem(d).kind = "domain" /\ DomainItem(d).id = d
           /\ DomainItem(d).status \in Statuses
BY DEF Types, Domain, DomainItem, Found, Item

LEMMA OwnedFound ==
    ASSUME Types, NEW us, NEW kind
    PROVE  Owned(us, kind) \subseteq Found /\ \A i \in Owned(us, kind) : i.kind = "domain"
BY DomainItemFound DEF Owned, There

LEMMA UsersFound == ASSUME NEW us \in SUBSET Users PROVE UserItems(us) \subseteq Found
<1>1. \A u \in us : RowItem("user", u) \in Found
  BY DEF RowItem, Found, Item
<1> QED
  BY <1>1 DEF UserItems

LEMMA ChecksFound ==
    ASSUME Types
    PROVE  /\ \A u \in Users : UserDeleteChecks(u) \in Seq(SUBSET Found) /\ Len(UserDeleteChecks(u)) = 2
           /\ \A g \in Groups : GroupDeleteChecks(g) \in Seq(SUBSET Found) /\ Len(GroupDeleteChecks(g)) = 4
           /\ \A k \in Categories : CategoryDeleteChecks(k) \in Seq(SUBSET Found) /\ Len(CategoryDeleteChecks(k)) = 5
           /\ \A t \in Domains : domain[t] # None => TemplateDeleteList(t) \in Seq(SUBSET Found)
                                                   /\ Len(TemplateDeleteList(t)) = 1
<1>1. ASSUME NEW u \in Users PROVE UserDeleteChecks(u) \in Seq(SUBSET Found) /\ Len(UserDeleteChecks(u)) = 2
  BY OwnedFound DEF UserDeleteChecks
<1>2. ASSUME NEW g \in Groups PROVE GroupDeleteChecks(g) \in Seq(SUBSET Found) /\ Len(GroupDeleteChecks(g)) = 4
  <2>1. PICK us \in SUBSET Users : us = UsersOfGroup(g)
    BY DEF UsersOfGroup
  <2>2. PICK R : R = {RowItem("group", g)}
    OBVIOUS
  <2>3. RowItem("group", g) \in Found
    BY DEF RowItem, Found, Item
  <2>4. R \in SUBSET Found
    BY <2>2, <2>3
  <2>5. <<R, UserItems(us), Owned(us, "desktop"), Owned(us, "template")>> \in Seq(SUBSET Found)
    BY <2>4, UsersFound, OwnedFound
  <2> QED
    BY <2>1, <2>2, <2>5 DEF GroupDeleteChecks
<1>3. ASSUME NEW k \in Categories
      PROVE  CategoryDeleteChecks(k) \in Seq(SUBSET Found) /\ Len(CategoryDeleteChecks(k)) = 5
  <2>1. PICK us \in SUBSET Users : us = UsersOfCategory(k)
    BY DEF UsersOfCategory
  <2>2. PICK gs \in SUBSET Groups : gs = {g \in Groups : group[g] # None /\ GroupCategory[g] = k}
    OBVIOUS
  <2>3. PICK R, S : R = {RowItem("category", k)} /\ S = {RowItem("group", g) : g \in gs}
    OBVIOUS
  <2>4. RowItem("category", k) \in Found /\ \A g \in gs : RowItem("group", g) \in Found
    BY DEF RowItem, Found, Item
  <2>5. R \in SUBSET Found /\ S \in SUBSET Found
    BY <2>3, <2>4
  <2>6. <<R, S, UserItems(us), Owned(us, "desktop"), Owned(us, "template")>> \in Seq(SUBSET Found)
    BY <2>5, UsersFound, OwnedFound
  <2> QED
    BY <2>1, <2>2, <2>3, <2>6 DEF CategoryDeleteChecks
<1>4. ASSUME NEW t \in Domains, domain[t] # None
      PROVE  TemplateDeleteList(t) \in Seq(SUBSET Found) /\ Len(TemplateDeleteList(t)) = 1
  BY <1>4, DomainItemFound DEF TemplateDeleteList
<1> QED
  BY <1>1, <1>2, <1>3, <1>4

LEMMA LastOnlyFound ==
    ASSUME NEW todo \in Seq(SUBSET Found)
    PROVE  LastOnly(todo) \in Seq(SUBSET Found) /\ Len(LastOnly(todo)) = Len(todo)
<1>1. \A k \in 1 .. Len(todo) : todo[k] \ UNION {todo[j] : j \in k + 1 .. Len(todo)} \in SUBSET Found
  OBVIOUS
<1>2. LastOnly(todo) \in [1 .. Len(todo) -> SUBSET Found]
  BY <1>1 DEF LastOnly
<1> QED
  BY <1>2

LEMMA LessFound ==
    ASSUME NEW todo \in Seq(SUBSET Found), NEW k, NEW i
    PROVE  [todo EXCEPT ![k] = @ \ {i}] \in Seq(SUBSET Found) /\ Len([todo EXCEPT ![k] = @ \ {i}]) = Len(todo)
<1>1. PICK less : less = [todo EXCEPT ![k] = todo[k] \ {i}]
  OBVIOUS
<1>2. DOMAIN less = 1 .. Len(todo)
  BY <1>1
<1>3. \A j \in 1 .. Len(todo) : less[j] \in SUBSET Found
  BY <1>1
<1>4. less \in [1 .. Len(todo) -> SUBSET Found]
  BY <1>1, <1>2, <1>3
<1> QED
  BY <1>1, <1>4

LEMMA DerivedFound == ASSUME Types, NEW S PROVE {DomainItem(d) : d \in Derived(S)} \in SUBSET Found
BY DomainItemFound DEF Derived, There

\* Where a deletion goes on, with what it has left to do.
LEMMA DeletionGoesOn ==
    ASSUME NEW r \in KnowingClient, r.op \in Deletions, NEW todo \in Seq(SUBSET Found), NEW now \in Found \cup {None},
           NEW pc \in {"derived", "items", "stopping", "deleting"},
           pc \in {"stopping", "deleting"} => now \in Found /\ now.kind = "domain",
           Len(todo) \in 1 .. (IF pc = "derived" THEN 5 ELSE 6),
           NEW q \in Client, q.pc = pc, q.op = r.op, q.id = r.id, q.todo = todo, q.now = now
    PROVE  q \in KnowingClient
BY DEF KnowingClient, Knows

LEMMA ReadsOwnTypes ==
    ASSUME Assumption, Types, NEW c \in Clients, ReadsOwn(c)
    PROVE  /\ Types' /\ UNCHANGED <<rows, domain, saw>> /\ client[c].op \in Deletions
           /\ \/ client'[c] = Idle
              \/ /\ client'[c].pc = "derived" /\ client'[c].op = client[c].op /\ client'[c].id = client[c].id
                 /\ client[c].op \in UserDeletions => client'[c].todo = UserDeleteChecks(client[c].id)
                 /\ client[c].op = "group_delete" => client'[c].todo = GroupDeleteChecks(client[c].id)
                 /\ client[c].op = "category_delete" => client'[c].todo = CategoryDeleteChecks(client[c].id)
                 /\ client[c].op = "template_delete" => client'[c].todo = TemplateDeleteList(client[c].id)
<1>1. client[c] \in Client /\ Knows(client[c]) /\ client[c].op \in Deletions
  BY DEF Types, KnowingClient, ReadsOwn, Knows
<1>2. UNCHANGED <<rows, domain, saw>>
  BY DEF ReadsOwn, Answers, Goes
<1>3. CASE \E ok : Answers(c, ok)
  <2>1. client' = [client EXCEPT ![c] = Idle]
    BY <1>3 DEF Answers
  <2> QED
    BY <1>1, <1>2, <2>1, IdleKnows DEF Types, rows
<1>4. ASSUME NEW own, Goes(c, [client[c] EXCEPT !.pc = "derived", !.todo = own]), own \in Seq(SUBSET Found),
             Len(own) \in 1 .. 5
      PROVE  Types' /\ client'[c].pc = "derived" /\ client'[c].op = client[c].op /\ client'[c].id = client[c].id
             /\ client'[c].todo = own
  <2>1. PICK q : q = [client[c] EXCEPT !.pc = "derived", !.todo = own]
    OBVIOUS
  <2>2. q \in Client /\ q.pc = "derived" /\ q.op = client[c].op /\ q.id = client[c].id /\ q.todo = own
        /\ q.now = client[c].now
    BY <1>1, <1>4, <2>1 DEF Client
  <2>3. q \in KnowingClient
    BY <1>1, <1>4, <2>2 DEF KnowingClient, Knows
  <2>4. client' = [client EXCEPT ![c] = q]
    BY <1>4, <2>1 DEF Goes
  <2> QED
    BY <1>2, <2>2, <2>3, <2>4 DEF Types, rows
<1>5. CASE client[c].op \in UserDeletions
  <2>1. client[c].id \in Users
    BY <1>1, <1>5 DEF Knows
  <2>2. UserDeleteChecks(client[c].id) \in Seq(SUBSET Found) /\ Len(UserDeleteChecks(client[c].id)) \in 1 .. 5
    BY <2>1, ChecksFound
  <2>3. \/ \E ok : Answers(c, ok)
        \/ Goes(c, [client[c] EXCEPT !.pc = "derived", !.todo = UserDeleteChecks(client[c].id)])
    BY <1>5 DEF ReadsOwn, UserDeletions
  <2>4. CASE Goes(c, [client[c] EXCEPT !.pc = "derived", !.todo = UserDeleteChecks(client[c].id)])
    BY <1>1, <1>2, <1>4, <1>5, <2>2, <2>4 DEF UserDeletions
  <2> QED
    BY <1>1, <1>2, <1>3, <2>3, <2>4, IdleKnows DEF Answers, Types
<1>6. CASE client[c].op = "group_delete"
  <2>1. client[c].id \in Groups
    BY <1>1, <1>6 DEF Knows
  <2>2. GroupDeleteChecks(client[c].id) \in Seq(SUBSET Found) /\ Len(GroupDeleteChecks(client[c].id)) \in 1 .. 5
    BY <2>1, ChecksFound
  <2>3. \/ \E ok : Answers(c, ok)
        \/ Goes(c, [client[c] EXCEPT !.pc = "derived", !.todo = GroupDeleteChecks(client[c].id)])
    BY <1>6 DEF ReadsOwn
  <2>4. CASE Goes(c, [client[c] EXCEPT !.pc = "derived", !.todo = GroupDeleteChecks(client[c].id)])
    BY <1>1, <1>2, <1>4, <1>6, <2>2, <2>4 DEF UserDeletions
  <2> QED
    BY <1>1, <1>2, <1>3, <2>3, <2>4, IdleKnows DEF Answers, Types
<1>7. CASE client[c].op = "category_delete"
  <2>1. client[c].id \in Categories
    BY <1>1, <1>7 DEF Knows
  <2>2. CategoryDeleteChecks(client[c].id) \in Seq(SUBSET Found) /\ Len(CategoryDeleteChecks(client[c].id)) \in 1 .. 5
    BY <2>1, ChecksFound
  <2>3. \/ \E ok : Answers(c, ok)
        \/ Goes(c, [client[c] EXCEPT !.pc = "derived", !.todo = CategoryDeleteChecks(client[c].id)])
    BY <1>7 DEF ReadsOwn
  <2>4. CASE Goes(c, [client[c] EXCEPT !.pc = "derived", !.todo = CategoryDeleteChecks(client[c].id)])
    BY <1>1, <1>2, <1>4, <1>7, <2>2, <2>4 DEF UserDeletions
  <2> QED
    BY <1>1, <1>2, <1>3, <2>3, <2>4, IdleKnows DEF Answers, Types
<1>8. CASE client[c].op = "template_delete"
  <2>1. client[c].id \in Domains
    BY <1>1, <1>8 DEF Knows
  <2>2. \/ \E ok : Answers(c, ok)
        \/ domain[client[c].id] # None
           /\ Goes(c, [client[c] EXCEPT !.pc = "derived", !.todo = TemplateDeleteList(client[c].id)])
    BY <1>8 DEF ReadsOwn
  <2>3. ASSUME domain[client[c].id] # None,
               Goes(c, [client[c] EXCEPT !.pc = "derived", !.todo = TemplateDeleteList(client[c].id)])
        PROVE  /\ Types' /\ client'[c].pc = "derived" /\ client'[c].op = client[c].op
               /\ client'[c].id = client[c].id /\ client'[c].todo = TemplateDeleteList(client[c].id)
    <3>1. TemplateDeleteList(client[c].id) \in Seq(SUBSET Found) /\ Len(TemplateDeleteList(client[c].id)) \in 1 .. 5
      BY <2>1, <2>3, ChecksFound
    <3> QED
      BY <1>4, <2>3, <3>1
  <2> QED
    BY <1>1, <1>2, <1>3, <1>8, <2>2, <2>3, IdleKnows DEF Answers, Types, UserDeletions
<1> QED
  BY <1>1, <1>5, <1>6, <1>7, <1>8 DEF Deletions, UserDeletions

LEMMA FirstIsLeft ==
    ASSUME NEW r, Len(r.todo) \in 1 .. 6, Left(r)
    PROVE  First(r) \in 1 .. Len(r.todo) /\ r.todo[First(r)] # {} /\ \A j \in 1 .. First(r) - 1 : r.todo[j] = {}
<1> DEFINE n == Len(r.todo)
           P(k) == k <= n /\ r.todo[k] # {}
<1>1. \E k \in 1 .. n : P(k) /\ \A j \in 1 .. k - 1 : ~P(j)
  <2>1. P(1) \/ P(2) \/ P(3) \/ P(4) \/ P(5) \/ P(6)
    BY DEF Left
  <2> QED
    BY <2>1
<1>2. \E k \in 1 .. n : r.todo[k] # {} /\ \A j \in 1 .. k - 1 : r.todo[j] = {}
  BY <1>1
<1> QED
  BY <1>2 DEF First

\* What a request finds is left of its list, with what derives from it.
Templates(todo) ==
    {i.id : i \in {i \in UNION {todo[k] : k \in 1 .. Len(todo)} : i.kind = "domain"}}
DerivedItems(todo) == {DomainItem(d) : d \in Derived(Templates(todo))}

LEMMA ReadsDerivedGoes ==
    ASSUME Assumption, Types, NEW c \in Clients, ReadsDerived(c)
    PROVE  /\ Types' /\ UNCHANGED <<rows, domain, saw>>
           /\ \E q \in KnowingClient :
                /\ client' = [client EXCEPT ![c] = q]
                /\ q.pc = "items" /\ q.op = client[c].op /\ q.id = client[c].id
                /\ q.todo = LastOnly(Append(client[c].todo, DerivedItems(client[c].todo)))
<1>1. client[c] \in Client /\ Knows(client[c]) /\ client[c].op \in Deletions /\ client[c].pc = "derived"
      /\ Len(client[c].todo) \in 1 .. 5 /\ client[c].todo \in Seq(SUBSET Found)
  BY DEF Types, KnowingClient, ReadsDerived, Knows, Client
<1>2. PICK items \in SUBSET Found : items = DerivedItems(client[c].todo)
  BY DerivedFound DEF DerivedItems
<1>3. Append(client[c].todo, items) \in Seq(SUBSET Found)
      /\ Len(Append(client[c].todo, items)) = Len(client[c].todo) + 1
  BY <1>1
<1>4. PICK todo \in Seq(SUBSET Found) : todo = LastOnly(Append(client[c].todo, items)) /\ Len(todo) \in 1 .. 6
  <2>1. \A n \in 1 .. 5 : n + 1 \in 1 .. 6
    OBVIOUS
  <2>2. LastOnly(Append(client[c].todo, items)) \in Seq(SUBSET Found)
        /\ Len(LastOnly(Append(client[c].todo, items))) = Len(client[c].todo) + 1
    BY <1>3, LastOnlyFound
  <2> QED
    BY <1>1, <2>1, <2>2
<1>5. PICK q : q = [client[c] EXCEPT !.pc = "items", !.todo = todo]
  OBVIOUS
<1>6. q \in Client /\ q.pc = "items" /\ q.op = client[c].op /\ q.id = client[c].id /\ q.todo = todo
      /\ q.now = client[c].now /\ q.now \in Found \cup {None}
  BY <1>1, <1>5 DEF Client
<1>7. q \in KnowingClient
  BY <1>1, <1>4, <1>6 DEF KnowingClient, Knows
<1>8. client' = [client EXCEPT ![c] = q] /\ UNCHANGED <<rows, domain, saw>>
  BY <1>2, <1>4, <1>5 DEF ReadsDerived, Goes, DerivedItems, Templates
<1>9. Types'
  BY <1>7, <1>8 DEF Types, rows
<1> QED
  BY <1>2, <1>4, <1>6, <1>7, <1>8, <1>9

\* One item goes from one place of what is left.
TakesItem(todo, less, i) ==
    \E k \in 1 .. Len(todo) : i \in todo[k] /\ less = [todo EXCEPT ![k] = @ \ {i}]

LEMMA TakenFound ==
    ASSUME NEW todo \in Seq(SUBSET Found), NEW less, NEW i, TakesItem(todo, less, i)
    PROVE  /\ less \in Seq(SUBSET Found) /\ Len(less) = Len(todo) /\ i \in Found
           /\ \A j \in 1 .. Len(todo) : \A x \in todo[j] : x # i => x \in less[j]
           /\ \A j \in 1 .. Len(todo) : less[j] \subseteq todo[j]
<1>1. PICK k \in 1 .. Len(todo) : i \in todo[k] /\ less = [todo EXCEPT ![k] = @ \ {i}]
  BY DEF TakesItem
<1>2. todo[k] \in SUBSET Found
  OBVIOUS
<1>3. \A j \in 1 .. Len(todo) : less[j] = IF j = k THEN todo[j] \ {i} ELSE todo[j]
  <2>1. DOMAIN todo = 1 .. Len(todo)
    OBVIOUS
  <2> QED
    BY <1>1, <2>1
<1> QED
  BY <1>1, <1>2, <1>3, LessFound

LEMMA DeletesRowGoes ==
    ASSUME Assumption, Types, NEW c \in Clients, DeletesRow(c)
    PROVE  /\ Types' /\ UNCHANGED <<domain, saw>>
           /\ \E q \in KnowingClient, i \in Found :
                /\ client' = [client EXCEPT ![c] = q]
                /\ i.kind # "domain" /\ TakesItem(client[c].todo, q.todo, i)
                /\ q.pc = "items" /\ q.op = client[c].op /\ q.id = client[c].id
                /\ category' = IF i.kind = "category" THEN [category EXCEPT ![i.id] = None] ELSE category
                /\ group' = IF i.kind = "group" THEN [group EXCEPT ![i.id] = None] ELSE group
                /\ user' = IF i.kind = "user" THEN [user EXCEPT ![i.id] = None] ELSE user
<1>1. client[c] \in Client /\ Knows(client[c]) /\ client[c].op \in Deletions /\ client[c].pc = "items"
      /\ Len(client[c].todo) \in 1 .. 6 /\ client[c].todo \in Seq(SUBSET Found)
  BY DEF Types, KnowingClient, DeletesRow, Knows, Client
<1>2. PICK k \in 1 .. Len(client[c].todo) : k = First(client[c])
  BY <1>1, FirstIsLeft DEF DeletesRow
<1>3. PICK i \in client[c].todo[k] :
        /\ i.kind # "domain"
        /\ category' = (IF i.kind = "category" THEN [category EXCEPT ![i.id] = None] ELSE category)
        /\ group' = (IF i.kind = "group" THEN [group EXCEPT ![i.id] = None] ELSE group)
        /\ user' = (IF i.kind = "user" THEN [user EXCEPT ![i.id] = None] ELSE user)
        /\ Goes(c, [client[c] EXCEPT !.todo[k] = @ \ {i}])
  BY <1>2 DEF DeletesRow
<1>4. PICK todo : todo = [client[c].todo EXCEPT ![k] = @ \ {i}]
  OBVIOUS
<1>5. TakesItem(client[c].todo, todo, i)
  BY <1>4 DEF TakesItem
<1>6. todo \in Seq(SUBSET Found) /\ Len(todo) = Len(client[c].todo) /\ i \in Found
  BY <1>1, <1>5, TakenFound
<1>7. PICK q : q = [client[c] EXCEPT !.todo = todo]
  OBVIOUS
<1>8. q \in Client /\ q.pc = "items" /\ q.op = client[c].op /\ q.id = client[c].id /\ q.todo = todo
      /\ q.now = client[c].now /\ q.now \in Found \cup {None}
  BY <1>1, <1>6, <1>7 DEF Client
<1>9. q \in KnowingClient
  BY <1>1, <1>6, <1>8 DEF KnowingClient, Knows
<1>10. client' = [client EXCEPT ![c] = q]
  BY <1>3, <1>4, <1>7 DEF Goes
<1>11. UNCHANGED <<domain, saw>>
  BY DEF DeletesRow
<1>12. category' \in [Categories -> Limited \cup {None}] /\ group' \in [Groups -> Limited \cup {None}]
  BY <1>3 DEF Types
<1>13. user' \in [Users -> [active : BOOLEAN] \cup {None}]
  BY <1>3 DEF Types
<1>14. Types'
  BY <1>9, <1>10, <1>11, <1>12, <1>13 DEF Types
<1> QED
  BY <1>3, <1>5, <1>6, <1>8, <1>9, <1>10, <1>11, <1>14

LEMMA WrittenStatus ==
    ASSUME Assumption, Types, NEW d \in Domains, NEW status \in Statuses,
           domain' = (IF domain[d] = None THEN domain ELSE [domain EXCEPT ![d].status = status])
    PROVE  /\ domain' \in [Domains -> Domain \cup {None}]
           /\ \A e \in Domains : /\ domain'[e] = None <=> domain[e] = None
                                 /\ domain[e] # None => domain'[e].user = domain[e].user
                                                        /\ domain'[e].kind = domain[e].kind
                                 /\ domain[e] # None => domain'[e].status = IF e = d THEN status ELSE domain[e].status
           /\ \A e \in Domains : e # d => domain'[e] = domain[e]
<1>1. CASE domain[d] = None
  BY <1>1 DEF Types
<1>2. CASE domain[d] # None
  <2>1. PICK row : row = [domain[d] EXCEPT !.status = status]
    OBVIOUS
  <2>2. domain' = [domain EXCEPT ![d] = row]
    BY <1>2, <2>1
  <2>3. row \in Domain /\ row.user = domain[d].user /\ row.kind = domain[d].kind /\ row.status = status
    BY <1>2, <2>1, StatusTypes
  <2>4. row # None
    BY <2>3 DEF Assumption
  <2> QED
    BY <2>2, <2>3, <2>4 DEF Types
<1> QED
  BY <1>1, <1>2

LEMMA DeletesDomainGoes ==
    ASSUME Assumption, Types, NEW c \in Clients, DeletesDomain(c)
    PROVE  /\ Types' /\ UNCHANGED rows
           /\ \E q \in KnowingClient, i \in Found :
                /\ client' = [client EXCEPT ![c] = q] /\ saw' = [saw EXCEPT ![c] = FALSE]
                /\ i.kind = "domain" /\ TakesItem(client[c].todo, q.todo, i)
                /\ q.pc \in {"stopping", "deleting"} /\ q.op = client[c].op /\ q.id = client[c].id /\ q.now = i
                /\ \E status \in {"Stopping", "Deleting"} :
                    /\ domain' = (IF domain[i.id] = None THEN domain ELSE [domain EXCEPT ![i.id].status = status])
                    /\ q.pc = IF status = "Stopping" THEN "stopping" ELSE "deleting"
<1>1. client[c] \in Client /\ Knows(client[c]) /\ client[c].op \in Deletions /\ client[c].pc = "items"
      /\ Len(client[c].todo) \in 1 .. 6 /\ client[c].todo \in Seq(SUBSET Found)
  BY DEF Types, KnowingClient, DeletesDomain, Knows, Client
<1>2. PICK k \in 1 .. Len(client[c].todo) : k = First(client[c])
  BY <1>1, FirstIsLeft DEF DeletesDomain
<1>3. PICK i \in client[c].todo[k] :
        /\ i.kind = "domain"
        /\ \E pc \in {"stopping", "deleting"}, status \in {"Stopping", "Deleting"} :
             /\ WritesAndWaits(c, i.id, status,
                    [[client[c] EXCEPT !.todo[k] = @ \ {i}, !.now = i] EXCEPT !.pc = pc])
             /\ pc = IF status = "Stopping" THEN "stopping" ELSE "deleting"
  BY <1>2 DEF DeletesDomain
<1>4. PICK pc \in {"stopping", "deleting"}, status \in {"Stopping", "Deleting"} :
             /\ WritesAndWaits(c, i.id, status,
                    [[client[c] EXCEPT !.todo[k] = @ \ {i}, !.now = i] EXCEPT !.pc = pc])
             /\ pc = IF status = "Stopping" THEN "stopping" ELSE "deleting"
  BY <1>3
<1>5. PICK todo : todo = [client[c].todo EXCEPT ![k] = @ \ {i}]
  OBVIOUS
<1>6. TakesItem(client[c].todo, todo, i)
  BY <1>5 DEF TakesItem
<1>7. todo \in Seq(SUBSET Found) /\ Len(todo) = Len(client[c].todo) /\ i \in Found
  BY <1>1, <1>6, TakenFound
<1>8. PICK q : q = [client[c] EXCEPT !.todo = todo, !.now = i, !.pc = pc]
  OBVIOUS
<1>9. q \in Client /\ q.pc = pc /\ q.op = client[c].op /\ q.id = client[c].id /\ q.todo = todo /\ q.now = i
  BY <1>1, <1>7, <1>8 DEF Client
<1>10. q \in KnowingClient
  BY <1>1, <1>3, <1>7, <1>9 DEF KnowingClient, Knows
<1>11. q = [[client[c] EXCEPT !.todo[k] = @ \ {i}, !.now = i] EXCEPT !.pc = pc]
  BY <1>1, <1>5, <1>8 DEF Client
<1>12. client' = [client EXCEPT ![c] = q] /\ saw' = [saw EXCEPT ![c] = FALSE]
       /\ domain' = (IF domain[i.id] = None THEN domain ELSE [domain EXCEPT ![i.id].status = status])
  BY <1>4, <1>11 DEF WritesAndWaits, Goes
<1>13. i.id \in Domains /\ status \in Statuses
  BY <1>3, <1>7 DEF Found, Statuses
<1>14. domain' \in [Domains -> Domain \cup {None}]
  BY <1>12, <1>13, WrittenStatus
<1>15. UNCHANGED rows
  BY DEF DeletesDomain
<1>16. Types'
  BY <1>10, <1>12, <1>14, <1>15 DEF Types, rows
<1> QED
  BY <1>3, <1>4, <1>6, <1>7, <1>9, <1>10, <1>12, <1>15, <1>16

LEMMA SawStoppedGoes ==
    ASSUME Assumption, Types, NEW c \in Clients, SawStopped(c)
    PROVE  /\ Types' /\ UNCHANGED rows /\ client[c].pc = "stopping"
           /\ client[c].now \in Found /\ client[c].now.kind = "domain"
           /\ \E q \in KnowingClient :
                /\ client' = [client EXCEPT ![c] = q] /\ saw' = [saw EXCEPT ![c] = FALSE]
                /\ q.pc = "deleting" /\ q.op = client[c].op /\ q.id = client[c].id
                /\ q.now = client[c].now /\ q.todo = client[c].todo
                /\ domain' = (IF domain[q.now.id] = None THEN domain
                              ELSE [domain EXCEPT ![q.now.id].status = "Deleting"])
<1>1. client[c] \in Client /\ Knows(client[c]) /\ client[c].op \in Deletions /\ client[c].pc = "stopping"
      /\ client[c].now \in Found /\ client[c].now.kind = "domain"
  BY DEF Types, KnowingClient, SawStopped, Knows, Client
<1>2. PICK q : q = [client[c] EXCEPT !.pc = "deleting"]
  OBVIOUS
<1>3. q \in Client /\ q.pc = "deleting" /\ q.op = client[c].op /\ q.id = client[c].id /\ q.todo = client[c].todo
      /\ q.now = client[c].now
  BY <1>1, <1>2 DEF Client
<1>4. q \in KnowingClient
  BY <1>1, <1>3 DEF KnowingClient, Knows
<1>5. client' = [client EXCEPT ![c] = q] /\ saw' = [saw EXCEPT ![c] = FALSE] /\ UNCHANGED rows
      /\ domain' = (IF domain[q.now.id] = None THEN domain ELSE [domain EXCEPT ![q.now.id].status = "Deleting"])
  BY <1>2, <1>3 DEF SawStopped, WritesAndWaits, Goes
<1>6. q.now.id \in Domains /\ "Deleting" \in Statuses
  BY <1>1, <1>3 DEF Found, Statuses
<1>7. domain' \in [Domains -> Domain \cup {None}]
  BY <1>5, <1>6, WrittenStatus
<1>8. Types'
  BY <1>4, <1>5, <1>7 DEF Types, rows
<1> QED
  BY <1>1, <1>3, <1>4, <1>5, <1>8

LEMMA SawDeletedGoes ==
    ASSUME Assumption, Types, NEW c \in Clients, SawDeleted(c)
    PROVE  /\ Types' /\ UNCHANGED <<rows, domain, saw>> /\ client[c].pc = "deleting" /\ saw[c]
           /\ \E q \in KnowingClient :
                /\ client' = [client EXCEPT ![c] = q]
                /\ q.pc = "items" /\ q.op = client[c].op /\ q.id = client[c].id /\ q.todo = client[c].todo
<1>1. client[c] \in Client /\ Knows(client[c]) /\ client[c].op \in Deletions /\ client[c].pc = "deleting"
  BY DEF Types, KnowingClient, SawDeleted, Knows, Client
<1>2. PICK q : q = [client[c] EXCEPT !.pc = "items", !.now = None]
  OBVIOUS
<1>3. q \in Client /\ q.pc = "items" /\ q.op = client[c].op /\ q.id = client[c].id /\ q.todo = client[c].todo
  BY <1>1, <1>2 DEF Client
<1>4. q \in KnowingClient
  BY <1>1, <1>3 DEF KnowingClient, Knows
<1>5. client' = [client EXCEPT ![c] = q] /\ UNCHANGED <<rows, domain, saw>> /\ saw[c]
  BY <1>2 DEF SawDeleted, Goes
<1>6. Types'
  BY <1>4, <1>5 DEF Types, rows
<1> QED
  BY <1>1, <1>3, <1>4, <1>5, <1>6

\* The requests that end, with what they write last.
LEMMA Ends ==
    ASSUME Assumption, Types, NEW c \in Clients,
           TimesOut(c) \/ Finishes(c) \/ InsertsRow(c) \/ UpdatesGroups(c) \/ TogglesUser(c)
    PROVE  client' = [client EXCEPT ![c] = Idle] /\ UNCHANGED <<domain, saw>>
           /\ client' \in [Clients -> KnowingClient]
<1>1. client' = [client EXCEPT ![c] = Idle] /\ UNCHANGED <<domain, saw>>
  BY DEF TimesOut, Finishes, InsertsRow, UpdatesGroups, TogglesUser, Answers
<1> QED
  BY <1>1, IdleKnows DEF Types

LEMMA EndsTypes ==
    ASSUME Assumption, Types, NEW c \in Clients,
           TimesOut(c) \/ Finishes(c) \/ InsertsRow(c) \/ UpdatesGroups(c) \/ TogglesUser(c)
    PROVE  Types'
<1>1. client[c] \in Client /\ Knows(client[c])
  BY DEF Types, KnowingClient
<1>2. client' \in [Clients -> KnowingClient] /\ UNCHANGED <<domain, saw>>
  BY Ends
<1>3. CASE TimesOut(c)
  BY <1>2, <1>3 DEF Types, TimesOut, rows
<1>4. CASE Finishes(c)
  BY <1>2, <1>4 DEF Types, Finishes
<1>5. CASE InsertsRow(c)
  <2>1. client[c].id \in Groups /\ GroupCategory[client[c].id] \in Categories
    BY <1>1, <1>5 DEF InsertsRow, Knows, Assumption
  <2>2. /\ NewRow(group[client[c].id], None) \in Limited
        /\ NewRow(category[GroupCategory[client[c].id]], None) \in Limited
    BY <2>1, LimitedRows DEF Types
  <2>3. /\ \/ category' = category
           \/ category' = [category EXCEPT ![GroupCategory[client[c].id]] =
                               NewRow(category[GroupCategory[client[c].id]], None)]
        /\ group' = group \/ group' = [group EXCEPT ![client[c].id] = NewRow(group[client[c].id], None)]
        /\ user' = user
    BY <1>5 DEF InsertsRow
  <2> QED
    BY <1>2, <2>1, <2>2, <2>3 DEF Types
<1>6. CASE UpdatesGroups(c)
  <2>1. client[c].value \in Limits \cup {None}
    BY <1>1 DEF Client
  <2>2. \A g \in Groups : group[g] # None => [group[g] EXCEPT !.limit = client[c].value] \in Limited
    BY <2>1, LimitedRows DEF Types
  <2>3. PICK gs : group' = [g \in Groups |-> IF g \in gs /\ group[g] # None
                                      THEN [group[g] EXCEPT !.limit = client[c].value] ELSE group[g]]
    BY <1>6 DEF UpdatesGroups
  <2>4. group' \in [Groups -> Limited \cup {None}]
    BY <2>2, <2>3 DEF Types
  <2>5. UNCHANGED <<category, user>>
    BY <1>6 DEF UpdatesGroups
  <2> QED
    BY <1>2, <2>4, <2>5 DEF Types
<1>7. CASE TogglesUser(c)
  <2>1. [active |-> client[c].active] \in [active : BOOLEAN]
    BY <1>1 DEF Client
  <2>2. \E x \in [active : BOOLEAN] \cup {None} : user' = [user EXCEPT ![client[c].id] = x]
    BY <1>7, <2>1 DEF TogglesUser
  <2>3. UNCHANGED <<category, group>>
    BY <1>7 DEF TogglesUser
  <2> QED
    BY <1>2, <2>2, <2>3 DEF Types
<1> QED
  BY <1>3, <1>4, <1>5, <1>6, <1>7

LEMMA InsertsUsersTypes == ASSUME Assumption, Types, NEW c \in Clients, InsertsUsers(c) PROVE Types'
<1>1. client' = [client EXCEPT ![c] = Idle] /\ UNCHANGED <<category, group, domain, saw>>
  BY DEF InsertsUsers
<1>2. [active |-> TRUE] \in [active : BOOLEAN]
  OBVIOUS
<1>3. PICK us : user' = [u \in Users |-> IF u \in us /\ user[u] = None THEN [active |-> TRUE] ELSE user[u]]
  BY DEF InsertsUsers
<1> QED
  BY <1>1, <1>2, <1>3, IdleKnows DEF Types

LEMMA TogglesDesktopsGoes ==
    ASSUME Assumption, Types, NEW c \in Clients, TogglesDesktops(c)
    PROVE  /\ Types' /\ UNCHANGED rows
           /\ client[c].pc = "second" /\ client[c].op = "toggle" /\ client[c].id \in Users
           /\ \E q \in KnowingClient :
                /\ client' = [client EXCEPT ![c] = q]
                /\ q.pc = "third" /\ q.op = "toggle" /\ q.id = client[c].id /\ q.active = client[c].active
           /\ \A d \in Domains :
                /\ domain'[d] = None <=> domain[d] = None
                /\ domain[d] # None => domain'[d].user = domain[d].user /\ domain'[d].kind = domain[d].kind
                /\ domain[d] # None => /\ domain'[d].parents = domain[d].parents
                                       /\ domain'[d].status \in {domain[d].status, "Stopped", "Disabled"}
                /\ domain[d] # None /\ domain'[d].status = "Disabled" =>
                    \/ /\ domain[d].kind = "desktop" /\ domain[d].user = client[c].id /\ ~client[c].active
                    \/ /\ domain[d].status = "Disabled"
                       /\ ~(domain[d].kind = "desktop" /\ domain[d].user = client[c].id)
<1>1. client[c] \in Client /\ Knows(client[c]) /\ client[c].pc = "second" /\ client[c].op = "toggle"
      /\ client[c].id \in Users
  BY DEF Types, KnowingClient, TogglesDesktops, Knows, Client
<1>2. PICK mine : mine = {d \in There(Domains) : domain[d].user = client[c].id /\ domain[d].kind = "desktop"}
  OBVIOUS
<1>3. /\ domain' = [d \in Domains |->
             IF d \notin mine THEN domain[d]
             ELSE IF ~client[c].active THEN [domain[d] EXCEPT !.status = "Disabled"]
             ELSE IF domain[d].status = "Disabled" THEN [domain[d] EXCEPT !.status = "Stopped"]
             ELSE domain[d]]
      /\ saw' = [x \in Clients |-> saw[x] \/ \E d \in mine :
             client[c].active /\ domain[d].status = "Disabled" /\ SeesWhat(x, d, "Stopped")]
      /\ Goes(c, [client[c] EXCEPT !.pc = "third"])
      /\ UNCHANGED rows
  BY <1>2 DEF TogglesDesktops
<1>4. PICK q : q = [client[c] EXCEPT !.pc = "third"]
  OBVIOUS
<1>5. q \in Client /\ q.pc = "third" /\ q.op = "toggle" /\ q.id = client[c].id /\ q.active = client[c].active
  BY <1>1, <1>4 DEF Client
<1>6. q \in KnowingClient
  BY <1>1, <1>5 DEF KnowingClient, Knows, Additions, Registrations, Deletions, UserDeletions, RowAdditions
<1>7. client' = [client EXCEPT ![c] = q]
  BY <1>3, <1>4 DEF Goes
<1>8. saw' \in [Clients -> BOOLEAN]
  <2>1. \A x \in Clients : (saw[x] \/ \E d \in mine :
             client[c].active /\ domain[d].status = "Disabled" /\ SeesWhat(x, d, "Stopped")) \in BOOLEAN
    OBVIOUS
  <2> QED
    BY <1>3, <2>1
<1>9. \A d \in mine : domain[d] \in Domain /\ domain[d].user = client[c].id /\ domain[d].kind = "desktop"
                      /\ d \in Domains /\ domain[d] # None
  BY <1>2 DEF There, Types
<1>10. "Disabled" \in Statuses /\ "Stopped" \in Statuses
  BY DEF Statuses
<1>11. ASSUME NEW d \in Domains
       PROVE  /\ domain'[d] \in Domain \cup {None}
              /\ domain'[d] = None <=> domain[d] = None
              /\ domain[d] # None => domain'[d].user = domain[d].user /\ domain'[d].kind = domain[d].kind
              /\ domain[d] # None => /\ domain'[d].parents = domain[d].parents
                                     /\ domain'[d].status \in {domain[d].status, "Stopped", "Disabled"}
              /\ domain[d] # None /\ domain'[d].status = "Disabled" =>
                    \/ /\ domain[d].kind = "desktop" /\ domain[d].user = client[c].id /\ ~client[c].active
                    \/ /\ domain[d].status = "Disabled"
                       /\ ~(domain[d].kind = "desktop" /\ domain[d].user = client[c].id)
  <2>1. CASE d \notin mine
    <3>1. domain'[d] = domain[d] /\ domain[d] \in Domain \cup {None}
      BY <1>3, <2>1 DEF Types
    <3> QED
      BY <1>2, <2>1, <3>1 DEF There
  <2>2. CASE d \in mine
    <3>1. \A status \in Statuses : [domain[d] EXCEPT !.status = status] # None
      BY <1>9, <2>2, StatusTypes DEF Assumption
    <3>2. CASE ~client[c].active
      <4>1. domain'[d] = [domain[d] EXCEPT !.status = "Disabled"]
        BY <1>3, <2>2, <3>2
      <4> QED
        BY <1>9, <1>10, <2>2, <3>1, <3>2, <4>1, StatusTypes
    <3>3. CASE client[c].active /\ domain[d].status = "Disabled"
      <4>1. domain'[d] = [domain[d] EXCEPT !.status = "Stopped"]
        BY <1>3, <2>2, <3>3
      <4> QED
        BY <1>9, <1>10, <2>2, <3>1, <3>3, <4>1, StatusTypes
    <3>4. CASE client[c].active /\ domain[d].status # "Disabled"
      <4>1. domain'[d] = domain[d]
        BY <1>3, <2>2, <3>4
      <4> QED
        BY <1>9, <2>2, <3>4, <4>1
    <3> QED
      BY <3>2, <3>3, <3>4
  <2> QED
    BY <2>1, <2>2
<1>12. domain' \in [Domains -> Domain \cup {None}]
  BY <1>3, <1>11
<1>13. Types'
  BY <1>3, <1>6, <1>7, <1>8, <1>12 DEF Types, rows
<1> QED
  BY <1>1, <1>3, <1>5, <1>6, <1>7, <1>11, <1>13

LEMMA TypesStep == ASSUME Assumption, Types, [Next]_vars PROVE Types'
<1>1. CASE UNCHANGED vars
  BY <1>1 DEF Types, vars
<1>2. CASE Others
  BY <1>2, OthersTypes
<1>3. ASSUME NEW c \in Clients, Asks(c) \/ GoesOn(c) PROVE Types'
  BY <1>3, RequestsTypes, ReadsOwnTypes, ReadsDerivedGoes, DeletesRowGoes, DeletesDomainGoes, SawStoppedGoes,
     SawDeletedGoes, EndsTypes, InsertsUsersTypes, TogglesDesktopsGoes DEF GoesOn
<1> QED
  BY <1>1, <1>2, <1>3 DEF Next, Others

\* Where a request that goes on is then.
LEMMA NotSecond ==
    ASSUME Assumption, Types, NEW c \in Clients, GoesOn(c)
    PROVE  client'[c].pc # "second"
<1>1. client[c] \in KnowingClient
  BY DEF Types
<1>2. CASE ReadsOwn(c)
  BY <1>2, ReadsOwnTypes, IdleKnows
<1>3. CASE ReadsDerived(c) \/ DeletesRow(c) \/ DeletesDomain(c) \/ SawStopped(c) \/ SawDeleted(c) \/ TogglesDesktops(c)
  <2>1. PICK q \in KnowingClient : client' = [client EXCEPT ![c] = q] /\ q.pc # "second"
    BY <1>3, ReadsDerivedGoes, DeletesRowGoes, DeletesDomainGoes, SawStoppedGoes, SawDeletedGoes, TogglesDesktopsGoes
  <2> QED
    BY <2>1 DEF Types
<1>4. CASE \/ TimesOut(c) \/ Finishes(c) \/ InsertsRow(c) \/ UpdatesGroups(c) \/ TogglesUser(c) \/ InsertsUsers(c)
  <2>1. client' = [client EXCEPT ![c] = Idle]
    BY <1>4, Ends DEF InsertsUsers
  <2> QED
    BY <2>1, IdleKnows DEF Types
<1> QED
  BY <1>2, <1>3, <1>4 DEF GoesOn

\* What goes on is the same request, unless it has ended.
LEMMA OpStays ==
    ASSUME Assumption, Types, NEW c \in Clients, GoesOn(c)
    PROVE  client'[c].op \in {client[c].op, None}
<1>1. CASE ReadsOwn(c)
  BY <1>1, ReadsOwnTypes, IdleKnows
<1>2. CASE ReadsDerived(c) \/ DeletesRow(c) \/ DeletesDomain(c) \/ SawStopped(c) \/ SawDeleted(c) \/ TogglesDesktops(c)
  <2>1. PICK q \in KnowingClient : client' = [client EXCEPT ![c] = q] /\ q.op = client[c].op
    <3>1. CASE ReadsDerived(c) \/ DeletesRow(c) \/ DeletesDomain(c)
      BY <3>1, ReadsDerivedGoes, DeletesRowGoes, DeletesDomainGoes
    <3>2. CASE SawStopped(c) \/ SawDeleted(c)
      BY <3>2, SawStoppedGoes, SawDeletedGoes
    <3>3. CASE TogglesDesktops(c)
      BY <3>3, TogglesDesktopsGoes
    <3> QED
      BY <1>2, <3>1, <3>2, <3>3
  <2> QED
    BY <2>1 DEF Types
<1>3. CASE \/ TimesOut(c) \/ Finishes(c) \/ InsertsRow(c) \/ UpdatesGroups(c) \/ TogglesUser(c) \/ InsertsUsers(c)
  <2>1. client' = [client EXCEPT ![c] = Idle]
    BY <1>3, Ends DEF InsertsUsers
  <2> QED
    BY <2>1, IdleKnows DEF Types
<1> QED
  BY <1>1, <1>2, <1>3 DEF GoesOn

----------------------------------------------------------------------------
(* Users are added within the limits.                                      *)

OneClient == \A c, d \in Clients : c = d

\* Who adds users in the webapp is of the one group of managers and its category.
OneManager ==
    Ops \cap {"user_add", "users_add"} # {} =>
        \A m \in Managers, g \in Groups : GroupCategory[g] = GroupCategory[m] /\ (g \in Managers => g = m)

\* What is to be inserted fits in the limits as they are.
Checked(todo) ==
    \E us \in SUBSET Users, g \in Groups, m \in Groups :
        /\ todo = <<{RowItem("user", u) : u \in us}>> /\ us \subseteq UsersOfGroup(g)
        /\ WithinLimits(us, m) /\ GroupCategory[m] = GroupCategory[g] /\ (g \in Managers => m = g)

AdditionsChecked ==
    \A c \in Clients : client[c].pc = "second" /\ client[c].op \in Additions => Checked(client[c].todo)

LEMMA CheckedInit == Assumption /\ Init => AdditionsChecked
<1> SUFFICES ASSUME Assumption, Init PROVE AdditionsChecked
  OBVIOUS
<1> QED
  BY IdleKnows DEF Init, AdditionsChecked

LEMMA CheckedKept ==
    ASSUME UNCHANGED rows, NEW todo, Checked(todo)
    PROVE  Checked(todo)'
<1>1. ASSUME NEW us \in SUBSET Users, NEW m \in Groups, WithinLimits(us, m) PROVE WithinLimits(us, m)'
  BY <1>1 DEF rows, WithinLimits, InGroup, InCategory, Inside, Fits
<1> QED
  BY <1>1 DEF Checked, UsersOfGroup, RowItem

LEMMA AddsChecked ==
    ASSUME Assumption, Types, OneManager, Registrations \cap Ops = {}, NEW c \in Clients, NEW op \in Additions,
           NEW us \in SUBSET Users, NEW g \in Groups, AddsUsers(c, op, us, g), NEW m \in Groups,
           WithinLimits(us, m), m = g \/ (m \in Managers /\ op \in {"user_add", "users_add"})
    PROVE  client'[c].op \in Additions => Checked(client[c].todo)'
<1>1. PICK todo : todo = <<{RowItem("user", u) : u \in us}>>
  OBVIOUS
<1>2. Begins(c, op, [Idle EXCEPT !.pc = "second", !.todo = todo]) /\ UNCHANGED rows /\ us \subseteq UsersOfGroup(g)
  BY <1>1 DEF AddsUsers, rows
<1>3. op \in Ops
  BY <1>2 DEF Begins, Does
<1>4. client'[c].todo = todo
  BY <1>2 DEF Begins, Types, Idle
<1>5. GroupCategory[m] = GroupCategory[g] /\ (g \in Managers => m = g)
  BY <1>3 DEF OneManager
<1>6. Checked(todo)
  BY <1>1, <1>2, <1>5 DEF Checked
<1>7. Checked(todo)'
  BY <1>2, <1>6, CheckedKept
<1> QED
  BY <1>4, <1>7 DEF Checked

\* Every other request that begins adds no users.
LEMMA BegunNoAddition ==
    ASSUME Assumption, Types, NEW c \in Clients, NEW op, NEW r, Begins(c, op, r),
           r \in Client, op \notin Additions
    PROVE  client'[c].op \notin Additions
BY DEF Begins, Types, Client

LEMMA CheckedStep ==
    ASSUME Assumption, OneClient, OneManager, Registrations \cap Ops = {}, Types, AdditionsChecked, [Next]_vars
    PROVE  AdditionsChecked'
<1>1. CASE UNCHANGED vars \/ Others
  <2>1. UNCHANGED <<rows, client>>
    BY <1>1, OthersWrite, TemplateMade DEF vars, rows, Others, Creates, UserDoes
  <2>2. ASSUME NEW c \in Clients, client'[c].pc = "second", client'[c].op \in Additions
        PROVE  Checked(client[c].todo)'
    <3>1. PICK todo : todo = client[c].todo
      OBVIOUS
    <3>2. Checked(todo)
      BY <2>1, <2>2, <3>1 DEF AdditionsChecked
    <3>3. Checked(todo)'
      BY <2>1, <3>2, CheckedKept
    <3>4. client'[c].todo = todo
      BY <2>1, <3>1
    <3> QED
      BY <3>3, <3>4 DEF Checked
  <2> QED
    BY <2>2 DEF AdditionsChecked
<1>2. ASSUME NEW c \in Clients, GoesOn(c) PROVE AdditionsChecked'
  BY <1>2, NotSecond DEF AdditionsChecked, OneClient
<1>3. ASSUME NEW c \in Clients, Asks(c), client'[c].pc = "second", client'[c].op \in Additions
      PROVE  Checked(client[c].todo)'
  <2>1. \A m \in Managers : m \in Groups
    BY DEF Assumption
  <2>2. Idle \in Client
    BY IdleKnows DEF KnowingClient
  <2>3. ASSUME NEW u \in Users,
               (\E m \in Managers : UserAdd(c, u, m)) \/ ApiUserInsert(c, u) \/ Register(c, u) \/ AutoRegister(c, u)
        PROVE  Checked(client[c].todo)'
    <3>1. UserGroup[u] \in Groups /\ {u} \in SUBSET Users
      BY DEF Assumption
    <3>2. ~Register(c, u) /\ ~AutoRegister(c, u)
      BY DEF Register, AutoRegister, AddsUsers, Begins, Does, Registrations
    <3> QED
      BY <1>3, <2>1, <2>3, <3>1, <3>2, AddsChecked DEF UserAdd, ApiUserInsert, Additions, Registrations
  <2>4. ASSUME NEW g \in Groups, NEW us \in SUBSET Users, NEW m \in Managers, BulkUsersAdd(c, us, g, m)
        PROVE  Checked(client[c].todo)'
    BY <1>3, <2>1, <2>4, AddsChecked DEF BulkUsersAdd, Additions, Registrations
  <2>5. ~(\E op, r : Begins(c, op, r) /\ r \in Client /\ op \notin Additions)
    BY <1>3, BegunNoAddition
  <2>6. ASSUME NEW op \in Deletions, NEW id \in Ids PROVE ~DeletionBegins(c, op, id)
    <3>1. [Idle EXCEPT !.pc = "own", !.id = id] \in Client
      BY <2>2 DEF Client
    <3> QED
      BY <2>5, <3>1 DEF DeletionBegins, Deletions, Additions, Registrations
  <2>7. ASSUME NEW u \in Users PROVE ~Toggles(c, u)
    <3>1. \A active \in BOOLEAN : [Idle EXCEPT !.pc = "second", !.id = u, !.active = active] \in Client
      BY <2>2 DEF Client, Ids
    <3>2. PICK active \in BOOLEAN : active = ~user[u].active
      OBVIOUS
    <3>3. "toggle" \notin Additions
      BY DEF Additions, Registrations
    <3>4. PICK r : r = [Idle EXCEPT !.pc = "second", !.id = u, !.active = active]
      OBVIOUS
    <3>5. r \in Client
      BY <3>1, <3>4
    <3>6. ~Begins(c, "toggle", r)
      BY <2>5, <3>3, <3>5
    <3> QED
      BY <3>2, <3>4, <3>6 DEF Toggles
  <2>8. ASSUME NEW op \in RowAdditions, NEW g \in Groups PROVE ~RowBegins(c, op, g)
    <3>1. [Idle EXCEPT !.pc = "second", !.id = g] \in Client
      BY <2>2 DEF Client, Ids
    <3> QED
      BY <2>5, <3>1 DEF RowBegins, RowAdditions, Additions, Registrations
  <2>9. ASSUME NEW g \in Groups, NEW limit \in Limits \cup {None} PROVE ~GroupLimit(c, g, limit)
    <3>1. SUFFICES ASSUME GroupLimit(c, g, limit) PROVE FALSE
      OBVIOUS
    <3>2. PICK above : above = category[GroupCategory[g]].limit
      OBVIOUS
    <3>3. above \in Limits \cup {None}
      BY <3>1, <3>2 DEF GroupLimit, Types, Limited, Assumption
    <3>4. PICK value \in Limits \cup {None} : value = IF limit = None THEN None ELSE Clamped(limit, above)
      BY <3>3 DEF Clamped
    <3>5. [Idle EXCEPT !.pc = "second", !.id = g, !.value = value] \in Client
      BY <2>2 DEF Client, Ids
    <3> QED
      BY <2>5, <3>1, <3>2, <3>4, <3>5 DEF GroupLimit, Additions, Registrations
  <2>10. ASSUME NEW k \in Categories, NEW op \in {"category_limit", "category_limit_propagate"},
               NEW limit \in Limits \cup {None}
        PROVE  ~CategoryLimit(c, op, k, limit)
    <3>1. [Idle EXCEPT !.pc = "second", !.id = k, !.value = limit] \in Client
      BY <2>2 DEF Client, Ids
    <3> QED
      BY <2>5, <3>1 DEF CategoryLimit, Additions, Registrations
  <2>11. ASSUME NEW g \in Groups PROVE ~ApiGroupDelete(c, g)
    BY <1>3 DEF ApiGroupDelete
  <2>12. ASSUME NEW k \in Categories PROVE ~ApiCategoryDelete(c, k)
    BY <1>3 DEF ApiCategoryDelete
  <2>13. ASSUME NEW u \in Users PROVE ~UserDelete(c, u) /\ ~ApiUserDelete(c, u)
    BY <2>6 DEF UserDelete, ApiUserDelete, Deletions, Ids
  <2>14. ASSUME NEW g \in Groups
         PROVE  /\ ~GroupDelete(c, g) /\ ~GroupAdd(c, g) /\ ~GroupCreate(c, g)
                /\ ~CategoryAdd(c, g) /\ ~CategoryCreate(c, g)
    BY <2>6, <2>8 DEF GroupDelete, GroupAdd, GroupCreate, CategoryAdd, CategoryCreate, RowAdditions, Deletions, Ids
  <2>15. \A k \in Categories : ~CategoryDelete(c, k)
    BY <2>6 DEF CategoryDelete, Deletions, Ids
  <2>16. \A t \in Domains : ~TemplateDelete(c, t)
    BY <2>6 DEF TemplateDelete, Deletions, Ids
  <2> QED
    BY <1>3, <2>3, <2>4, <2>7, <2>9, <2>10, <2>11, <2>12, <2>13, <2>14, <2>15, <2>16 DEF Asks
<1>4. ASSUME NEW c \in Clients, Asks(c) PROVE AdditionsChecked'
  BY <1>3, <1>4 DEF AdditionsChecked, OneClient
<1> QED
  BY <1>1, <1>2, <1>4 DEF Next, Others

\* Who gets a row is being inserted.
LEMMA OnlyInserted ==
    ASSUME Assumption, Types, [Next]_vars, NEW u \in Users, user[u] = None, user'[u] # None
    PROVE  \E c \in Clients : InsertsUsers(c) /\ u \in {i.id : i \in client[c].todo[1]}
<1>1. CASE UNCHANGED vars \/ Others
  <2>1. UNCHANGED rows
    BY <1>1, OthersWrite, TemplateMade DEF vars, rows, Others, Creates, UserDoes
  <2> QED
    BY <2>1 DEF rows
<1>2. ASSUME NEW c \in Clients, Asks(c) PROVE FALSE
  <2>1. user' = user \/ \E us : user' = [x \in Users |-> IF x \in us THEN None ELSE user[x]]
    <3>1. CASE \E g \in Groups : ApiGroupDelete(c, g)
      BY <3>1 DEF ApiGroupDelete
    <3>2. CASE \E k \in Categories : ApiCategoryDelete(c, k)
      <4>1. PICK k \in Categories : user' = [x \in Users |-> IF UserCategory(x) = k THEN None ELSE user[x]]
        BY <3>2 DEF ApiCategoryDelete
      <4>2. user' = [x \in Users |-> IF x \in UsersOfCategory(k) THEN None ELSE user[x]]
        BY <4>1 DEF UsersOfCategory
      <4> QED
        BY <4>2
    <3>3. CASE ~(\E g \in Groups : ApiGroupDelete(c, g)) /\ ~(\E k \in Categories : ApiCategoryDelete(c, k))
      BY <1>2, <3>3 DEF Asks, UserDelete, ApiUserDelete, GroupDelete, CategoryDelete, TemplateDelete, DeletionBegins,
         Toggles, UserAdd, BulkUsersAdd, ApiUserInsert, Register, AutoRegister, AddsUsers, GroupAdd,
         GroupCreate, CategoryAdd, CategoryCreate,
         RowBegins, GroupLimit, CategoryLimit, rows
    <3> QED
      BY <3>1, <3>2, <3>3
  <2> QED
    BY <2>1
<1>3. ASSUME NEW c \in Clients, GoesOn(c), ~InsertsUsers(c) PROVE FALSE
  <2>1. CASE ReadsOwn(c) \/ ReadsDerived(c) \/ DeletesDomain(c) \/ SawStopped(c) \/ SawDeleted(c)
             \/ TimesOut(c) \/ InsertsRow(c) \/ UpdatesGroups(c) \/ TogglesDesktops(c)
    BY <2>1 DEF ReadsOwn, ReadsDerived, DeletesDomain, SawStopped, SawDeleted, TimesOut, InsertsRow, UpdatesGroups,
                TogglesDesktops, rows
  <2>2. CASE DeletesRow(c) \/ Finishes(c)
    <3>1. user' = user \/ \E x : user' = [user EXCEPT ![x] = None]
      BY <2>2, DeletesRowGoes DEF Finishes
    <3> QED
      BY <3>1 DEF Types
  <2>3. CASE TogglesUser(c)
    <3>1. \E x : user' = [user EXCEPT ![x] = IF user[x] = None THEN None ELSE [active |-> client[c].active]]
      BY <2>3 DEF TogglesUser
    <3> QED
      BY <3>1 DEF Types
  <2> QED
    BY <1>3, <2>1, <2>2, <2>3 DEF GoesOn
<1>4. ASSUME NEW c \in Clients, InsertsUsers(c) PROVE u \in {i.id : i \in client[c].todo[1]}
  <2>1. user'[u] = IF u \in {i.id : i \in client[c].todo[1]} /\ user[u] = None THEN [active |-> TRUE] ELSE user[u]
    BY <1>4 DEF InsertsUsers
  <2> QED
    BY <2>1
<1> QED
  BY <1>1, <1>2, <1>3, <1>4 DEF Next, Others

\* What fits with the new ones counted before fits when they are there.
LEMMA FitsAfter ==
    ASSUME Assumption, IsFiniteSet(Users), NEW us \in SUBSET Users, NEW all \in SUBSET Users,
           NEW limit \in Limits \cup {None}, Fits(Cardinality(Inside(all)), Cardinality(us), limit),
           \A u \in Users : user'[u] # None => user[u] # None \/ u \in us
    PROVE  Fits(Cardinality(Inside(all)'), 0, limit)
<1>1. PICK S, T : S = Inside(all) /\ T = Inside(all)'
  OBVIOUS
<1>2. S \in SUBSET Users /\ T \subseteq S \cup us
  BY <1>1 DEF Inside
<1>3. IsFiniteSet(S) /\ IsFiniteSet(us) /\ IsFiniteSet(S \cup us) /\ IsFiniteSet(T) /\ IsFiniteSet(S \cap us)
  <2>1. IsFiniteSet(S) /\ IsFiniteSet(us) /\ IsFiniteSet(S \cup us)
    BY <1>2, FS_Subset, FS_Union
  <2> QED
    BY <1>2, <2>1, FS_Subset
<1>4. Cardinality(S \cup us) = Cardinality(S) + Cardinality(us) - Cardinality(S \cap us)
  BY <1>3, FS_Union
<1>5. Cardinality(T) <= Cardinality(S \cup us)
  BY <1>2, <1>3, FS_Subset
<1>6. /\ Cardinality(S) \in Nat /\ Cardinality(us) \in Nat /\ Cardinality(S \cup us) \in Nat
      /\ Cardinality(T) \in Nat /\ Cardinality(S \cap us) \in Nat
  BY <1>3, FS_CardinalityType
<1>7. limit # None => limit \in Nat /\ Cardinality(S) + Cardinality(us) <= limit
  BY <1>1 DEF Fits, Assumption
<1>8. Fits(Cardinality(T), 0, limit)
  BY <1>4, <1>5, <1>6, <1>7 DEF Fits
<1> QED
  BY <1>1, <1>8

LEMMA AddedStep ==
    ASSUME Assumption, IsFiniteSet(Users), Types, AdditionsChecked, [Next]_vars
    PROVE  AddsWithinLimits
<1> SUFFICES ASSUME NEW h \in Groups, NEW u \in Users, UserGroup[u] = h, user[u] = None, user'[u] # None
             PROVE  /\ h \notin Managers \/ group[h] = None \/ Fits(Cardinality(InGroup(h))', 0, group[h].limit)
                    /\ category[GroupCategory[h]] = None
                       \/ Fits(Cardinality(InCategory(GroupCategory[h]))', 0, category[GroupCategory[h]].limit)
  BY DEF AddsWithinLimits
<1>1. PICK c \in Clients : InsertsUsers(c) /\ u \in {i.id : i \in client[c].todo[1]}
  BY OnlyInserted
<1>2. client[c].pc = "second" /\ client[c].op \in Additions
  BY <1>1 DEF InsertsUsers
<1>3. PICK us \in SUBSET Users, g \in Groups, m \in Groups :
        /\ client[c].todo = <<{RowItem("user", x) : x \in us}>> /\ us \subseteq UsersOfGroup(g)
        /\ WithinLimits(us, m) /\ GroupCategory[m] = GroupCategory[g] /\ (g \in Managers => m = g)
  BY <1>2 DEF AdditionsChecked, Checked
<1>4. {i.id : i \in client[c].todo[1]} = us
  <2>1. client[c].todo[1] = {RowItem("user", x) : x \in us}
    BY <1>3
  <2>2. \A x : RowItem("user", x).id = x
    BY DEF RowItem
  <2> QED
    BY <2>1, <2>2
<1>5. g = h
  BY <1>1, <1>3, <1>4 DEF UsersOfGroup
<1>6. \A x \in Users : user'[x] # None => user[x] # None \/ x \in us
  <2>1. user' = [x \in Users |-> IF x \in us /\ user[x] = None THEN [active |-> TRUE] ELSE user[x]]
    BY <1>1, <1>4 DEF InsertsUsers
  <2> QED
    BY <2>1
<1>7. GroupCategory[h] \in Categories
  BY DEF Assumption
<1>8. UsersOfGroup(h) \in SUBSET Users /\ UsersOfCategory(GroupCategory[h]) \in SUBSET Users
  BY DEF UsersOfGroup, UsersOfCategory
<1>9. ASSUME h \in Managers, group[h] # None PROVE Fits(Cardinality(InGroup(h))', 0, group[h].limit)
  <2>1. PICK limit \in Limits \cup {None} : limit = group[h].limit
    BY <1>9 DEF Types, Limited
  <2>2. Fits(Cardinality(Inside(UsersOfGroup(h))), Cardinality(us), limit)
    BY <1>3, <1>5, <1>9, <2>1 DEF WithinLimits, InGroup
  <2>3. Fits(Cardinality(Inside(UsersOfGroup(h))'), 0, limit)
    BY <1>6, <1>8, <2>2, FitsAfter DEF UsersOfGroup
  <2> QED
    BY <2>1, <2>3 DEF InGroup
<1>10. ASSUME category[GroupCategory[h]] # None
       PROVE  Fits(Cardinality(InCategory(GroupCategory[h]))', 0, category[GroupCategory[h]].limit)
  <2>1. PICK limit \in Limits \cup {None} : limit = category[GroupCategory[h]].limit
    BY <1>7, <1>10 DEF Types, Limited
  <2>2. Fits(Cardinality(Inside(UsersOfCategory(GroupCategory[h]))), Cardinality(us), limit)
    BY <1>3, <1>5, <2>1 DEF WithinLimits, InCategory
  <2>3. Fits(Cardinality(Inside(UsersOfCategory(GroupCategory[h]))'), 0, limit)
    BY <1>6, <1>8, <2>2, FitsAfter DEF UsersOfCategory, UserCategory
  <2> QED
    BY <2>1, <2>3 DEF InCategory
<1> QED
  BY <1>9, <1>10

----------------------------------------------------------------------------
(* No desktop or template is left without its user.                        *)

\* Users, desktops and templates are deleted one by one, and nobody makes new
\* ones meanwhile.
OneByOne ==
    /\ Ops \cap {"group_delete", "category_delete", "api_group_delete", "api_category_delete"} = {}
    /\ {"create", "template"} \subseteq Waits

HaveUsers == \A d \in Domains : domain[d] # None => user[domain[d].user] # None

\* What a request that deletes has still to do.
Under(r) == r.pc \in {"derived", "items", "stopping", "deleting"}
Listed(r, d) ==
    \/ \E k \in 1 .. Len(r.todo) : \E i \in r.todo[k] : i.kind = "domain" /\ i.id = d
    \/ r.pc \in {"stopping", "deleting"} /\ r.now.id = d

ListsAll(c) ==
    client[c].op \in UserDeletions /\ Under(client[c]) =>
        /\ Len(client[c].todo) = IF client[c].pc = "derived" THEN 2 ELSE 3
        /\ \A d \in Domains : domain[d] # None /\ domain[d].user = client[c].id => Listed(client[c], d)
OnlyDomains(c) ==
    Under(client[c]) => \A k \in 1 .. Len(client[c].todo) : \A i \in client[c].todo[k] : i.kind = "domain"
SawGone(c) == client[c].pc = "deleting" /\ saw[c] => domain[client[c].now.id] = None

\* No request of another kind is under way.
FewDeletions(c) == client[c].op \notin {"group_delete", "category_delete"}

ListsHold == \A c \in Clients : ListsAll(c) /\ OnlyDomains(c) /\ SawGone(c) /\ FewDeletions(c)

LEMMA IdleLists ==
    ASSUME Assumption, NEW c \in Clients, client[c] = Idle
    PROVE  ListsAll(c) /\ OnlyDomains(c) /\ SawGone(c) /\ FewDeletions(c)
BY IdleKnows, NoneIsNoOp DEF ListsAll, OnlyDomains, SawGone, FewDeletions, Under, Deletions

LEMMA ListsInit == Assumption /\ Init => HaveUsers /\ ListsHold
<1> SUFFICES ASSUME Assumption, Init PROVE HaveUsers /\ ListsHold
  OBVIOUS
<1>1. HaveUsers
  BY DEF Init, HaveUsers
<1>2. \A c \in Clients : client[c] = Idle
  BY DEF Init
<1> QED
  BY <1>1, <1>2, IdleLists DEF ListsHold

\* Nothing new comes to be, and what is there keeps its user.
NoNew == \A d \in Domains : domain'[d] # None => domain[d] # None /\ domain'[d].user = domain[d].user

\* Only who waits for a row to go sees it gone.
SeesGone == \A x \in Clients : client[x].pc = "deleting" /\ saw'[x] => saw[x] \/ domain'[client[x].now.id] = None

LEMMA ListsKept ==
    ASSUME Types, ListsHold, NoNew, SeesGone, NEW x \in Clients, client'[x] = client[x]
    PROVE  (ListsAll(x) /\ OnlyDomains(x) /\ SawGone(x) /\ FewDeletions(x))'
<1>1. ListsAll(x)'
  BY DEF ListsHold, ListsAll, NoNew, Listed, Under
<1>2. OnlyDomains(x)'
  BY DEF ListsHold, OnlyDomains, Under
<1>3. SawGone(x)'
  <2>1. SUFFICES ASSUME client[x].pc = "deleting", saw'[x] PROVE domain'[client[x].now.id] = None
    BY DEF SawGone
  <2>2. client[x].now.id \in Domains
    BY <2>1 DEF Types, KnowingClient, Knows, Found
  <2> QED
    BY <2>1, <2>2 DEF SeesGone, ListsHold, SawGone, NoNew
<1>4. FewDeletions(x)'
  BY DEF ListsHold, FewDeletions
<1> QED
  BY <1>1, <1>2, <1>3, <1>4

LEMMA OthersNew ==
    ASSUME Assumption, Types, Others, {"create", "template"} \subseteq Waits
    PROVE  /\ UNCHANGED <<rows, client>> /\ (HaveUsers => HaveUsers')
           /\ (NoNew /\ SeesGone) \/ ~DeletionRuns
<1>1. ASSUME NEW d \in Domains, Starts(d) \/ Stops(d) \/ Deletes(d) \/ Engine(d)
      PROVE  UNCHANGED <<rows, client>> /\ (HaveUsers => HaveUsers') /\ NoNew /\ SeesGone
  <2>1. WritesOne(d) /\ UNCHANGED <<rows, client>>
    BY <1>1, OthersWrite
  <2>2. CASE Put(d, None)
    <3>1. domain' = [domain EXCEPT ![d] = None]
      BY <2>2 DEF Put
    <3>2. \A x \in Clients : saw'[x] => saw[x] \/ SeesWhat(x, d, None)
      BY <2>2 DEF Put
    <3>3. NoNew
      BY <3>1 DEF Types, NoNew
    <3>4. SeesGone
      BY <3>1, <3>2 DEF Types, SeesGone, SeesWhat
    <3> QED
      BY <2>1, <3>1, <3>3, <3>4 DEF HaveUsers, NoNew, rows
  <2>3. CASE \E status \in Statuses \ {"Disabled"} : PutStatus(d, status)
    <3>1. PICK status \in Statuses : PutStatus(d, status)
      BY <2>3
    <3>2. PICK new : new = [domain[d] EXCEPT !.status = status]
      OBVIOUS
    <3>3. new \in Domain /\ new.user = domain[d].user /\ new.status = status /\ domain[d] # None
      BY <2>1, <3>2, StatusTypes DEF WritesOne
    <3>4. new # None /\ status # None
      BY <3>3 DEF Assumption
    <3>5. domain' = [domain EXCEPT ![d] = new] /\ \A x \in Clients : saw'[x] => saw[x] \/ SeesWhat(x, d, status)
      BY <3>1, <3>2, <3>3, <3>4 DEF PutStatus, Put
    <3>6. NoNew
      BY <3>3, <3>5 DEF Types, NoNew
    <3>7. SeesGone
      BY <3>4, <3>5 DEF SeesGone, SeesWhat
    <3> QED
      BY <2>1, <3>6, <3>7 DEF HaveUsers, NoNew, rows
  <2> QED
    BY <2>1, <2>2, <2>3 DEF WritesOne
<1>2. ASSUME NEW u \in Users, NEW d \in Domains, NEW t \in Domains, Creates(u, d, t)
      PROVE  UNCHANGED <<rows, client>> /\ (HaveUsers => HaveUsers') /\ ~DeletionRuns
  <2>1. UNCHANGED <<rows, client>> /\ ~DeletionRuns /\ user[u] # None
    BY <1>2 DEF Creates, UserDoes
  <2>2. PICK new : new = [kind |-> "desktop", user |-> u, status |-> "Creating",
               parents |-> IF domain[t] # None THEN domain[t].parents \cup {t} ELSE {}]
    OBVIOUS
  <2>3. domain' = [domain EXCEPT ![d] = new]
    BY <1>2, <2>2 DEF Creates, Put
  <2>4. new.user = u
    BY <2>2
  <2> QED
    BY <2>1, <2>3, <2>4 DEF HaveUsers, Types, rows
<1>3. ASSUME NEW d \in Domains, NEW t \in Domains, MakesTemplate(d, t)
      PROVE  UNCHANGED <<rows, client>> /\ (HaveUsers => HaveUsers') /\ ~DeletionRuns
  <2>1. UNCHANGED <<rows, client>> /\ ~DeletionRuns
    BY <1>3 DEF MakesTemplate, UserDoes
  <2> QED
    BY <1>3, <2>1, TemplateMade DEF HaveUsers, rows
<1> QED
  BY <1>1, <1>2, <1>3 DEF Others

LEMMA NoDeletionLists ==
    ASSUME Types, ListsHold, UNCHANGED client, ~DeletionRuns
    PROVE  ListsHold'
<1> SUFFICES ASSUME NEW c \in Clients PROVE (ListsAll(c) /\ OnlyDomains(c) /\ SawGone(c) /\ FewDeletions(c))'
  BY DEF ListsHold
<1>1. client[c].op \notin Deletions
  BY DEF DeletionRuns
<1>2. client[c].pc \notin {"derived", "items", "stopping", "deleting"}
  BY <1>1 DEF Types, KnowingClient, Knows
<1> QED
  BY <1>2 DEF ListsHold, ListsAll, OnlyDomains, SawGone, FewDeletions, Under

LEMMA OthersLists ==
    ASSUME Assumption, Types, Others, OneByOne, HaveUsers, ListsHold
    PROVE  (HaveUsers /\ ListsHold)'
<1>1. UNCHANGED client /\ HaveUsers' /\ ((NoNew /\ SeesGone) \/ ~DeletionRuns)
  BY OthersNew DEF OneByOne
<1>2. CASE NoNew /\ SeesGone
  BY <1>1, <1>2, ListsKept DEF ListsHold
<1>3. CASE ~DeletionRuns
  BY <1>1, <1>3, NoDeletionLists
<1> QED
  BY <1>1, <1>2, <1>3

\* How a request begins, unless it is one of the API's that end as they begin.
Begun(c, op) ==
    /\ op \in Ops /\ client'[c].pc \in {"own", "second"} /\ client'[c].op = op
    /\ client[c].pc = "idle" /\ UNCHANGED <<user, domain, saw>>
    /\ \A x \in Clients : x # c => client'[x] = client[x]
    /\ Settled /\ client'[c].pc = "own" =>
        \A d \in There(Domains) : domain[d].status \notin {"Creating", "Stopping", "Deleting"}
EndsAtOnce(c) == (\E g \in Groups : ApiGroupDelete(c, g)) \/ \E k \in Categories : ApiCategoryDelete(c, k)

LEMMA RequestBegun ==
    ASSUME Assumption, Types, NEW c \in Clients, Asks(c), ~EndsAtOnce(c)
    PROVE  \E op : Begun(c, op)
<1>1. ASSUME NEW op, NEW id, DeletionBegins(c, op, id) PROVE Begun(c, op)
  BY <1>1 DEF DeletionBegins, Begins, Does, Begun, Idle, Types, rows
<1>2. ASSUME NEW op, NEW us, NEW g, AddsUsers(c, op, us, g) PROVE Begun(c, op)
  <2>1. PICK todo : todo = <<{RowItem("user", u) : u \in us}>>
    OBVIOUS
  <2> QED
    BY <1>2, <2>1 DEF AddsUsers, Begins, Does, Begun, Idle, Types, rows
<1>3. ASSUME NEW op, NEW g, RowBegins(c, op, g) PROVE Begun(c, op)
  BY <1>3 DEF RowBegins, Begins, Does, Begun, Idle, Types
<1>4. ASSUME NEW u, Toggles(c, u) PROVE Begun(c, "toggle")
  <2>1. PICK active : active = ~user[u].active
    OBVIOUS
  <2>2. Begins(c, "toggle", [Idle EXCEPT !.pc = "second", !.id = u, !.active = active]) /\ UNCHANGED <<rows, domain>>
    BY <1>4, <2>1 DEF Toggles
  <2> QED
    BY <2>2 DEF Begins, Does, Begun, Idle, Types, rows
<1>5. ASSUME NEW g, NEW limit, GroupLimit(c, g, limit) PROVE Begun(c, "group_limit")
  <2>1. PICK value : value = IF limit = None THEN None ELSE Clamped(limit, category[GroupCategory[g]].limit)
    OBVIOUS
  <2>2. Begins(c, "group_limit", [Idle EXCEPT !.pc = "second", !.id = g, !.value = value]) /\ UNCHANGED <<rows, domain>>
    BY <1>5, <2>1 DEF GroupLimit
  <2> QED
    BY <2>2 DEF Begins, Does, Begun, Idle, Types, rows
<1>6. ASSUME NEW op, NEW k, NEW limit, CategoryLimit(c, op, k, limit) PROVE Begun(c, op)
  BY <1>6 DEF CategoryLimit, Begins, Does, Begun, Idle, Types
<1>7. ~(\E g \in Groups : ApiGroupDelete(c, g)) /\ ~(\E k \in Categories : ApiCategoryDelete(c, k))
  BY DEF EndsAtOnce
<1>8. CASE \E u \in Users : UserDelete(c, u) \/ ApiUserDelete(c, u) \/ Toggles(c, u)
  BY <1>1, <1>4, <1>8 DEF UserDelete, ApiUserDelete
<1>9. CASE \E u \in Users : (\E m \in Managers : UserAdd(c, u, m)) \/ ApiUserInsert(c, u) \/ Register(c, u) \/ AutoRegister(c, u)
  BY <1>2, <1>9 DEF UserAdd, ApiUserInsert, Register, AutoRegister
<1>10. CASE \E g \in Groups : GroupDelete(c, g) \/ GroupAdd(c, g) \/ GroupCreate(c, g) \/ CategoryAdd(c, g) \/ CategoryCreate(c, g)
  BY <1>1, <1>3, <1>10 DEF GroupDelete, GroupAdd, GroupCreate, CategoryAdd, CategoryCreate
<1>11. CASE \E g \in Groups : \E us \in SUBSET Users, m \in Managers : BulkUsersAdd(c, us, g, m)
  BY <1>2, <1>11 DEF BulkUsersAdd
<1>12. CASE \E g \in Groups : \E limit \in Limits \cup {None} : GroupLimit(c, g, limit)
  BY <1>5, <1>12
<1>13. CASE \E k \in Categories : CategoryDelete(c, k)
  BY <1>1, <1>13 DEF CategoryDelete
<1>14. CASE \E k \in Categories : \E op \in {"category_limit", "category_limit_propagate"}, limit \in Limits \cup {None} :
                    CategoryLimit(c, op, k, limit)
  BY <1>6, <1>14
<1>15. CASE \E t \in Domains : TemplateDelete(c, t)
  BY <1>1, <1>15 DEF TemplateDelete
<1> QED
  BY <1>7, <1>8, <1>9, <1>10, <1>11, <1>12, <1>13, <1>14, <1>15 DEF Asks

LEMMA OneByOneTakesTime == ASSUME OneByOne, NEW c PROVE ~EndsAtOnce(c)
BY DEF OneByOne, EndsAtOnce, ApiGroupDelete, ApiCategoryDelete, Does

LEMMA RequestsLists ==
    ASSUME Assumption, Types, OneByOne, NEW c \in Clients, Asks(c), HaveUsers, ListsHold
    PROVE  (HaveUsers /\ ListsHold)'
<1>1. PICK op : Begun(c, op)
  BY RequestBegun, OneByOneTakesTime
<1>2. HaveUsers' /\ NoNew /\ SeesGone
  BY <1>1 DEF Begun, HaveUsers, NoNew, SeesGone
<1>3. (ListsAll(c) /\ OnlyDomains(c) /\ SawGone(c) /\ FewDeletions(c))'
  BY <1>1 DEF Begun, OneByOne, ListsAll, OnlyDomains, SawGone, FewDeletions, Under
<1>4. \A x \in Clients : x # c => client'[x] = client[x]
  BY <1>1 DEF Begun
<1> QED
  BY <1>2, <1>3, <1>4, ListsKept DEF ListsHold

----------------------------------------------------------------------------
\* A desktop or template of a user is in the lists its deletion begins with.
LEMMA AllOwned ==
    ASSUME Types, NEW u \in Users, NEW d \in Domains, domain[d] # None, domain[d].user = u
    PROVE  \E k \in 1 .. 2 : DomainItem(d) \in UserDeleteChecks(u)[k]
<1>1. domain[d].kind \in {"desktop", "template"}
  BY DEF Types, Domain
<1>2. DomainItem(d) \in Owned({u}, domain[d].kind)
  BY DEF Owned, There
<1> QED
  BY <1>1, <1>2 DEF UserDeleteChecks

LEMMA ChecksDomains ==
    ASSUME Types, NEW op \in UserDeletions \cup {"template_delete"}, NEW id,
           op \in UserDeletions => id \in Users, op = "template_delete" => id \in Domains /\ domain[id] # None,
           NEW todo, todo = IF op = "template_delete" THEN TemplateDeleteList(id) ELSE UserDeleteChecks(id)
    PROVE  \A k \in 1 .. Len(todo) : \A i \in todo[k] : i.kind = "domain"
<1>1. CASE op = "template_delete"
  BY <1>1, DomainItemFound DEF TemplateDeleteList
<1>2. CASE op \in UserDeletions
  <2>1. todo = <<Owned({id}, "desktop"), Owned({id}, "template")>>
    BY <1>2 DEF UserDeletions, UserDeleteChecks
  <2> QED
    BY <2>1, OwnedFound
<1> QED
  BY <1>1, <1>2

LEMMA ReadsOwnLists ==
    ASSUME Assumption, Types, OneByOne, NEW c \in Clients, ReadsOwn(c), HaveUsers, ListsHold
    PROVE  (HaveUsers /\ ListsHold)'
<1>1. UNCHANGED <<user, domain, saw>>
  BY ReadsOwnTypes DEF rows
<1>2. HaveUsers' /\ NoNew /\ SeesGone
  BY <1>1 DEF HaveUsers, NoNew, SeesGone
<1>3. \A x \in Clients : x # c => client'[x] = client[x]
  BY DEF ReadsOwn, Answers, Goes, Types
<1>4. CASE client'[c] = Idle
  <2>1. (ListsAll(c) /\ OnlyDomains(c) /\ SawGone(c) /\ FewDeletions(c))'
    BY <1>4, IdleKnows, NoneIsNoOp DEF ListsAll, OnlyDomains, SawGone, FewDeletions, Under, Deletions
  <2> QED
    BY <1>2, <1>3, <2>1, ListsKept DEF ListsHold
<1>5. CASE client'[c] # Idle
  <2>1. /\ client[c].op \in UserDeletions \cup {"template_delete"}
        /\ client'[c].pc = "derived" /\ client'[c].op = client[c].op /\ client'[c].id = client[c].id
        /\ client[c].op \in UserDeletions => client'[c].todo = UserDeleteChecks(client[c].id)
        /\ client[c].op = "template_delete" => client'[c].todo = TemplateDeleteList(client[c].id)
    BY <1>5, ReadsOwnTypes DEF ListsHold, FewDeletions, Deletions, UserDeletions
  <2>2. /\ client[c].op \in UserDeletions => client[c].id \in Users
        /\ client[c].op = "template_delete" => client[c].id \in Domains
    BY DEF Types, KnowingClient, Knows
  <2>3. ListsAll(c)'
    <3>1. CASE client[c].op \in UserDeletions
      <4>1. Len(client'[c].todo) = 2
        BY <2>1, <2>2, <3>1, ChecksFound
      <4>2. \A d \in Domains : domain[d] # None /\ domain[d].user = client[c].id =>
                \E k \in 1 .. 2 : DomainItem(d) \in client'[c].todo[k]
        BY <2>1, <2>2, <3>1, AllOwned
      <4>3. \A d \in Domains : DomainItem(d).kind = "domain" /\ DomainItem(d).id = d
        BY DEF DomainItem
      <4>4. \A d \in Domains : domain[d] # None /\ domain[d].user = client[c].id => Listed(client'[c], d)
        BY <4>1, <4>2, <4>3 DEF Listed
      <4>5. \A d \in Domains : domain'[d] # None /\ domain'[d].user = client'[c].id => Listed(client[c], d)'
        BY <1>1, <2>1, <4>4 DEF Listed
      <4> QED
        BY <2>1, <4>1, <4>5 DEF ListsAll
    <3>2. CASE client[c].op \notin UserDeletions
      BY <2>1, <3>2 DEF ListsAll
    <3> QED
      BY <3>1, <3>2
  <2>4. client[c].op = "template_delete" => domain[client[c].id] # None
    <3>1. SUFFICES ASSUME client[c].op = "template_delete", domain[client[c].id] = None PROVE FALSE
      OBVIOUS
    <3>2. Answers(c, FALSE)
      BY <3>1 DEF ReadsOwn
    <3> QED
      BY <1>5, <3>2 DEF Answers, Types
  <2>5. OnlyDomains(c)'
    <3>1. client'[c].todo = IF client[c].op = "template_delete" THEN TemplateDeleteList(client[c].id)
                            ELSE UserDeleteChecks(client[c].id)
      BY <2>1 DEF UserDeletions
    <3>2. PICK todo, op, id : todo = client'[c].todo /\ op = client[c].op /\ id = client[c].id
      OBVIOUS
    <3>3. op \in UserDeletions \cup {"template_delete"}
      BY <2>1, <3>2
    <3>4. /\ op \in UserDeletions => id \in Users
          /\ op = "template_delete" => id \in Domains /\ domain[id] # None
      BY <2>2, <2>4, <3>2
    <3>5. todo = IF op = "template_delete" THEN TemplateDeleteList(id) ELSE UserDeleteChecks(id)
      BY <3>1, <3>2
    <3>6. \A k \in 1 .. Len(todo) : \A i \in todo[k] : i.kind = "domain"
      BY <3>3, <3>4, <3>5, ChecksDomains
    <3> QED
      BY <3>2, <3>6 DEF OnlyDomains
  <2>6. SawGone(c)' /\ FewDeletions(c)'
    BY <2>1 DEF SawGone, FewDeletions, UserDeletions
  <2> QED
    BY <1>2, <1>3, <2>3, <2>5, <2>6, ListsKept DEF ListsHold
<1> QED
  BY <1>4, <1>5

LEMMA LastOnlyKeeps ==
    ASSUME NEW todo, Len(todo) \in 1 .. 6
    PROVE  /\ \A k \in 1 .. Len(todo) : LastOnly(todo)[k] \subseteq todo[k]
           /\ \A k \in 1 .. Len(todo) : \A i \in todo[k] : \E j \in 1 .. Len(todo) : i \in LastOnly(todo)[j]
<1>1. \A k \in 1 .. Len(todo) : LastOnly(todo)[k] = todo[k] \ UNION {todo[j] : j \in k + 1 .. Len(todo)}
  BY DEF LastOnly
<1>2. ASSUME NEW k \in 1 .. Len(todo), NEW i \in todo[k] PROVE \E j \in 1 .. Len(todo) : i \in LastOnly(todo)[j]
  <2> DEFINE P(j) == j <= Len(todo) /\ i \in todo[j]
  <2>1. P(k) /\ k \in 1 .. 6
    OBVIOUS
  <2>2. \E j \in 1 .. 6 : P(j) /\ \A x \in j + 1 .. 6 : ~P(x)
    <3>1. P(1) \/ P(2) \/ P(3) \/ P(4) \/ P(5) \/ P(6)
      BY <2>1
    <3> HIDE DEF P
    <3> QED
      BY <3>1
  <2>3. PICK j \in 1 .. Len(todo) : i \in todo[j] /\ \A x \in j + 1 .. Len(todo) : i \notin todo[x]
    BY <2>2
  <2> QED
    BY <1>1, <2>3
<1> QED
  BY <1>1, <1>2

LEMMA ReadsDerivedLists ==
    ASSUME Assumption, Types, NEW c \in Clients, ReadsDerived(c), HaveUsers, ListsHold
    PROVE  (HaveUsers /\ ListsHold)'
<1>1. PICK q \in KnowingClient :
        /\ client' = [client EXCEPT ![c] = q]
        /\ q.pc = "items" /\ q.op = client[c].op /\ q.id = client[c].id
        /\ q.todo = LastOnly(Append(client[c].todo, DerivedItems(client[c].todo)))
  BY ReadsDerivedGoes
<1>2. UNCHANGED <<user, domain, saw>> /\ client'[c] = q /\ (\A x \in Clients : x # c => client'[x] = client[x])
  BY <1>1, ReadsDerivedGoes DEF rows, Types
<1>3. HaveUsers' /\ NoNew /\ SeesGone
  BY <1>2 DEF HaveUsers, NoNew, SeesGone
<1>4. PICK todo : todo = client[c].todo
  OBVIOUS
<1>5. todo \in Seq(SUBSET Found) /\ client[c].pc = "derived" /\ Under(client[c]) /\ Len(todo) \in 1 .. 5
  BY <1>4 DEF Types, KnowingClient, Knows, Client, ReadsDerived, Under
<1>6. PICK items \in SUBSET Found : items = DerivedItems(todo)
  BY DerivedFound DEF DerivedItems
<1>7. PICK more : more = Append(todo, items)
  OBVIOUS
<1>8. more \in Seq(SUBSET Found) /\ Len(more) = Len(todo) + 1 /\ Len(more) \in 1 .. 6
      /\ (\A k \in 1 .. Len(todo) : more[k] = todo[k]) /\ more[Len(more)] = items
  <2>1. more \in Seq(SUBSET Found) /\ Len(more) = Len(todo) + 1
        /\ (\A k \in 1 .. Len(todo) : more[k] = todo[k]) /\ more[Len(more)] = items
    BY <1>5, <1>7
  <2> QED
    BY <1>5, <2>1
<1>9. q.todo = LastOnly(more) /\ Len(q.todo) = Len(more)
  BY <1>1, <1>4, <1>6, <1>7, <1>8, LastOnlyFound
<1>10. OnlyDomains(c)'
  <2>1. \A i \in items : i.kind = "domain"
    BY <1>6 DEF DerivedItems, DomainItem
  <2>2. \A k \in 1 .. Len(more) : \A i \in more[k] : i.kind = "domain"
    <3>1. \A k \in 1 .. Len(todo) : \A i \in todo[k] : i.kind = "domain"
      BY <1>4, <1>5 DEF ListsHold, OnlyDomains
    <3>2. ASSUME NEW k \in 1 .. Len(more), k # Len(more) PROVE k \in 1 .. Len(todo)
      BY <1>5, <1>8, <3>2
    <3> QED
      BY <1>8, <2>1, <3>1, <3>2
  <2>3. \A k \in 1 .. Len(more) : LastOnly(more)[k] \subseteq more[k]
    BY <1>8, LastOnlyKeeps
  <2>4. \A k \in 1 .. Len(q.todo) : \A i \in q.todo[k] : i.kind = "domain"
    BY <1>9, <2>2, <2>3
  <2> QED
    BY <1>2, <2>4 DEF OnlyDomains
<1>11. ListsAll(c)'
  <2>1. SUFFICES ASSUME client[c].op \in UserDeletions
                 PROVE  /\ Len(q.todo) = 3
                        /\ \A d \in Domains : domain[d] # None /\ domain[d].user = client[c].id => Listed(q, d)
    <3>1. ListsAll(c)' <=> (q.op \in UserDeletions /\ Under(q) =>
            /\ Len(q.todo) = 3
            /\ \A d \in Domains : domain[d] # None /\ domain[d].user = q.id => Listed(q, d))
      BY <1>1, <1>2 DEF ListsAll, Under, Listed
    <3> QED
      BY <1>1, <3>1
  <2>2. Len(todo) = 2 /\ \A d \in Domains : domain[d] # None /\ domain[d].user = client[c].id => Listed(client[c], d)
    BY <1>4, <1>5, <2>1 DEF ListsHold, ListsAll
  <2>3. Len(more) = 3 /\ Len(q.todo) = 3
    BY <1>8, <1>9, <2>2
  <2>4. ASSUME NEW d \in Domains, Listed(client[c], d) PROVE Listed(q, d)
    <3>1. PICK k \in 1 .. 2 : \E i \in todo[k] : i.kind = "domain" /\ i.id = d
      BY <1>4, <1>5, <2>2, <2>4 DEF Listed
    <3>2. PICK i \in more[k] : i.kind = "domain" /\ i.id = d
      BY <1>8, <2>2, <3>1
    <3>3. \E j \in 1 .. 3 : i \in LastOnly(more)[j]
      <4>1. k \in 1 .. Len(more) /\ Len(more) \in 1 .. 6
        BY <2>3
      <4> QED
        BY <2>3, <3>2, <4>1, LastOnlyKeeps
    <3> QED
      BY <1>9, <2>3, <3>2, <3>3 DEF Listed
  <2> QED
    BY <2>2, <2>3, <2>4
<1>12. SawGone(c)' /\ FewDeletions(c)'
  BY <1>1, <1>2 DEF SawGone, FewDeletions, ListsHold
<1> QED
  BY <1>2, <1>3, <1>10, <1>11, <1>12, ListsKept DEF ListsHold

LEMMA DeletesRowNever ==
    ASSUME Assumption, Types, NEW c \in Clients, DeletesRow(c), ListsHold
    PROVE  FALSE
<1>1. PICK i \in Found : i.kind # "domain" /\ \E less : TakesItem(client[c].todo, less, i)
  BY DeletesRowGoes
<1>2. Under(client[c])
  BY DEF DeletesRow, Under
<1> QED
  BY <1>1, <1>2 DEF ListsHold, OnlyDomains, TakesItem

\* A status is written for a request that waits for what becomes of it.
LEMMA WrittenLists ==
    ASSUME Assumption, Types, NEW c \in Clients, HaveUsers, UNCHANGED rows,
           NEW d \in Domains, NEW status \in {"Stopping", "Deleting"},
           domain' = (IF domain[d] = None THEN domain ELSE [domain EXCEPT ![d].status = status]),
           saw' = [saw EXCEPT ![c] = FALSE]
    PROVE  HaveUsers' /\ NoNew /\ SeesGone
<1>1. status \in Statuses
  BY DEF Statuses
<1>2. \A e \in Domains : /\ domain'[e] = None <=> domain[e] = None
                         /\ domain[e] # None => domain'[e].user = domain[e].user
  BY <1>1, WrittenStatus
<1>3. NoNew
  BY <1>2 DEF NoNew
<1>4. HaveUsers'
  BY <1>3 DEF HaveUsers, NoNew, rows
<1>5. SeesGone
  BY DEF SeesGone, Types
<1> QED
  BY <1>3, <1>4, <1>5

LEMMA DeletesDomainLists ==
    ASSUME Assumption, Types, NEW c \in Clients, DeletesDomain(c), HaveUsers, ListsHold
    PROVE  (HaveUsers /\ ListsHold)'
<1>1. PICK q \in KnowingClient, i \in Found :
        /\ client' = [client EXCEPT ![c] = q] /\ saw' = [saw EXCEPT ![c] = FALSE]
        /\ i.kind = "domain" /\ TakesItem(client[c].todo, q.todo, i)
        /\ q.pc \in {"stopping", "deleting"} /\ q.op = client[c].op /\ q.id = client[c].id /\ q.now = i
        /\ \E status \in {"Stopping", "Deleting"} :
             /\ domain' = (IF domain[i.id] = None THEN domain ELSE [domain EXCEPT ![i.id].status = status])
             /\ q.pc = IF status = "Stopping" THEN "stopping" ELSE "deleting"
  BY DeletesDomainGoes
<1>2. client'[c] = q /\ (\A x \in Clients : x # c => client'[x] = client[x])
  BY <1>1 DEF Types
<1>3. i.id \in Domains /\ UNCHANGED rows
  BY <1>1, DeletesDomainGoes DEF Found
<1>4. HaveUsers' /\ NoNew /\ SeesGone
  BY <1>1, <1>3, WrittenLists
<1>5. PICK todo : todo = client[c].todo
  OBVIOUS
<1>6. todo \in Seq(SUBSET Found) /\ client[c].pc = "items" /\ Under(client[c])
  BY <1>5 DEF Types, KnowingClient, Client, DeletesDomain, Under
<1>7. /\ Len(q.todo) = Len(todo)
      /\ \A j \in 1 .. Len(todo) : \A x \in todo[j] : x # i => x \in q.todo[j]
      /\ \A j \in 1 .. Len(todo) : q.todo[j] \subseteq todo[j]
  <2>1. PICK less : less = q.todo
    OBVIOUS
  <2>2. TakesItem(todo, less, i)
    BY <1>1, <1>5, <2>1
  <2>3. todo \in Seq(SUBSET Found)
    BY <1>6
  <2>4. /\ Len(less) = Len(todo)
        /\ \A j \in 1 .. Len(todo) : \A x \in todo[j] : x # i => x \in less[j]
        /\ \A j \in 1 .. Len(todo) : less[j] \subseteq todo[j]
    BY <2>2, <2>3, TakenFound, Zenon
  <2> QED
    BY <2>1, <2>4
<1>8. OnlyDomains(c)'
  <2>1. \A k \in 1 .. Len(todo) : \A x \in todo[k] : x.kind = "domain"
    BY <1>5, <1>6 DEF ListsHold, OnlyDomains
  <2>2. \A k \in 1 .. Len(q.todo) : \A x \in q.todo[k] : x.kind = "domain"
    BY <1>7, <2>1
  <2> QED
    BY <1>2, <2>2 DEF OnlyDomains
<1>9. ListsAll(c)'
  <2>1. ASSUME client[c].op \in UserDeletions
        PROVE  /\ Len(q.todo) = 3
               /\ \A d \in Domains : domain[d] # None /\ domain[d].user = client[c].id => Listed(q, d)
    <3>1. Len(todo) = 3 /\ \A d \in Domains : domain[d] # None /\ domain[d].user = client[c].id => Listed(client[c], d)
      BY <1>5, <1>6, <2>1 DEF ListsHold, ListsAll
    <3>2. ASSUME NEW d \in Domains, Listed(client[c], d) PROVE Listed(q, d)
      <4>1. PICK k \in 1 .. Len(todo) : \E x \in todo[k] : x.kind = "domain" /\ x.id = d
        BY <1>5, <1>6, <3>2 DEF Listed
      <4>2. PICK x \in todo[k] : x.kind = "domain" /\ x.id = d
        BY <4>1
      <4> QED
        BY <1>1, <1>7, <4>1, <4>2 DEF Listed
    <3> QED
      BY <1>7, <3>1, <3>2
  <2>2. ASSUME client[c].op \in UserDeletions, NEW d \in Domains, domain'[d] # None, domain'[d].user = client[c].id
        PROVE  Listed(q, d)
    BY <1>4, <2>1, <2>2 DEF NoNew
  <2>3. client'[c].op = client[c].op /\ client'[c].id = client[c].id /\ client'[c].pc # "derived"
        /\ client'[c].todo = q.todo /\ client'[c].pc = q.pc /\ client'[c].now = q.now
    BY <1>1, <1>2
  <2>4. \A d : Listed(q, d) => Listed(client[c], d)'
    BY <2>3 DEF Listed
  <2> QED
    BY <2>1, <2>2, <2>3, <2>4 DEF ListsAll
<1>10. SawGone(c)' /\ FewDeletions(c)'
  BY <1>1, <1>2 DEF SawGone, FewDeletions, ListsHold, Types
<1> QED
  BY <1>2, <1>4, <1>8, <1>9, <1>10, ListsKept DEF ListsHold

LEMMA SawStoppedLists ==
    ASSUME Assumption, Types, NEW c \in Clients, SawStopped(c), HaveUsers, ListsHold
    PROVE  (HaveUsers /\ ListsHold)'
<1>1. PICK q \in KnowingClient :
        /\ client' = [client EXCEPT ![c] = q] /\ saw' = [saw EXCEPT ![c] = FALSE]
        /\ q.pc = "deleting" /\ q.op = client[c].op /\ q.id = client[c].id
        /\ q.now = client[c].now /\ q.todo = client[c].todo
        /\ domain' = (IF domain[q.now.id] = None THEN domain ELSE [domain EXCEPT ![q.now.id].status = "Deleting"])
  BY SawStoppedGoes
<1>2. client'[c] = q /\ (\A x \in Clients : x # c => client'[x] = client[x])
  BY <1>1 DEF Types
<1>3. q.now.id \in Domains /\ UNCHANGED rows /\ client[c].pc = "stopping"
  BY <1>1, SawStoppedGoes DEF Found
<1>4. HaveUsers' /\ NoNew /\ SeesGone
  BY <1>1, <1>3, WrittenLists
<1>5. OnlyDomains(c)'
  BY <1>1, <1>2, <1>3 DEF ListsHold, OnlyDomains, Under
<1>6. ListsAll(c)'
  <2>1. /\ client'[c].pc = "deleting" /\ client'[c].op = client[c].op /\ client'[c].id = client[c].id
        /\ client'[c].todo = client[c].todo /\ client'[c].now = client[c].now /\ client[c].pc = "stopping"
    BY <1>1, <1>2, <1>3
  <2>2. \A d : Listed(client[c], d) => Listed(client[c], d)'
    BY <2>1 DEF Listed
  <2> QED
    BY <1>4, <2>1, <2>2 DEF ListsHold, ListsAll, NoNew, Under
<1>7. SawGone(c)' /\ FewDeletions(c)'
  BY <1>1, <1>2 DEF SawGone, FewDeletions, ListsHold, Types
<1> QED
  BY <1>2, <1>4, <1>5, <1>6, <1>7, ListsKept DEF ListsHold

LEMMA SawDeletedLists ==
    ASSUME Assumption, Types, NEW c \in Clients, SawDeleted(c), HaveUsers, ListsHold
    PROVE  (HaveUsers /\ ListsHold)'
<1>1. PICK q \in KnowingClient :
        /\ client' = [client EXCEPT ![c] = q]
        /\ q.pc = "items" /\ q.op = client[c].op /\ q.id = client[c].id /\ q.todo = client[c].todo
  BY SawDeletedGoes
<1>2. client'[c] = q /\ (\A x \in Clients : x # c => client'[x] = client[x])
  BY <1>1 DEF Types
<1>3. UNCHANGED <<user, domain, saw>> /\ client[c].pc = "deleting" /\ saw[c]
  BY SawDeletedGoes DEF rows
<1>4. HaveUsers' /\ NoNew /\ SeesGone
  BY <1>3 DEF HaveUsers, NoNew, SeesGone
<1>5. OnlyDomains(c)'
  BY <1>1, <1>2, <1>3 DEF ListsHold, OnlyDomains, Under
<1>6. ListsAll(c)'
  <2>1. /\ client'[c].pc = "items" /\ client'[c].op = client[c].op /\ client'[c].id = client[c].id
        /\ client'[c].todo = client[c].todo /\ client[c].pc = "deleting"
    BY <1>1, <1>2, <1>3
  <2>2. domain[client[c].now.id] = None
    BY <1>3 DEF ListsHold, SawGone
  <2>3. \A d \in Domains : domain[d] # None /\ Listed(client[c], d) => Listed(client[c], d)'
    BY <2>1, <2>2 DEF Listed
  <2> QED
    BY <1>3, <2>1, <2>3 DEF ListsHold, ListsAll, Under
<1>7. SawGone(c)' /\ FewDeletions(c)'
  BY <1>1, <1>2 DEF SawGone, FewDeletions, ListsHold
<1> QED
  BY <1>2, <1>4, <1>5, <1>6, <1>7, ListsKept DEF ListsHold

LEMMA EndsLists ==
    ASSUME Assumption, Types, NEW c \in Clients, HaveUsers, ListsHold,
           TimesOut(c) \/ Finishes(c) \/ InsertsRow(c) \/ UpdatesGroups(c) \/ TogglesUser(c) \/ InsertsUsers(c)
    PROVE  (HaveUsers /\ ListsHold)'
<1>1. client' = [client EXCEPT ![c] = Idle] /\ UNCHANGED <<domain, saw>>
  BY Ends DEF InsertsUsers
<1>2. client'[c] = Idle /\ (\A x \in Clients : x # c => client'[x] = client[x])
  BY <1>1 DEF Types
<1>3. NoNew /\ SeesGone
  BY <1>1 DEF NoNew, SeesGone
<1>4. (ListsAll(c) /\ OnlyDomains(c) /\ SawGone(c) /\ FewDeletions(c))'
  BY <1>2, IdleKnows, NoneIsNoOp DEF ListsAll, OnlyDomains, SawGone, FewDeletions, Under, Deletions
<1>5. HaveUsers'
  <2>1. CASE TimesOut(c) \/ InsertsRow(c) \/ UpdatesGroups(c)
    BY <1>1, <2>1 DEF TimesOut, InsertsRow, UpdatesGroups, HaveUsers, rows
  <2>2. CASE TogglesUser(c)
    <3>1. [active |-> client[c].active] # None
      BY DEF Types, KnowingClient, Client, Assumption
    <3>2. \E x : user' = [user EXCEPT ![x] = IF user[x] = None THEN None ELSE [active |-> client[c].active]]
      BY <2>2 DEF TogglesUser
    <3>3. \A u \in Users : user[u] # None => user'[u] # None
      BY <3>1, <3>2 DEF Types
    <3>4. \A d \in Domains : domain[d] # None => domain[d].user \in Users
      BY DEF Types, Domain
    <3> QED
      BY <1>1, <3>3, <3>4 DEF HaveUsers
  <2>3. CASE InsertsUsers(c)
    <3>1. \A u \in Users : user[u] # None => user'[u] # None
      BY <2>3 DEF InsertsUsers
    <3>2. \A d \in Domains : domain[d] # None => domain[d].user \in Users
      BY DEF Types, Domain
    <3> QED
      BY <1>1, <3>1, <3>2 DEF HaveUsers
  <2>4. CASE Finishes(c)
    <3>1. CASE client[c].op \in UserDeletions
      <4>1. user' = [user EXCEPT ![client[c].id] = None] /\ client[c].pc = "items" /\ ~Left(client[c])
        BY <2>4, <3>1 DEF Finishes, UserDeletions
      <4>2. \A d \in Domains : ~Listed(client[c], d)
        BY <4>1 DEF Listed, Left
      <4>3. \A d \in Domains : domain[d] # None => domain[d].user # client[c].id
        BY <3>1, <4>1, <4>2 DEF ListsHold, ListsAll, Under
      <4> QED
        BY <1>1, <4>1, <4>3 DEF HaveUsers, Types
    <3>2. CASE client[c].op \notin UserDeletions
      BY <1>1, <2>4, <3>2 DEF Finishes, UserDeletions, HaveUsers
    <3> QED
      BY <3>1, <3>2
  <2> QED
    BY <2>1, <2>2, <2>3, <2>4
<1> QED
  BY <1>2, <1>3, <1>4, <1>5, ListsKept DEF ListsHold

LEMMA TogglesLists ==
    ASSUME Assumption, Types, NEW c \in Clients, TogglesDesktops(c), HaveUsers, ListsHold
    PROVE  (HaveUsers /\ ListsHold)'
<1>1. PICK q \in KnowingClient : client' = [client EXCEPT ![c] = q] /\ q.pc = "third" /\ q.op = "toggle"
  BY TogglesDesktopsGoes
<1>2. client'[c] = q /\ (\A x \in Clients : x # c => client'[x] = client[x])
  BY <1>1 DEF Types
<1>3. NoNew /\ UNCHANGED rows
  BY TogglesDesktopsGoes DEF NoNew
<1>4. SeesGone
  <2>1. None # "Stopped"
    BY DEF Assumption, Statuses
  <2>2. \A x \in Clients : saw'[x] => saw[x] \/ \E d : SeesWhat(x, d, "Stopped")
    BY DEF TogglesDesktops
  <2> QED
    BY <2>1, <2>2 DEF SeesGone, SeesWhat
<1>5. HaveUsers'
  BY <1>3 DEF HaveUsers, NoNew, rows
<1>6. (ListsAll(c) /\ OnlyDomains(c) /\ SawGone(c) /\ FewDeletions(c))'
  BY <1>1, <1>2 DEF ListsAll, OnlyDomains, SawGone, FewDeletions, Under
<1> QED
  BY <1>2, <1>3, <1>4, <1>5, <1>6, ListsKept DEF ListsHold

LEMMA ListsStep ==
    ASSUME Assumption, OneByOne, Types, HaveUsers, ListsHold, [Next]_vars
    PROVE  (HaveUsers /\ ListsHold)'
<1>1. CASE UNCHANGED vars
  BY <1>1 DEF vars, HaveUsers, ListsHold, ListsAll, OnlyDomains, SawGone, FewDeletions, Listed, Under
<1>2. CASE Others
  BY <1>2, OthersLists
<1>3. ASSUME NEW c \in Clients, Asks(c) \/ GoesOn(c) PROVE (HaveUsers /\ ListsHold)'
  BY <1>3, RequestsLists, ReadsOwnLists, ReadsDerivedLists, DeletesRowNever, DeletesDomainLists, SawStoppedLists,
     SawDeletedLists, EndsLists, TogglesLists DEF GoesOn
<1> QED
  BY <1>1, <1>2, <1>3 DEF Next, Others

----------------------------------------------------------------------------
(* A user who is enabled has no desktop that is disabled.                  *)

\* What is disabled is a desktop of a user who is, or is about to be.
Disabling(u) == \E c \in Clients : client[c].pc = "third" /\ client[c].id = u /\ ~client[c].active

DisabledOfDisabled ==
    \A d \in Domains : domain[d] # None /\ domain[d].status = "Disabled" =>
        /\ domain[d].kind = "desktop"
        /\ user[domain[d].user] # None
        /\ ~user[domain[d].user].active \/ Disabling(domain[d].user)

\* Who is about to be enabled has none.
EnablingHasNone ==
    \A c \in Clients : client[c].pc = "third" /\ client[c].active =>
        \A d \in Domains : domain[d] # None /\ domain[d].user = client[c].id => domain[d].status # "Disabled"

TogglesAgree == DisabledOfDisabled /\ EnablingHasNone

LEMMA TogglesInit == Assumption /\ Init => TogglesAgree
<1> SUFFICES ASSUME Assumption, Init PROVE TogglesAgree
  OBVIOUS
<1> QED
  BY IdleKnows DEF Init, TogglesAgree, DisabledOfDisabled, EnablingHasNone

\* Nothing becomes disabled, and what is keeps its user and kind.
NoneDisabled ==
    \A d \in Domains : domain'[d] # None /\ domain'[d].status = "Disabled" =>
        /\ domain[d] # None /\ domain[d].status = "Disabled"
        /\ domain'[d].user = domain[d].user /\ domain'[d].kind = domain[d].kind

LEMMA NoneDisabledAgrees ==
    ASSUME Types, TogglesAgree, NoneDisabled, HaveUsers',
           \A u \in Users : user[u] # None /\ user'[u] # None /\ ~user[u].active => ~user'[u].active,
           \A c \in Clients : client[c].pc = "third" => client'[c] = client[c],
           \A c \in Clients : client'[c].pc = "third" => client'[c] = client[c]
    PROVE  TogglesAgree'
<1>1. DisabledOfDisabled'
  <2>1. SUFFICES ASSUME NEW d \in Domains, domain'[d] # None, domain'[d].status = "Disabled"
                 PROVE  /\ domain'[d].kind = "desktop" /\ user'[domain'[d].user] # None
                        /\ ~user'[domain'[d].user].active \/ Disabling(domain[d].user)'
    BY DEF DisabledOfDisabled, Disabling
  <2>2. /\ domain[d] # None /\ domain[d].status = "Disabled"
        /\ domain'[d].user = domain[d].user /\ domain'[d].kind = domain[d].kind
    BY <2>1 DEF NoneDisabled
  <2>3. domain[d].kind = "desktop" /\ user[domain[d].user] # None /\ user'[domain[d].user] # None
    BY <2>1, <2>2 DEF TogglesAgree, DisabledOfDisabled, HaveUsers
  <2>4. domain[d].user \in Users
    BY <2>2 DEF Types, Domain
  <2>5. CASE ~user[domain[d].user].active
    BY <2>2, <2>3, <2>4, <2>5
  <2>6. CASE Disabling(domain[d].user)
    BY <2>2, <2>3, <2>6 DEF Disabling
  <2> QED
    BY <2>2, <2>5, <2>6 DEF TogglesAgree, DisabledOfDisabled
<1>2. EnablingHasNone'
  BY DEF TogglesAgree, EnablingHasNone, NoneDisabled
<1> QED
  BY <1>1, <1>2 DEF TogglesAgree

LEMMA OthersDisable ==
    ASSUME Assumption, Types, Others
    PROVE  NoneDisabled /\ UNCHANGED <<rows, client>>
<1>1. ASSUME NEW d \in Domains, Starts(d) \/ Stops(d) \/ Deletes(d) \/ Engine(d)
      PROVE  NoneDisabled /\ UNCHANGED <<rows, client>>
  <2>1. WritesOne(d) /\ UNCHANGED <<rows, client>>
    BY <1>1, OthersWrite
  <2>2. CASE Put(d, None)
    <3>1. domain' = [domain EXCEPT ![d] = None]
      BY <2>2 DEF Put
    <3> QED
      BY <2>1, <3>1 DEF NoneDisabled, Types
  <2>3. CASE \E status \in Statuses \ {"Disabled"} : PutStatus(d, status)
    <3>1. PICK status \in Statuses : PutStatus(d, status) /\ status # "Disabled"
      BY <2>3
    <3>2. PICK new : new = [domain[d] EXCEPT !.status = status]
      OBVIOUS
    <3>3. new.status = status
      BY <2>1, <3>2, StatusTypes DEF WritesOne
    <3>4. domain' = [domain EXCEPT ![d] = new]
      BY <3>1, <3>2 DEF PutStatus, Put
    <3> QED
      BY <2>1, <3>1, <3>3, <3>4 DEF NoneDisabled, Types
  <2> QED
    BY <2>1, <2>2, <2>3 DEF WritesOne
<1>2. ASSUME NEW u \in Users, NEW d \in Domains, NEW t \in Domains, Creates(u, d, t)
      PROVE  NoneDisabled /\ UNCHANGED <<rows, client>>
  <2>1. PICK new : new = [kind |-> "desktop", user |-> u, status |-> "Creating",
               parents |-> IF domain[t] # None THEN domain[t].parents \cup {t} ELSE {}]
    OBVIOUS
  <2>2. domain' = [domain EXCEPT ![d] = new] /\ UNCHANGED <<rows, client>>
    BY <1>2, <2>1 DEF Creates, Put, UserDoes
  <2>3. new.status = "Creating"
    BY <2>1
  <2> QED
    BY <2>2, <2>3 DEF NoneDisabled, Types
<1>3. ASSUME NEW d \in Domains, NEW t \in Domains, MakesTemplate(d, t)
      PROVE  NoneDisabled /\ UNCHANGED <<rows, client>>
  BY <1>3, TemplateMade DEF NoneDisabled
<1> QED
  BY <1>1, <1>2, <1>3 DEF Others

LEMMA TogglesStep ==
    ASSUME Assumption, OneClient, OneByOne, Types, HaveUsers, ListsHold, HaveUsers', TogglesAgree, [Next]_vars
    PROVE  TogglesAgree'
<1>1. CASE UNCHANGED vars
  BY <1>1 DEF vars, TogglesAgree, DisabledOfDisabled, EnablingHasNone, Disabling
<1>2. CASE Others
  BY <1>2, OthersDisable, NoneDisabledAgrees DEF rows
<1>3. ASSUME NEW c \in Clients, Asks(c) PROVE TogglesAgree'
  <2>1. PICK op : Begun(c, op)
    BY <1>3, RequestBegun, OneByOneTakesTime
  <2>2. NoneDisabled /\ UNCHANGED user
    BY <2>1 DEF Begun, NoneDisabled
  <2>3. \A x \in Clients : client[x].pc # "third" /\ client'[x].pc # "third"
    BY <2>1 DEF Begun, OneClient
  <2> QED
    BY <2>2, <2>3, NoneDisabledAgrees
<1>4. ASSUME NEW c \in Clients, ReadsOwn(c) \/ ReadsDerived(c) \/ SawDeleted(c) PROVE TogglesAgree'
  <2>1. UNCHANGED <<rows, domain>>
    BY <1>4, ReadsOwnTypes, ReadsDerivedGoes, SawDeletedGoes
  <2>2. client[c].pc # "third" /\ client'[c].pc # "third"
    <3>1. client[c].pc # "third"
      BY <1>4 DEF ReadsOwn, ReadsDerived, SawDeleted
    <3>2. CASE ReadsOwn(c)
      BY <3>1, <3>2, ReadsOwnTypes, IdleKnows
    <3>3. CASE ReadsDerived(c) \/ SawDeleted(c)
      <4>1. PICK q \in KnowingClient : client' = [client EXCEPT ![c] = q] /\ q.pc = "items"
        BY <3>3, ReadsDerivedGoes, SawDeletedGoes
      <4> QED
        BY <3>1, <4>1 DEF Types
    <3> QED
      BY <1>4, <3>2, <3>3
  <2>3. NoneDisabled
    BY <2>1 DEF NoneDisabled
  <2> QED
    BY <2>1, <2>2, <2>3, NoneDisabledAgrees DEF OneClient, rows
<1>5. ASSUME NEW c \in Clients, DeletesDomain(c) \/ SawStopped(c) PROVE TogglesAgree'
  <2>1. PICK q \in KnowingClient, d \in Domains, status \in {"Stopping", "Deleting"} :
            /\ client' = [client EXCEPT ![c] = q] /\ q.pc # "third"
            /\ domain' = (IF domain[d] = None THEN domain ELSE [domain EXCEPT ![d].status = status])
    <3>1. CASE DeletesDomain(c)
      <4>1. PICK q \in KnowingClient, i \in Found :
                /\ client' = [client EXCEPT ![c] = q] /\ saw' = [saw EXCEPT ![c] = FALSE]
                /\ i.kind = "domain" /\ TakesItem(client[c].todo, q.todo, i)
                /\ q.pc \in {"stopping", "deleting"} /\ q.op = client[c].op /\ q.id = client[c].id /\ q.now = i
                /\ \E status \in {"Stopping", "Deleting"} :
                    /\ domain' = (IF domain[i.id] = None THEN domain ELSE [domain EXCEPT ![i.id].status = status])
                    /\ q.pc = IF status = "Stopping" THEN "stopping" ELSE "deleting"
        BY <3>1, DeletesDomainGoes
      <4>2. i.id \in Domains /\ q.pc # "third"
        BY <4>1 DEF Found
      <4>3. PICK d \in Domains : d = i.id
        BY <4>2
      <4>4. PICK status \in {"Stopping", "Deleting"} :
                domain' = (IF domain[d] = None THEN domain ELSE [domain EXCEPT ![d].status = status])
        BY <4>1, <4>3
      <4> QED
        BY <4>1, <4>2, <4>4
    <3>2. CASE SawStopped(c)
      <4>1. PICK q \in KnowingClient :
                /\ client' = [client EXCEPT ![c] = q] /\ q.pc = "deleting" /\ q.now = client[c].now
                /\ domain' = (IF domain[q.now.id] = None THEN domain
                              ELSE [domain EXCEPT ![q.now.id].status = "Deleting"])
        BY <3>2, SawStoppedGoes
      <4>2. q.now.id \in Domains
        BY <3>2, <4>1, SawStoppedGoes DEF Found
      <4> QED
        BY <4>1, <4>2
    <3> QED
      BY <1>5, <3>1, <3>2
  <2>2. UNCHANGED rows /\ client[c].pc # "third" /\ client'[c].pc # "third"
    BY <1>5, <2>1 DEF DeletesDomain, SawStopped, Types
  <2>3. NoneDisabled
    <3>1. status \in Statuses /\ status # "Disabled"
      BY DEF Statuses
    <3> QED
      BY <2>1, <3>1, WrittenStatus DEF NoneDisabled
  <2> QED
    BY <2>2, <2>3, NoneDisabledAgrees DEF OneClient, rows
<1>6. ASSUME NEW c \in Clients,
             TimesOut(c) \/ Finishes(c) \/ InsertsRow(c) \/ UpdatesGroups(c) \/ InsertsUsers(c)
      PROVE  TogglesAgree'
  <2>1. client'[c].pc # "third" /\ UNCHANGED domain /\ client[c].pc # "third"
    <3>1. client' = [client EXCEPT ![c] = Idle] /\ UNCHANGED domain
      BY <1>6, Ends DEF InsertsUsers
    <3>2. client[c].pc # "third"
      BY <1>6 DEF TimesOut, Finishes, InsertsRow, UpdatesGroups, InsertsUsers
    <3> QED
      BY <3>1, <3>2, IdleKnows DEF Types
  <2>2. \A u \in Users : user[u] # None /\ user'[u] # None => user'[u] = user[u]
    BY <1>6 DEF TimesOut, Finishes, InsertsRow, UpdatesGroups, InsertsUsers, rows, Types
  <2>3. NoneDisabled
    BY <2>1 DEF NoneDisabled
  <2> QED
    BY <2>1, <2>2, <2>3, NoneDisabledAgrees DEF OneClient
<1>7. ASSUME NEW c \in Clients, TogglesUser(c) PROVE TogglesAgree'
  <2>1. client'[c] = Idle /\ UNCHANGED domain /\ client[c].pc = "third"
    BY <1>7, Ends DEF TogglesUser, Types
  <2>2. EnablingHasNone'
    BY <2>1, IdleKnows DEF EnablingHasNone, OneClient
  <2>3. client[c].op = "toggle" /\ client[c].id \in Users /\ client[c].active \in BOOLEAN
    BY <2>1 DEF Types, KnowingClient, Knows, Client
  <2>4. DisabledOfDisabled'
    <3>1. SUFFICES ASSUME NEW d \in Domains, domain[d] # None, domain[d].status = "Disabled"
                   PROVE  domain[d].kind = "desktop" /\ user'[domain[d].user] # None /\ ~user'[domain[d].user].active
      BY <2>1 DEF DisabledOfDisabled, HaveUsers
    <3>2. /\ domain[d].kind = "desktop" /\ user[domain[d].user] # None /\ user'[domain[d].user] # None
          /\ domain[d].user \in Users /\ (~user[domain[d].user].active \/ Disabling(domain[d].user))
      BY <2>1, <3>1 DEF TogglesAgree, DisabledOfDisabled, HaveUsers, Types, Domain
    <3>3. user'[client[c].id] = IF user[client[c].id] = None THEN None ELSE [active |-> client[c].active]
      BY <1>7, <2>3 DEF TogglesUser, Types
    <3>4. \A u \in Users : u # client[c].id => user'[u] = user[u]
      BY <1>7 DEF TogglesUser, Types
    <3>5. CASE domain[d].user = client[c].id
      <4>1. ~client[c].active
        BY <2>1, <2>3, <3>1, <3>5 DEF TogglesAgree, EnablingHasNone
      <4> QED
        BY <3>2, <3>3, <3>5, <4>1
    <3>6. CASE domain[d].user # client[c].id
      BY <3>2, <3>4, <3>6 DEF Disabling, OneClient
    <3> QED
      BY <3>5, <3>6
  <2> QED
    BY <2>2, <2>4 DEF TogglesAgree
<1>8. ASSUME NEW c \in Clients, TogglesDesktops(c) PROVE TogglesAgree'
  <2>1. /\ UNCHANGED rows /\ client[c].pc = "second" /\ client[c].id \in Users
        /\ \A d \in Domains :
                /\ domain'[d] = None <=> domain[d] = None
                /\ domain[d] # None => domain'[d].user = domain[d].user /\ domain'[d].kind = domain[d].kind
                /\ domain[d] # None /\ domain'[d].status = "Disabled" =>
                    \/ /\ domain[d].kind = "desktop" /\ domain[d].user = client[c].id /\ ~client[c].active
                    \/ /\ domain[d].status = "Disabled"
                       /\ ~(domain[d].kind = "desktop" /\ domain[d].user = client[c].id)
    BY <1>8, TogglesDesktopsGoes
  <2>2. PICK q \in KnowingClient :
                /\ client' = [client EXCEPT ![c] = q]
                /\ q.pc = "third" /\ q.op = "toggle" /\ q.id = client[c].id /\ q.active = client[c].active
    BY <1>8, TogglesDesktopsGoes
  <2>3. client'[c].pc = "third" /\ client'[c].id = client[c].id /\ client'[c].active = client[c].active
    BY <2>2 DEF Types
  <2>4. \A d \in Domains : domain[d] # None /\ domain[d].status = "Disabled" =>
            domain[d].kind = "desktop" /\ ~user[domain[d].user].active
    BY <2>1 DEF TogglesAgree, DisabledOfDisabled, Disabling, OneClient
  <2>5. EnablingHasNone'
    BY <2>1, <2>3, <2>4 DEF EnablingHasNone, OneClient
  <2>6. ASSUME NEW d \in Domains, domain'[d] # None, domain'[d].status = "Disabled"
        PROVE  /\ domain'[d].kind = "desktop" /\ user'[domain'[d].user] # None
               /\ ~user'[domain'[d].user].active \/ Disabling(domain[d].user)'
    <3>1. domain[d] # None /\ domain'[d].user = domain[d].user /\ domain'[d].kind = domain[d].kind /\ user' = user
      BY <2>1, <2>6 DEF rows
    <3>2. user'[domain'[d].user] # None
      BY <2>6 DEF HaveUsers
    <3>3. CASE domain[d].kind = "desktop" /\ domain[d].user = client[c].id /\ ~client[c].active
      <4>1. Disabling(domain[d].user)'
        BY <2>3, <3>1, <3>3 DEF Disabling
      <4> QED
        BY <3>1, <3>2, <3>3, <4>1
    <3>4. CASE domain[d].status = "Disabled"
      BY <2>4, <3>1, <3>2, <3>4
    <3> QED
      BY <2>1, <2>6, <3>1, <3>3, <3>4
  <2>7. DisabledOfDisabled'
    BY <2>6 DEF DisabledOfDisabled, Disabling
  <2> QED
    BY <2>5, <2>7 DEF TogglesAgree
<1> QED
  BY <1>1, <1>2, <1>3, <1>4, <1>5, <1>6, <1>7, <1>8, DeletesRowNever DEF Next, Others, GoesOn

----------------------------------------------------------------------------
(* Every user has a group and every group a category.                      *)

HasGroup(u) == user[u] # None => group[UserGroup[u]] # None
HasCategory(g) == group[g] # None => category[GroupCategory[g]] # None

\* What a list still has of a kind.
Lists(todo, kind, id) == \E k \in 1 .. Len(todo) : \E i \in todo[k] : i.kind = kind /\ i.id = id
NoRows(todo) == \A k \in 1 .. Len(todo) : \A i \in todo[k] : i.kind = "domain"

\* A list with a group has its users, and one with a category has its groups.
RowsClosed(todo) ==
    /\ \A u \in Users : user[u] # None /\ Lists(todo, "group", UserGroup[u]) => Lists(todo, "user", u)
    /\ \A g \in Groups : group[g] # None /\ Lists(todo, "category", GroupCategory[g]) => Lists(todo, "group", g)

\* Rows go before desktops.
RowsFirst(todo) ==
    \A j \in 1 .. Len(todo), k \in 1 .. Len(todo) :
        j <= k /\ (\E i \in todo[j] : i.kind = "domain") => \A i \in todo[k] : i.kind = "domain"

\* What a request has still to delete or to insert.
Clears(c, kind, id) == client[c].pc = "items" /\ Lists(client[c].todo, kind, id)
Inserts(c, op) == client[c].pc = "second" /\ client[c].op = op

RowsListed(c) ==
    /\ client[c].pc \in {"derived", "items"} => RowsClosed(client[c].todo) /\ RowsFirst(client[c].todo)
    /\ client[c].pc \in {"stopping", "deleting"} => NoRows(client[c].todo)
RowsChecked(c) ==
    /\ client[c].pc = "second" /\ client[c].op \in Additions =>
        \A i \in client[c].todo[1] : i.id \in Users => group[UserGroup[i.id]] # None
    /\ Inserts(c, "group_add") \/ Inserts(c, "api_group_add") \/ Inserts(c, "api_category_add") =>
        category[GroupCategory[client[c].id]] # None

RowsInv ==
    /\ \A u \in Users : HasGroup(u) \/ \E c \in Clients : Clears(c, "user", u)
    /\ \A g \in Groups :
        HasCategory(g) \/ \E c \in Clients : Clears(c, "group", g) \/ (Inserts(c, "category_add") /\ client[c].id = g)
    /\ \A c \in Clients : RowsListed(c) /\ RowsChecked(c)

\* Where nothing is cleared and no category is to come, every row has its owner.
Whole == (\A u \in Users : HasGroup(u)) /\ \A g \in Groups : HasCategory(g)

LEMMA WholeUnlessLeft ==
    ASSUME OneClient, RowsInv, NEW c \in Clients, client[c].pc # "items" \/ ~Left(client[c]),
           ~Inserts(c, "category_add")
    PROVE  Whole
<1>1. \A kind, id : ~Clears(c, kind, id)
  BY DEF Clears, Lists, Left
<1> QED
  BY <1>1 DEF RowsInv, Whole, OneClient

\* A request that has nothing in its list.
LEMMA WholeKept ==
    ASSUME OneClient, NEW c \in Clients, Whole', RowsListed(c)', RowsChecked(c)'
    PROVE  RowsInv'
BY DEF Whole, RowsInv, OneClient

LEMMA IdleRows ==
    ASSUME NEW c \in Clients, client[c].pc = "idle"
    PROVE  RowsListed(c) /\ RowsChecked(c)
BY DEF RowsListed, RowsChecked, Inserts

LEMMA RowsInit == Assumption /\ Init => RowsInv
<1> SUFFICES ASSUME Assumption, Init PROVE RowsInv
  OBVIOUS
<1>3. [limit |-> None] # None
  BY DEF Assumption, Limited
<1>4. (\A u \in Users : UserGroup[u] \in Groups) /\ (\A g \in Groups : GroupCategory[g] \in Categories)
  BY DEF Assumption
<1>1. Whole
  BY <1>3, <1>4 DEF Init, Whole, HasGroup, HasCategory
<1>2. \A c \in Clients : client[c].pc = "idle"
  BY IdleKnows DEF Init
<1> QED
  BY <1>1, <1>2, IdleRows DEF RowsInv, Whole

\* Rows are there or not as before.
SameRows ==
    /\ \A k \in Categories : category'[k] = None <=> category[k] = None
    /\ \A g \in Groups : group'[g] = None <=> group[g] = None
    /\ \A u \in Users : user'[u] # None => user[u] # None

LEMMA SameWhole == ASSUME Assumption, SameRows, Whole PROVE Whole'
<1>1. \A u \in Users : UserGroup[u] \in Groups
  BY DEF Assumption
<1>2. \A g \in Groups : GroupCategory[g] \in Categories
  BY DEF Assumption
<1> QED
  BY <1>1, <1>2 DEF SameRows, Whole, HasGroup, HasCategory

LEMMA SameUnchanged == ASSUME UNCHANGED rows PROVE SameRows
BY DEF rows, SameRows

\* The rows of a limit that is written.
LEMMA LimitIsNoNone ==
    ASSUME Assumption, NEW row \in Limited, NEW limit \in Limits \cup {None}
    PROVE  [row EXCEPT !.limit = limit] # None /\ NewRow(row, limit) # None /\ [limit |-> limit] # None
BY DEF Limited, NewRow, Assumption

LEMMA AsksRows ==
    ASSUME Assumption, OneClient, Types, RowsInv, NEW c \in Clients, Asks(c)
    PROVE  RowsInv'
<1>1. ASSUME client[c].pc = "idle" PROVE Whole
  BY <1>1, WholeUnlessLeft DEF Inserts
<1>2. ASSUME client[c].pc = "idle", SameRows,
             \/ client'[c].pc \in {"idle", "own"}
             \/ client'[c].pc = "second" /\ client'[c].op \notin Additions \cup {"group_add", "api_group_add", "api_category_add"}
      PROVE  RowsInv'
  <2>1. Whole'
    BY <1>1, <1>2, SameWhole
  <2>2. RowsListed(c)' /\ RowsChecked(c)'
    BY <1>2 DEF RowsListed, RowsChecked, Inserts
  <2> QED
    BY <2>1, <2>2, WholeKept
<1>3. ASSUME NEW op, NEW id, DeletionBegins(c, op, id) PROVE RowsInv'
  <2>1. UNCHANGED rows /\ client'[c].pc = "own" /\ client[c].pc = "idle"
    BY <1>3 DEF DeletionBegins, Begins, Idle, Types
  <2> QED
    BY <1>2, <2>1, SameUnchanged
<1>4. ASSUME NEW op, NEW us \in SUBSET Users, NEW g \in Groups, AddsUsers(c, op, us, g), op \in Additions PROVE RowsInv'
  <2>1. PICK items : items = {RowItem("user", u) : u \in us}
    OBVIOUS
  <2>2. Begins(c, op, [Idle EXCEPT !.pc = "second", !.todo = <<items>>]) /\ UNCHANGED rows
        /\ us \subseteq UsersOfGroup(g) /\ group[g] # None
    BY <1>4, <2>1 DEF AddsUsers, rows
  <2>3. client'[c].pc = "second" /\ client'[c].op = op /\ client[c].pc = "idle" /\ client'[c].todo[1] = items
    BY <2>2 DEF Begins, Idle, Types
  <2>4. \A i \in items : UserGroup[i.id] = g
    BY <2>1, <2>2 DEF RowItem, UsersOfGroup
  <2>5. RowsChecked(c)' /\ RowsListed(c)'
    BY <1>4, <2>2, <2>3, <2>4 DEF RowsChecked, RowsListed, Inserts, Additions, Registrations, rows
  <2>6. Whole'
    BY <1>1, <2>2, <2>3, SameWhole, SameUnchanged
  <2> QED
    BY <2>5, <2>6, WholeKept
<1>5. CASE \E u \in Users : UserDelete(c, u) \/ ApiUserDelete(c, u)
  BY <1>3, <1>5 DEF UserDelete, ApiUserDelete
<1>6. CASE \E u \in Users : Toggles(c, u)
  <2>1. PICK u \in Users : Toggles(c, u)
    BY <1>6
  <2>2. PICK active : active = ~user[u].active
    OBVIOUS
  <2>3. Begins(c, "toggle", [Idle EXCEPT !.pc = "second", !.id = u, !.active = active]) /\ UNCHANGED rows
    BY <2>1, <2>2 DEF Toggles
  <2>4. client'[c].pc = "second" /\ client'[c].op = "toggle" /\ client[c].pc = "idle"
    BY <2>3 DEF Begins, Idle, Types
  <2> QED
    BY <1>2, <2>3, <2>4, SameUnchanged DEF Additions, Registrations
<1>7. CASE \E u \in Users : (\E m \in Managers : UserAdd(c, u, m)) \/ ApiUserInsert(c, u) \/ Register(c, u) \/ AutoRegister(c, u)
  <2>1. \A u \in Users : UserGroup[u] \in Groups /\ {u} \in SUBSET Users
    BY DEF Assumption
  <2> QED
    BY <1>4, <1>7, <2>1 DEF UserAdd, ApiUserInsert, Register, AutoRegister, Additions, Registrations
<1>8. CASE \E g \in Groups : \E us \in SUBSET Users, m \in Managers : BulkUsersAdd(c, us, g, m)
  BY <1>4, <1>8 DEF BulkUsersAdd, Additions, Registrations
<1>9. CASE \E g \in Groups : GroupDelete(c, g)
  BY <1>3, <1>9 DEF GroupDelete
<1>10. ASSUME NEW op, NEW g, RowBegins(c, op, g)
       PROVE  /\ client'[c].pc = "second" /\ client'[c].op = op /\ client'[c].id = g
              /\ client[c].pc = "idle" /\ user' = user
  BY <1>10 DEF RowBegins, Begins, Idle, Types
<1>11. ASSUME NEW g \in Groups, GroupAdd(c, g) \/ GroupCreate(c, g) PROVE RowsInv'
  <2>1. PICK op \in {"group_add", "api_group_add"} :
            category[GroupCategory[g]] # None /\ RowBegins(c, op, g) /\ UNCHANGED <<category, group>>
    BY <1>11 DEF GroupAdd, GroupCreate
  <2>2. client'[c].pc = "second" /\ client'[c].op = op /\ client'[c].id = g
        /\ client[c].pc = "idle" /\ user' = user
    BY <1>10, <2>1
  <2>3. RowsChecked(c)' /\ RowsListed(c)'
    BY <2>1, <2>2 DEF RowsChecked, RowsListed, Additions, Registrations
  <2>4. Whole'
    BY <1>1, <2>1, <2>2, SameWhole DEF SameRows
  <2> QED
    BY <2>3, <2>4, WholeKept
<1>12. ASSUME NEW g \in Groups, CategoryAdd(c, g) PROVE RowsInv'
  <2>1. RowBegins(c, "category_add", g) /\ group' = [group EXCEPT ![g] = NewRow(group[g], None)] /\ UNCHANGED category
    BY <1>12 DEF CategoryAdd
  <2>2. client'[c].pc = "second" /\ client'[c].op = "category_add" /\ client'[c].id = g
        /\ client[c].pc = "idle" /\ user' = user
    BY <1>10, <2>1
  <2>3. RowsChecked(c)' /\ RowsListed(c)'
    BY <2>2 DEF RowsChecked, RowsListed, Inserts, Additions, Registrations
  <2>4. NewRow(group[g], None) # None
    BY LimitIsNoNone, LimitedRows DEF NewRow
  <2>5. (\A x \in Groups : x # g => group'[x] = group[x]) /\ group'[g] # None
    BY <2>1, <2>4 DEF Types
  <2>6. \A u \in Users : HasGroup(u)'
    BY <1>1, <2>2, <2>5 DEF Whole, HasGroup, Assumption
  <2>7. \A x \in Groups : HasCategory(x)' \/ (Inserts(c, "category_add")' /\ client'[c].id = x)
    BY <1>1, <2>1, <2>2, <2>5 DEF Whole, HasCategory, Inserts
  <2> QED
    BY <2>3, <2>6, <2>7 DEF RowsInv, OneClient
<1>13. ASSUME NEW g \in Groups, CategoryCreate(c, g) PROVE RowsInv'
  <2>1. PICK k \in Categories : k = GroupCategory[g]
    BY DEF Assumption
  <2>2. PICK limit \in Limits \cup {None} :
            /\ RowBegins(c, "api_category_add", g) /\ UNCHANGED group
            /\ category' = [category EXCEPT ![k] = NewRow(category[k], limit)]
    BY <1>13, <2>1 DEF CategoryCreate
  <2>3. client'[c].pc = "second" /\ client'[c].op = "api_category_add" /\ client'[c].id = g
        /\ client[c].pc = "idle" /\ user' = user
    BY <1>10, <2>2
  <2>4. NewRow(category[k], limit) # None
    BY LimitIsNoNone, LimitedRows DEF NewRow
  <2>5. (\A x \in Categories : x # k => category'[x] = category[x]) /\ category'[k] # None
    BY <2>2, <2>4 DEF Types
  <2>6. RowsChecked(c)' /\ RowsListed(c)'
    BY <2>1, <2>3, <2>5 DEF RowsChecked, RowsListed, Inserts, Additions, Registrations
  <2>7. \A u \in Users : HasGroup(u)'
    BY <1>1, <2>2, <2>3 DEF Whole, HasGroup
  <2>8. \A x \in Groups : HasCategory(x)'
    BY <1>1, <2>2, <2>3, <2>5 DEF Whole, HasCategory, Assumption
  <2> QED
    BY <2>6, <2>7, <2>8, WholeKept DEF Whole
<1>14. CASE \E g \in Groups : ApiGroupDelete(c, g)
  <2>1. PICK g \in Groups :
            /\ user' = [u \in Users |-> IF u \in UsersOfGroup(g) THEN None ELSE user[u]]
            /\ group' = [group EXCEPT ![g] = None] /\ UNCHANGED <<category, client>> /\ client[c].pc = "idle"
    BY <1>14 DEF ApiGroupDelete
  <2>2. \A u \in Users : HasGroup(u)'
    <3>1. ASSUME NEW u \in Users, user'[u] # None PROVE group'[UserGroup[u]] # None
      <4>1. UserGroup[u] # g /\ user[u] # None
        BY <2>1, <3>1 DEF UsersOfGroup
      <4>2. group[UserGroup[u]] # None
        BY <1>1, <2>1, <4>1 DEF Whole, HasGroup
      <4> QED
        BY <2>1, <4>1, <4>2 DEF Types, Assumption
    <3> QED
      BY <3>1 DEF HasGroup
  <2>3. \A x \in Groups : HasCategory(x)'
    BY <1>1, <2>1 DEF Whole, HasCategory, Types
  <2>4. RowsChecked(c)' /\ RowsListed(c)'
    BY <2>1 DEF RowsChecked, RowsListed, Inserts
  <2> QED
    BY <2>2, <2>3, <2>4, WholeKept DEF Whole
<1>15. CASE \E k \in Categories : ApiCategoryDelete(c, k)
  <2>1. PICK k \in Categories :
            /\ user' = [u \in Users |-> IF GroupCategory[UserGroup[u]] = k THEN None ELSE user[u]]
            /\ group' = [g \in Groups |-> IF GroupCategory[g] = k THEN None ELSE group[g]]
            /\ category' = [category EXCEPT ![k] = None] /\ UNCHANGED client /\ client[c].pc = "idle"
    BY <1>15 DEF ApiCategoryDelete, UserCategory
  <2>2. \A u \in Users : HasGroup(u)'
    BY <1>1, <2>1 DEF Whole, HasGroup, Assumption
  <2>3. \A x \in Groups : HasCategory(x)'
    <3>1. ASSUME NEW x \in Groups, group'[x] # None PROVE category'[GroupCategory[x]] # None
      <4>1. GroupCategory[x] # k /\ group[x] # None
        BY <2>1, <3>1
      <4>2. category[GroupCategory[x]] # None
        BY <1>1, <2>1, <4>1 DEF Whole, HasCategory
      <4> QED
        BY <2>1, <4>1, <4>2 DEF Types, Assumption
    <3> QED
      BY <3>1 DEF HasCategory
  <2>4. RowsChecked(c)' /\ RowsListed(c)'
    BY <2>1 DEF RowsChecked, RowsListed, Inserts
  <2> QED
    BY <2>2, <2>3, <2>4, WholeKept DEF Whole
<1>16. ASSUME NEW g \in Groups, NEW limit, GroupLimit(c, g, limit) PROVE RowsInv'
  <2>1. PICK value : value = IF limit = None THEN None ELSE Clamped(limit, category[GroupCategory[g]].limit)
    OBVIOUS
  <2>2. Begins(c, "group_limit", [Idle EXCEPT !.pc = "second", !.id = g, !.value = value]) /\ UNCHANGED rows
    BY <1>16, <2>1 DEF GroupLimit
  <2>3. client'[c].pc = "second" /\ client'[c].op = "group_limit" /\ client[c].pc = "idle"
    BY <2>2 DEF Begins, Idle, Types
  <2> QED
    BY <1>2, <2>2, <2>3, SameUnchanged DEF Additions, Registrations
<1>17. CASE \E k \in Categories : CategoryDelete(c, k)
  BY <1>3, <1>17 DEF CategoryDelete
<1>18. ASSUME NEW k \in Categories, NEW op \in {"category_limit", "category_limit_propagate"},
              NEW limit \in Limits \cup {None}, CategoryLimit(c, op, k, limit)
       PROVE  RowsInv'
  <2>1. Begins(c, op, [Idle EXCEPT !.pc = "second", !.id = k, !.value = limit]) /\ UNCHANGED <<group, user>>
        /\ category' = [category EXCEPT ![k] = [category[k] EXCEPT !.limit = limit]]
        /\ category[k] \in Limited /\ category[k] # None
    BY <1>18 DEF CategoryLimit, Types
  <2>2. client'[c].pc = "second" /\ client'[c].op = op /\ client[c].pc = "idle"
    BY <2>1 DEF Begins, Idle, Types
  <2>3. [category[k] EXCEPT !.limit = limit] # None
    BY <2>1, LimitIsNoNone
  <2>4. SameRows
    BY <2>1, <2>3 DEF SameRows, Types
  <2> QED
    BY <1>2, <2>2, <2>4 DEF Additions, Registrations
<1>19. CASE \E t \in Domains : TemplateDelete(c, t)
  BY <1>3, <1>19 DEF TemplateDelete
<1> QED
  BY <1>5, <1>6, <1>7, <1>8, <1>9, <1>11, <1>12, <1>13, <1>14, <1>15, <1>16, <1>17, <1>18, <1>19 DEF Asks

\* The rows of what a deletion finds.
LEMMA ChecksRows ==
    ASSUME Assumption, Types
    PROVE  /\ \A u \in Users : NoRows(UserDeleteChecks(u))
           /\ \A t \in Domains : NoRows(TemplateDeleteList(t))
           /\ \A g \in Groups : RowsClosed(GroupDeleteChecks(g)) /\ RowsFirst(GroupDeleteChecks(g))
           /\ \A k \in Categories : RowsClosed(CategoryDeleteChecks(k)) /\ RowsFirst(CategoryDeleteChecks(k))
<1>1. \A us, kind : \A i \in Owned(us, kind) : i.kind = "domain"
  BY OwnedFound
<1>2. ASSUME NEW u \in Users PROVE NoRows(UserDeleteChecks(u))
  <2>1. PICK A, B : A = Owned({u}, "desktop") /\ B = Owned({u}, "template")
    OBVIOUS
  <2>2. UserDeleteChecks(u) = <<A, B>>
    BY <2>1 DEF UserDeleteChecks
  <2>3. NoRows(<<A, B>>)
    BY <1>1, <2>1 DEF NoRows
  <2> QED
    BY <2>2, <2>3
<1>3. ASSUME NEW t \in Domains PROVE NoRows(TemplateDeleteList(t))
  BY DEF TemplateDeleteList, NoRows, DomainItem
<1>4. ASSUME NEW us
      PROVE  \A i \in UserItems(us) : i.kind = "user"
  BY DEF UserItems, RowItem
<1>5. ASSUME NEW us, NEW u \in us, user[u] # None PROVE \E i \in UserItems(us) : i.kind = "user" /\ i.id = u
  <2>1. RowItem("user", u) \in UserItems(us)
    BY <1>5 DEF UserItems
  <2> QED
    BY <2>1 DEF RowItem
<1>6. ASSUME NEW g \in Groups PROVE RowsClosed(GroupDeleteChecks(g)) /\ RowsFirst(GroupDeleteChecks(g))
  <2>1. PICK us, A, B, C, D : us = UsersOfGroup(g) /\ A = {RowItem("group", g)} /\ B = UserItems(us)
                              /\ C = Owned(us, "desktop") /\ D = Owned(us, "template")
    OBVIOUS
  <2>2. PICK todo : todo = <<A, B, C, D>>
    OBVIOUS
  <2>3. GroupDeleteChecks(g) = todo
    BY <2>1, <2>2 DEF GroupDeleteChecks
  <2>4. Len(todo) = 4 /\ todo[1] = A /\ todo[2] = B /\ todo[3] = C /\ todo[4] = D
    BY <2>2
  <2>5. /\ \A i \in A : i.kind = "group" /\ i.id = g
        /\ \A i \in B : i.kind = "user"
        /\ \A i \in C : i.kind = "domain"
        /\ \A i \in D : i.kind = "domain"
    BY <1>1, <1>4, <2>1 DEF RowItem
  <2>6. \A k \in 1 .. 4 : k = 1 \/ k = 2 \/ k = 3 \/ k = 4
    OBVIOUS
  <2>7. \A id : ~Lists(todo, "category", id)
    BY <2>4, <2>5, <2>6 DEF Lists
  <2>8. \A id : Lists(todo, "group", id) => id = g
    BY <2>4, <2>5, <2>6 DEF Lists
  <2>9. \A u \in Users : user[u] # None /\ UserGroup[u] = g => Lists(todo, "user", u)
    <3>1. ASSUME NEW u \in Users, user[u] # None, UserGroup[u] = g PROVE Lists(todo, "user", u)
      <4>1. u \in us
        BY <2>1, <3>1 DEF UsersOfGroup
      <4>2. \E i \in B : i.kind = "user" /\ i.id = u
        BY <1>5, <2>1, <3>1, <4>1
      <4> QED
        BY <2>4, <4>2 DEF Lists
    <3> QED
      BY <3>1
  <2>10. RowsClosed(todo)
    BY <2>7, <2>8, <2>9 DEF RowsClosed
  <2>11. RowsFirst(todo)
    BY <2>4, <2>5, <2>6 DEF RowsFirst
  <2> QED
    BY <2>3, <2>10, <2>11
<1>7. ASSUME NEW k \in Categories PROVE RowsClosed(CategoryDeleteChecks(k)) /\ RowsFirst(CategoryDeleteChecks(k))
  <2>1. PICK us, gs : us = UsersOfCategory(k) /\ gs = {g \in Groups : group[g] # None /\ GroupCategory[g] = k}
    OBVIOUS
  <2>2. PICK A, B, C, D, E : A = {RowItem("category", k)} /\ B = {RowItem("group", g) : g \in gs} /\ C = UserItems(us)
                              /\ D = Owned(us, "desktop") /\ E = Owned(us, "template")
    OBVIOUS
  <2>3. PICK todo : todo = <<A, B, C, D, E>>
    OBVIOUS
  <2>4. CategoryDeleteChecks(k) = todo
    BY <2>1, <2>2, <2>3 DEF CategoryDeleteChecks
  <2>5. Len(todo) = 5 /\ todo[1] = A /\ todo[2] = B /\ todo[3] = C /\ todo[4] = D /\ todo[5] = E
    BY <2>3
  <2>6. /\ \A i \in A : i.kind = "category" /\ i.id = k
        /\ \A i \in B : i.kind = "group" /\ i.id \in gs
        /\ \A i \in C : i.kind = "user"
        /\ \A i \in D : i.kind = "domain"
        /\ \A i \in E : i.kind = "domain"
    BY <1>1, <1>4, <2>2 DEF RowItem
  <2>7. \A j \in 1 .. 5 : j = 1 \/ j = 2 \/ j = 3 \/ j = 4 \/ j = 5
    OBVIOUS
  <2>8. \A id : Lists(todo, "category", id) => id = k
    BY <2>5, <2>6, <2>7 DEF Lists
  <2>9. \A id : Lists(todo, "group", id) => id \in gs
    BY <2>5, <2>6, <2>7 DEF Lists
  <2>10. ASSUME NEW u \in Users, user[u] # None, UserGroup[u] \in gs PROVE Lists(todo, "user", u)
    <3>1. u \in us
      BY <2>1, <2>10 DEF UsersOfCategory, UserCategory
    <3>2. \E i \in C : i.kind = "user" /\ i.id = u
      BY <1>5, <2>2, <2>10, <3>1
    <3> QED
      BY <2>5, <3>2 DEF Lists
  <2>11. ASSUME NEW g \in Groups, group[g] # None, GroupCategory[g] = k PROVE Lists(todo, "group", g)
    <3>1. g \in gs
      BY <2>1, <2>11
    <3>2. RowItem("group", g) \in B
      BY <2>2, <3>1
    <3>3. RowItem("group", g).kind = "group" /\ RowItem("group", g).id = g
      BY DEF RowItem
    <3> QED
      BY <2>5, <3>2, <3>3 DEF Lists
  <2>12. RowsClosed(todo)
    BY <2>8, <2>9, <2>10, <2>11 DEF RowsClosed
  <2>13. RowsFirst(todo)
    BY <2>5, <2>6, <2>7 DEF RowsFirst
  <2> QED
    BY <2>4, <2>12, <2>13
<1> QED
  BY <1>2, <1>3, <1>6, <1>7

LEMMA NoRowsListed == ASSUME NEW todo, NoRows(todo) PROVE RowsClosed(todo) /\ RowsFirst(todo)
BY DEF NoRows, RowsClosed, RowsFirst, Lists

\* The rows are what they were, for a list.
LEMMA ClosedKept == ASSUME UNCHANGED rows, NEW todo, RowsClosed(todo) PROVE RowsClosed(todo)'
BY DEF rows, RowsClosed, Lists

LEMMA ReadsOwnRows ==
    ASSUME Assumption, OneClient, Types, RowsInv, NEW c \in Clients, ReadsOwn(c)
    PROVE  RowsInv'
<1>1. UNCHANGED rows /\ client[c].op \in Deletions /\ client[c].pc = "own" /\ Knows(client[c])
  <2>1. UNCHANGED rows /\ client[c].op \in Deletions
    BY ReadsOwnTypes
  <2>2. client[c].pc = "own"
    BY DEF ReadsOwn
  <2>3. Knows(client[c])
    BY DEF Types, KnowingClient
  <2> QED
    BY <2>1, <2>2, <2>3
<1>2. Whole'
  BY <1>1, WholeUnlessLeft, SameWhole, SameUnchanged DEF Inserts
<1>3. CASE client'[c] = Idle
  BY <1>2, <1>3, WholeKept, IdleKnows DEF RowsListed, RowsChecked, Inserts
<1>4. CASE client'[c] # Idle
  <2>1. client'[c].pc = "derived"
    BY <1>4, ReadsOwnTypes
  <2>2. PICK todo : todo = client'[c].todo
    OBVIOUS
  <2>3. RowsClosed(todo) /\ RowsFirst(todo)
    <3>1. CASE client[c].op \in UserDeletions
      <4>1. todo = UserDeleteChecks(client[c].id) /\ client[c].id \in Users
        BY <1>1, <1>4, <2>2, <3>1, ReadsOwnTypes DEF Knows
      <4> QED
        BY <4>1, ChecksRows, NoRowsListed
    <3>2. CASE client[c].op = "group_delete"
      <4>1. todo = GroupDeleteChecks(client[c].id) /\ client[c].id \in Groups
        BY <1>1, <1>4, <2>2, <3>2, ReadsOwnTypes DEF Knows
      <4> QED
        BY <4>1, ChecksRows
    <3>3. CASE client[c].op = "category_delete"
      <4>1. todo = CategoryDeleteChecks(client[c].id) /\ client[c].id \in Categories
        BY <1>1, <1>4, <2>2, <3>3, ReadsOwnTypes DEF Knows
      <4> QED
        BY <4>1, ChecksRows
    <3>4. CASE client[c].op = "template_delete"
      <4>1. todo = TemplateDeleteList(client[c].id) /\ client[c].id \in Domains
        BY <1>1, <1>4, <2>2, <3>4, ReadsOwnTypes DEF Knows
      <4> QED
        BY <4>1, ChecksRows, NoRowsListed
    <3> QED
      BY <1>1, <3>1, <3>2, <3>3, <3>4 DEF Deletions, UserDeletions
  <2>4. RowsClosed(todo)'
    BY <1>1, <2>3, ClosedKept
  <2>5. RowsListed(c)' /\ RowsChecked(c)'
    BY <2>1, <2>2, <2>3, <2>4 DEF RowsListed, RowsChecked, RowsClosed, Lists, Inserts
  <2> QED
    BY <1>2, <2>5, WholeKept
<1> QED
  BY <1>3, <1>4

LEMMA ReadsDerivedRows ==
    ASSUME Assumption, OneClient, Types, RowsInv, NEW c \in Clients, ReadsDerived(c)
    PROVE  RowsInv'
<1>1. PICK q \in KnowingClient :
        /\ client' = [client EXCEPT ![c] = q] /\ UNCHANGED rows
        /\ q.pc = "items" /\ q.op = client[c].op /\ q.id = client[c].id
        /\ q.todo = LastOnly(Append(client[c].todo, DerivedItems(client[c].todo)))
  BY ReadsDerivedGoes
<1>2. client'[c] = q
  BY <1>1 DEF Types
<1>3. PICK todo : todo = client[c].todo
  OBVIOUS
<1>4. todo \in Seq(SUBSET Found) /\ client[c].pc = "derived" /\ Len(todo) \in 1 .. 5
  BY <1>3 DEF Types, KnowingClient, Knows, Client, ReadsDerived
<1>5. PICK items \in SUBSET Found : items = DerivedItems(todo)
  BY DerivedFound DEF DerivedItems
<1>6. \A i \in items : i.kind = "domain"
  BY <1>5 DEF DerivedItems, DomainItem
<1>7. PICK more : more = Append(todo, items)
  OBVIOUS
<1>8. more \in Seq(SUBSET Found) /\ Len(more) = Len(todo) + 1 /\ Len(more) \in 1 .. 6
      /\ (\A k \in 1 .. Len(todo) : more[k] = todo[k]) /\ more[Len(more)] = items
  <2>1. more \in Seq(SUBSET Found) /\ Len(more) = Len(todo) + 1
        /\ (\A k \in 1 .. Len(todo) : more[k] = todo[k]) /\ more[Len(more)] = items
    BY <1>4, <1>7
  <2> QED
    BY <1>4, <2>1
<1>9. PICK last : last = LastOnly(more)
  OBVIOUS
<1>10. q.todo = last /\ Len(last) = Len(more)
  BY <1>1, <1>3, <1>5, <1>7, <1>8, <1>9, LastOnlyFound
<1>11. /\ \A k \in 1 .. Len(more) : last[k] \subseteq more[k]
       /\ \A k \in 1 .. Len(more) : \A i \in more[k] : \E j \in 1 .. Len(more) : i \in last[j]
  <2>1. Len(more) \in 1 .. 6
    BY <1>8
  <2>2. /\ \A k \in 1 .. Len(more) : LastOnly(more)[k] \subseteq more[k]
        /\ \A k \in 1 .. Len(more) : \A i \in more[k] : \E j \in 1 .. Len(more) : i \in LastOnly(more)[j]
    BY <2>1, LastOnlyKeeps
  <2> QED
    BY <1>9, <2>2
<1>12. RowsClosed(todo) /\ RowsFirst(todo)
  BY <1>3, <1>4 DEF RowsInv, RowsListed
<1>13. \A kind, id : kind # "domain" => (Lists(last, kind, id) <=> Lists(todo, kind, id))
  <2>1. ASSUME NEW kind, NEW id, kind # "domain", Lists(last, kind, id) PROVE Lists(todo, kind, id)
    <3>1. PICK k \in 1 .. Len(more) : \E i \in more[k] : i.kind = kind /\ i.id = id
      BY <1>10, <1>11, <2>1 DEF Lists
    <3>2. k # Len(more)
      BY <1>6, <1>8, <2>1, <3>1
    <3>3. k \in 1 .. Len(todo)
      BY <1>4, <1>8, <3>2
    <3> QED
      BY <1>8, <3>1, <3>3 DEF Lists
  <2>2. ASSUME NEW kind, NEW id, Lists(todo, kind, id) PROVE Lists(last, kind, id)
    <3>1. PICK k \in 1 .. Len(todo) : \E i \in todo[k] : i.kind = kind /\ i.id = id
      BY <2>2 DEF Lists
    <3>2. k \in 1 .. Len(more) /\ \E i \in more[k] : i.kind = kind /\ i.id = id
      BY <1>4, <1>8, <3>1
    <3>3. \E j \in 1 .. Len(more) : \E i \in last[j] : i.kind = kind /\ i.id = id
      BY <1>11, <3>2
    <3> QED
      BY <1>10, <3>3 DEF Lists
  <2> QED
    BY <2>1, <2>2
<1>14. RowsClosed(last)
  BY <1>12, <1>13 DEF RowsClosed
<1>15. RowsFirst(last)
  <2>1. ASSUME NEW j \in 1 .. Len(last), NEW k \in 1 .. Len(last), j <= k, NEW x \in last[j], x.kind = "domain",
               NEW i \in last[k]
        PROVE  i.kind = "domain"
    <3>1. i \in more[k] /\ x \in more[j]
      BY <1>10, <1>11, <2>1
    <3>2. CASE k = Len(more)
      BY <1>6, <1>8, <3>1, <3>2
    <3>3. CASE k # Len(more)
      <4>1. k \in 1 .. Len(todo) /\ j \in 1 .. Len(todo)
        BY <1>4, <1>8, <1>10, <2>1, <3>3
      <4> QED
        BY <1>8, <1>12, <2>1, <3>1, <4>1 DEF RowsFirst
    <3> QED
      BY <3>2, <3>3
  <2> QED
    BY <2>1 DEF RowsFirst
<1>16. RowsClosed(last)'
  BY <1>1, <1>14, ClosedKept
<1>17. RowsListed(c)' /\ RowsChecked(c)'
  BY <1>1, <1>2, <1>10, <1>15, <1>16 DEF RowsListed, RowsChecked, RowsClosed, Lists, Inserts
<1>18. Whole'
  BY <1>1, <1>4, WholeUnlessLeft, SameWhole, SameUnchanged DEF Inserts
<1> QED
  BY <1>17, <1>18, WholeKept

\* A list from which a row is taken: what is still there is listed as before.
LEMMA DeletesRowRows ==
    ASSUME Assumption, OneClient, Types, RowsInv, NEW c \in Clients, DeletesRow(c)
    PROVE  RowsInv'
<1>1. PICK q \in KnowingClient, i \in Found :
        /\ client' = [client EXCEPT ![c] = q]
        /\ i.kind # "domain" /\ TakesItem(client[c].todo, q.todo, i) /\ q.pc = "items"
        /\ category' = IF i.kind = "category" THEN [category EXCEPT ![i.id] = None] ELSE category
        /\ group' = IF i.kind = "group" THEN [group EXCEPT ![i.id] = None] ELSE group
        /\ user' = IF i.kind = "user" THEN [user EXCEPT ![i.id] = None] ELSE user
  BY DeletesRowGoes
<1>2. client'[c] = q /\ client[c].pc = "items" /\ client[c].todo \in Seq(SUBSET Found)
  BY <1>1 DEF Types, DeletesRow, KnowingClient, Client
<1>3. PICK todo, less : todo = client[c].todo /\ less = q.todo
  OBVIOUS
<1>4. /\ Len(less) = Len(todo)
      /\ \A j \in 1 .. Len(todo) : \A x \in todo[j] : x # i => x \in less[j]
      /\ \A j \in 1 .. Len(todo) : less[j] \subseteq todo[j]
      /\ \E j \in 1 .. Len(todo) : i \in todo[j]
  BY <1>1, <1>2, <1>3, TakenFound DEF TakesItem
<1>5. RowsClosed(todo) /\ RowsFirst(todo)
  BY <1>2, <1>3 DEF RowsInv, RowsListed
<1>6. \A kind, id : Lists(less, kind, id) => Lists(todo, kind, id)
  BY <1>4 DEF Lists
<1>7. \A kind, id : Lists(todo, kind, id) /\ ~(i.kind = kind /\ i.id = id) => Lists(less, kind, id)
  BY <1>4 DEF Lists
<1>8. /\ \A u \in Users : user'[u] # None => user[u] # None /\ ~(i.kind = "user" /\ i.id = u)
      /\ \A g \in Groups : group'[g] # None => group[g] # None /\ ~(i.kind = "group" /\ i.id = g)
  BY <1>1 DEF Types
<1>9. /\ \A g \in Groups : group'[g] = None => group[g] = None \/ (i.kind = "group" /\ i.id = g)
      /\ \A k \in Categories : category'[k] = None => category[k] = None \/ (i.kind = "category" /\ i.id = k)
  BY <1>1 DEF Types
<1>10. Lists(todo, i.kind, i.id)
  BY <1>4 DEF Lists
<1>11. /\ \A u \in Users : HasGroup(u) \/ Lists(todo, "user", u)
       /\ \A g \in Groups : HasCategory(g) \/ Lists(todo, "group", g)
  BY <1>2, <1>3 DEF RowsInv, Clears, Inserts, OneClient
<1>12. ASSUME NEW u \in Users, user'[u] # None, group'[UserGroup[u]] = None PROVE Lists(less, "user", u)
  <2>1. UserGroup[u] \in Groups
    BY DEF Assumption
  <2>2. user[u] # None /\ ~(i.kind = "user" /\ i.id = u)
    BY <1>8, <1>12
  <2>3. Lists(todo, "user", u)
    <3>1. CASE group[UserGroup[u]] = None
      BY <1>11, <2>2, <3>1 DEF HasGroup
    <3>2. CASE i.kind = "group" /\ i.id = UserGroup[u]
      BY <1>5, <1>10, <2>2, <3>2 DEF RowsClosed
    <3> QED
      BY <1>9, <1>12, <2>1, <3>1, <3>2
  <2> QED
    BY <1>7, <2>2, <2>3
<1>13. ASSUME NEW g \in Groups, group'[g] # None, category'[GroupCategory[g]] = None PROVE Lists(less, "group", g)
  <2>1. GroupCategory[g] \in Categories
    BY DEF Assumption
  <2>2. group[g] # None /\ ~(i.kind = "group" /\ i.id = g)
    BY <1>8, <1>13
  <2>3. Lists(todo, "group", g)
    <3>1. CASE category[GroupCategory[g]] = None
      BY <1>11, <2>2, <3>1 DEF HasCategory
    <3>2. CASE i.kind = "category" /\ i.id = GroupCategory[g]
      BY <1>5, <1>10, <2>2, <3>2 DEF RowsClosed
    <3> QED
      BY <1>9, <1>13, <2>1, <3>1, <3>2
  <2> QED
    BY <1>7, <2>2, <2>3
<1>14. /\ \A u \in Users : user'[u] # None /\ Lists(less, "group", UserGroup[u]) => Lists(less, "user", u)
       /\ \A g \in Groups : group'[g] # None /\ Lists(less, "category", GroupCategory[g]) => Lists(less, "group", g)
  BY <1>5, <1>6, <1>7, <1>8 DEF RowsClosed
<1>15. RowsFirst(less)
  BY <1>4, <1>5 DEF RowsFirst
<1>16. RowsListed(c)' /\ RowsChecked(c)'
  BY <1>1, <1>2, <1>3, <1>14, <1>15 DEF RowsListed, RowsChecked, RowsClosed, RowsFirst, Lists, Inserts
<1>17. \A u \in Users : HasGroup(u)' \/ Clears(c, "user", u)'
  BY <1>1, <1>2, <1>3, <1>12 DEF HasGroup, Clears, Lists
<1>18. \A g \in Groups : HasCategory(g)' \/ Clears(c, "group", g)'
  BY <1>1, <1>2, <1>3, <1>13 DEF HasCategory, Clears, Lists
<1> QED
  BY <1>16, <1>17, <1>18 DEF RowsInv, OneClient

\* When a desktop is deleted there are no rows left.
LEMMA DeletesDomainRows ==
    ASSUME Assumption, OneClient, Types, RowsInv, NEW c \in Clients, DeletesDomain(c)
    PROVE  RowsInv'
<1>1. PICK q \in KnowingClient, i \in Found :
        /\ client' = [client EXCEPT ![c] = q] /\ UNCHANGED rows
        /\ i.kind = "domain" /\ TakesItem(client[c].todo, q.todo, i)
        /\ q.pc \in {"stopping", "deleting"}
  BY DeletesDomainGoes
<1>2. client'[c] = q /\ client[c].pc = "items" /\ client[c].todo \in Seq(SUBSET Found)
  BY <1>1 DEF Types, DeletesDomain, KnowingClient, Client
<1>3. PICK todo, less : todo = client[c].todo /\ less = q.todo
  OBVIOUS
<1>4. Len(less) = Len(todo) /\ \A j \in 1 .. Len(todo) : less[j] \subseteq todo[j]
  BY <1>1, <1>2, <1>3, TakenFound
<1>5. RowsFirst(todo)
  BY <1>2, <1>3 DEF RowsInv, RowsListed
<1>6. NoRows(todo)
  <2>1. PICK r : r = client[c]
    OBVIOUS
  <2>2. Left(r) /\ (\E x \in r.todo[First(r)] : x.kind = "domain") /\ Len(r.todo) \in 1 .. 6
    BY <1>2, <2>1 DEF DeletesDomain, Types, KnowingClient, Knows
  <2>3. PICK k \in 1 .. Len(todo) : (\E x \in todo[k] : x.kind = "domain") /\ \A j \in 1 .. k - 1 : todo[j] = {}
    BY <1>3, <2>1, <2>2, FirstIsLeft
  <2>4. ASSUME NEW j \in 1 .. Len(todo), NEW x \in todo[j] PROVE x.kind = "domain"
    <3>1. k <= j
      BY <1>3, <2>1, <2>2, <2>3, <2>4
    <3> QED
      BY <1>5, <2>3, <2>4, <3>1 DEF RowsFirst
  <2> QED
    BY <2>4 DEF NoRows
<1>7. NoRows(less)
  BY <1>4, <1>6 DEF NoRows
<1>8. Whole
  <2>1. \A id : ~Lists(todo, "user", id) /\ ~Lists(todo, "group", id)
    BY <1>6 DEF Lists, NoRows
  <2> QED
    BY <1>2, <1>3, <2>1 DEF RowsInv, Whole, Clears, Inserts, OneClient
<1>9. RowsListed(c)' /\ RowsChecked(c)'
  BY <1>1, <1>2, <1>3, <1>7 DEF RowsListed, RowsChecked, Inserts, NoRows
<1> QED
  BY <1>1, <1>8, <1>9, SameWhole, SameUnchanged, WholeKept

LEMMA SawRows ==
    ASSUME Assumption, OneClient, Types, RowsInv, NEW c \in Clients, SawStopped(c) \/ SawDeleted(c)
    PROVE  RowsInv'
<1>1. PICK q \in KnowingClient :
        client' = [client EXCEPT ![c] = q] /\ UNCHANGED rows /\ q.pc \in {"items", "deleting"} /\ q.todo = client[c].todo
  <2>1. CASE SawStopped(c)
    BY <2>1, SawStoppedGoes
  <2>2. CASE SawDeleted(c)
    BY <2>2, SawDeletedGoes
  <2> QED
    BY <2>1, <2>2
<1>2. client'[c] = q /\ client[c].pc \in {"stopping", "deleting"}
  BY <1>1 DEF Types, SawStopped, SawDeleted
<1>3. PICK todo : todo = client[c].todo
  OBVIOUS
<1>4. NoRows(todo)
  BY <1>2, <1>3 DEF RowsInv, RowsListed
<1>5. RowsClosed(todo)' /\ RowsFirst(todo)
  BY <1>1, <1>4, NoRowsListed, ClosedKept
<1>6. RowsListed(c)' /\ RowsChecked(c)'
  BY <1>1, <1>2, <1>3, <1>4, <1>5 DEF RowsListed, RowsChecked, RowsClosed, Lists, NoRows, Inserts
<1>7. Whole'
  BY <1>1, <1>2, WholeUnlessLeft, SameWhole, SameUnchanged DEF Inserts
<1> QED
  BY <1>6, <1>7, WholeKept

\* The requests that end, and the one that disables the desktops of a user.
LEMMA EndsRows ==
    ASSUME Assumption, OneClient, Types, RowsInv, NEW c \in Clients,
           \/ TimesOut(c) \/ Finishes(c) \/ InsertsUsers(c) \/ InsertsRow(c) \/ UpdatesGroups(c)
           \/ TogglesDesktops(c) \/ TogglesUser(c)
    PROVE  RowsInv'
<1>1. client'[c].pc \in {"idle", "third"}
  <2>1. CASE TimesOut(c) \/ Finishes(c) \/ InsertsUsers(c) \/ InsertsRow(c) \/ UpdatesGroups(c) \/ TogglesUser(c)
    <3>1. client' = [client EXCEPT ![c] = Idle]
      BY <2>1, Ends DEF InsertsUsers
    <3> QED
      BY <3>1, IdleKnows DEF Types
  <2>2. CASE TogglesDesktops(c)
    <3>1. PICK q \in KnowingClient : client' = [client EXCEPT ![c] = q] /\ q.pc = "third"
      BY <2>2, TogglesDesktopsGoes
    <3> QED
      BY <3>1 DEF Types
  <2> QED
    BY <2>1, <2>2
<1>2. RowsListed(c)' /\ RowsChecked(c)'
  BY <1>1 DEF RowsListed, RowsChecked, Inserts
<1>3. ASSUME Whole, SameRows PROVE RowsInv'
  BY <1>2, <1>3, SameWhole, WholeKept
<1>4. CASE TimesOut(c) \/ TogglesDesktops(c)
  <2>1. UNCHANGED rows
    BY <1>4 DEF TimesOut, TogglesDesktops
  <2>2. client[c].pc # "items" /\ ~Inserts(c, "category_add")
    BY <1>4 DEF TimesOut, TogglesDesktops, Inserts
  <2> QED
    BY <1>3, <2>1, <2>2, SameUnchanged, WholeUnlessLeft
<1>5. CASE Finishes(c)
  <2>1. ~Left(client[c]) /\ ~Inserts(c, "category_add")
    BY <1>5 DEF Finishes, Inserts
  <2>2. UNCHANGED <<category, group>> /\ (user' = user \/ \E u : user' = [user EXCEPT ![u] = None])
    BY <1>5 DEF Finishes
  <2>3. SameRows
    BY <2>2 DEF SameRows, Types
  <2> QED
    BY <1>3, <2>1, <2>3, WholeUnlessLeft
<1>6. CASE TogglesUser(c)
  <2>1. client[c].pc = "third" /\ UNCHANGED <<category, group>>
    BY <1>6 DEF TogglesUser
  <2>2. \A u \in Users : user'[u] # None => user[u] # None
    BY <1>6 DEF TogglesUser, Types
  <2> QED
    BY <1>3, <2>1, <2>2, WholeUnlessLeft DEF SameRows, Inserts
<1>7. CASE UpdatesGroups(c)
  <2>1. client[c] \in Client /\ client[c].pc = "second" /\ client[c].op \in LimitUpdates /\ UNCHANGED <<category, user>>
    BY <1>7 DEF Types, KnowingClient, UpdatesGroups
  <2>2. client[c].value \in Limits \cup {None}
    BY <2>1 DEF Client
  <2>3. \A g \in Groups : group'[g] = group[g] \/ (group[g] # None /\ group'[g] = [group[g] EXCEPT !.limit = client[c].value])
    BY <1>7 DEF UpdatesGroups
  <2>4. \A g \in Groups : group[g] # None => [group[g] EXCEPT !.limit = client[c].value] # None
    BY <2>2, LimitIsNoNone DEF Types
  <2>5. SameRows
    BY <2>1, <2>3, <2>4 DEF SameRows
  <2> QED
    BY <1>3, <2>1, <2>5, WholeUnlessLeft DEF Inserts, LimitUpdates
<1>8. CASE InsertsUsers(c)
  <2>1. client[c].pc = "second" /\ client[c].op \in Additions /\ UNCHANGED <<category, group>>
    BY <1>8 DEF InsertsUsers
  <2>2. Whole
    BY <2>1, WholeUnlessLeft DEF Inserts, Additions, Registrations
  <2>3. PICK us : /\ us = {i.id : i \in client[c].todo[1]}
                  /\ user' = [u \in Users |-> IF u \in us /\ user[u] = None THEN [active |-> TRUE] ELSE user[u]]
    BY <1>8 DEF InsertsUsers
  <2>4. \A u \in Users : u \in us => group[UserGroup[u]] # None
    BY <2>1, <2>3 DEF RowsInv, RowsChecked
  <2>5. \A u \in Users : HasGroup(u)'
    BY <2>1, <2>2, <2>3, <2>4 DEF Whole, HasGroup
  <2>6. \A g \in Groups : HasCategory(g)'
    BY <2>1, <2>2 DEF Whole, HasCategory
  <2> QED
    BY <1>2, <2>5, <2>6, WholeKept DEF Whole
<1>9. CASE InsertsRow(c)
  <2>1. client[c] \in KnowingClient /\ client[c].pc = "second" /\ client[c].op \in RowAdditions /\ UNCHANGED user
    BY <1>9 DEF Types, InsertsRow
  <2>2. PICK g \in Groups, k \in Categories : g = client[c].id /\ k = GroupCategory[g]
    BY <2>1 DEF KnowingClient, Knows, Assumption
  <2>3. NewRow(category[k], None) # None /\ NewRow(group[g], None) # None
    BY LimitIsNoNone, LimitedRows DEF NewRow
  <2>4. CASE client[c].op = "category_add"
    <3>1. category' = [category EXCEPT ![k] = NewRow(category[k], None)] /\ UNCHANGED group
      BY <1>9, <2>2, <2>4 DEF InsertsRow
    <3>2. category'[k] # None /\ \A x \in Categories : x # k => category'[x] = category[x]
      BY <2>3, <3>1 DEF Types
    <3>3. (\A u \in Users : HasGroup(u)) /\ \A x \in Groups : HasCategory(x) \/ x = g
      BY <2>1, <2>2 DEF RowsInv, Clears, OneClient
    <3>4. \A u \in Users : HasGroup(u)'
      BY <2>1, <3>1, <3>3 DEF HasGroup
    <3>5. \A x \in Groups : HasCategory(x)'
      BY <2>2, <3>1, <3>2, <3>3 DEF HasCategory, Assumption
    <3> QED
      BY <1>2, <3>4, <3>5, WholeKept DEF Whole
  <2>5. CASE client[c].op # "category_add"
    <3>1. group' = [group EXCEPT ![g] = NewRow(group[g], None)] /\ UNCHANGED category
      BY <1>9, <2>2, <2>5 DEF InsertsRow
    <3>2. group'[g] # None /\ \A x \in Groups : x # g => group'[x] = group[x]
      BY <2>3, <3>1 DEF Types
    <3>3. Whole
      BY <2>1, <2>5, WholeUnlessLeft DEF Inserts
    <3>4. category[k] # None
      BY <2>1, <2>2, <2>5 DEF RowsInv, RowsChecked, Inserts, RowAdditions
    <3>5. \A u \in Users : HasGroup(u)'
      BY <2>1, <3>2, <3>3 DEF Whole, HasGroup, Assumption
    <3>6. \A x \in Groups : HasCategory(x)'
      BY <2>2, <3>1, <3>2, <3>3, <3>4 DEF Whole, HasCategory
    <3> QED
      BY <1>2, <3>5, <3>6, WholeKept DEF Whole
  <2> QED
    BY <2>4, <2>5
<1> QED
  BY <1>4, <1>5, <1>6, <1>7, <1>8, <1>9

LEMMA RowsStep ==
    ASSUME Assumption, OneClient, Types, RowsInv, [Next]_vars
    PROVE  RowsInv'
<1>1. CASE UNCHANGED vars \/ Others
  <2>1. UNCHANGED <<rows, client>>
    BY <1>1, OthersWrite, TemplateMade DEF vars, rows, Others, Creates, UserDoes
  <2> QED
    BY <2>1 DEF RowsInv, HasGroup, HasCategory, Clears, Inserts, Lists, RowsListed, RowsChecked, RowsClosed,
       RowsFirst, NoRows, rows
<1>2. ASSUME NEW c \in Clients, Asks(c) \/ GoesOn(c) PROVE RowsInv'
  BY <1>2, AsksRows, ReadsOwnRows, ReadsDerivedRows, DeletesRowRows, DeletesDomainRows, SawRows, EndsRows DEF GoesOn
<1> QED
  BY <1>1, <1>2 DEF Next, Others

----------------------------------------------------------------------------
(* No limit of a group is above that of its category.                      *)

Nested(g) ==
    group[g] # None /\ category[GroupCategory[g]] # None =>
        LET above == category[GroupCategory[g]].limit IN
        above # None /\ group[g].limit # None => group[g].limit <= above

\* A limit of a category is written before those of its groups, and one of a
\* group is compared before it is written.
Propagates(c) == client[c].pc = "second" /\ client[c].op = "category_limit_propagate"
Compared(c) == client[c].pc = "second" /\ client[c].op = "group_limit"

Propagated(c) ==
    Propagates(c) /\ category[client[c].id] # None => category[client[c].id].limit = client[c].value
Fitting(c) ==
    Compared(c) /\ category[GroupCategory[client[c].id]] # None =>
        LET above == category[GroupCategory[client[c].id]].limit IN
        above # None /\ client[c].value # None => client[c].value <= above

NestInv ==
    /\ \A g \in Groups : Nested(g) \/ \E c \in Clients : Propagates(c) /\ client[c].id = GroupCategory[g]
    /\ \A c \in Clients : Propagated(c) /\ Fitting(c) /\ client[c].op # "category_limit"

LEMMA NestInit == Assumption /\ Init => NestInv
<1> SUFFICES ASSUME Assumption, Init PROVE NestInv
  OBVIOUS
<1>1. \A g \in Groups : Nested(g)
  BY DEF Init, Nested, Assumption
<1>2. \A c \in Clients : client[c].pc = "idle" /\ client[c].op = None
  BY IdleKnows DEF Init
<1> QED
  BY <1>1, <1>2, NoneIsNoOp DEF NestInv, Propagated, Fitting, Propagates, Compared

\* Rows stay, go, or get a limit that is none.
NoLimits ==
    /\ \A k \in Categories : category'[k] \in {category[k], None} \/ category'[k].limit = None
    /\ \A g \in Groups : group'[g] \in {group[g], None} \/ group'[g].limit = None

LEMMA NestedKept ==
    ASSUME Assumption, NoLimits, NEW g \in Groups, Nested(g)
    PROVE  Nested(g)'
<1>1. GroupCategory[g] \in Categories
  BY DEF Assumption
<1>2. category'[GroupCategory[g]] \in {category[GroupCategory[g]], None} \/ category'[GroupCategory[g]].limit = None
  BY <1>1 DEF NoLimits
<1>3. group'[g] \in {group[g], None} \/ group'[g].limit = None
  BY DEF NoLimits
<1> QED
  BY <1>2, <1>3 DEF Nested

\* A row that is inserted has no limit, and one that is there stays.
LEMMA NewRowLimits ==
    ASSUME Types, NEW k \in Categories, NEW g \in Groups,
           \/ category' = [category EXCEPT ![k] = NewRow(category[k], None)] /\ group' = group
           \/ group' = [group EXCEPT ![g] = NewRow(group[g], None)] /\ category' = category
    PROVE  NoLimits
<1>1. \A row : NewRow(row, None) = row \/ NewRow(row, None).limit = None
  BY DEF NewRow
<1> QED
  BY <1>1 DEF Types, NoLimits

\* What is asked for, other than to change or bring limits.
LEMMA AsksNoLimit ==
    ASSUME Assumption, Types, NEW c \in Clients, Asks(c),
           ~(\E g \in Groups, limit \in Limits \cup {None} : GroupLimit(c, g, limit)),
           ~(\E g \in Groups : CategoryCreate(c, g)),
           ~(\E k \in Categories, op \in {"category_limit", "category_limit_propagate"},
                limit \in Limits \cup {None} : CategoryLimit(c, op, k, limit))
    PROVE  NoLimits /\ (UNCHANGED client \/ client'[c].op \notin LimitUpdates) /\ client[c].pc = "idle"
<1> DEFINE Quiet == client'[c].op \notin LimitUpdates /\ client[c].pc = "idle"
<1>1. ASSUME NEW op, NEW id, DeletionBegins(c, op, id), op \in Deletions PROVE NoLimits /\ Quiet
  <2>1. UNCHANGED rows /\ client'[c].op = op /\ client[c].pc = "idle"
    BY <1>1 DEF DeletionBegins, Begins, Idle, Types
  <2> QED
    BY <1>1, <2>1 DEF NoLimits, rows, Deletions, LimitUpdates
<1>2. ASSUME NEW op, NEW us, NEW g, AddsUsers(c, op, us, g), op \in Additions PROVE NoLimits /\ Quiet
  <2>1. PICK todo : todo = <<{RowItem("user", u) : u \in us}>>
    OBVIOUS
  <2>2. UNCHANGED rows /\ client'[c].op = op /\ client[c].pc = "idle"
    BY <1>2, <2>1 DEF AddsUsers, Begins, Idle, Types
  <2> QED
    BY <1>2, <2>2 DEF NoLimits, rows, Additions, Registrations, LimitUpdates
<1>3. ASSUME NEW op, NEW g, RowBegins(c, op, g), op \in RowAdditions PROVE Quiet
  <2>1. client'[c].op = op /\ client[c].pc = "idle"
    BY <1>3 DEF RowBegins, Begins, Idle, Types
  <2> QED
    BY <1>3, <2>1 DEF RowAdditions, LimitUpdates
<1>4. CASE \E u \in Users : UserDelete(c, u) \/ ApiUserDelete(c, u)
  BY <1>1, <1>4 DEF UserDelete, ApiUserDelete, Deletions
<1>5. CASE \E u \in Users : Toggles(c, u)
  <2>1. PICK u \in Users : Toggles(c, u)
    BY <1>5
  <2>2. PICK active : active = ~user[u].active
    OBVIOUS
  <2>3. Begins(c, "toggle", [Idle EXCEPT !.pc = "second", !.id = u, !.active = active]) /\ UNCHANGED rows
    BY <2>1, <2>2 DEF Toggles
  <2>4. client'[c].op = "toggle" /\ client[c].pc = "idle"
    BY <2>3 DEF Begins, Idle, Types
  <2> QED
    BY <2>3, <2>4 DEF NoLimits, rows, LimitUpdates
<1>6. CASE \E u \in Users : (\E m \in Managers : UserAdd(c, u, m)) \/ ApiUserInsert(c, u) \/ Register(c, u) \/ AutoRegister(c, u)
  BY <1>2, <1>6 DEF UserAdd, ApiUserInsert, Register, AutoRegister, Additions, Registrations
<1>7. CASE \E g \in Groups : \E us \in SUBSET Users, m \in Managers : BulkUsersAdd(c, us, g, m)
  BY <1>2, <1>7 DEF BulkUsersAdd, Additions, Registrations
<1>8. CASE \E g \in Groups : GroupDelete(c, g)
  BY <1>1, <1>8 DEF GroupDelete, Deletions
<1>9. CASE \E g \in Groups : GroupAdd(c, g) \/ GroupCreate(c, g) \/ CategoryAdd(c, g)
  <2>1. PICK g \in Groups : GroupAdd(c, g) \/ GroupCreate(c, g) \/ CategoryAdd(c, g)
    BY <1>9
  <2>2. Quiet
    BY <1>3, <2>1 DEF GroupAdd, GroupCreate, CategoryAdd, RowAdditions
  <2>3. GroupCategory[g] \in Categories
    BY DEF Assumption
  <2>4. CASE GroupAdd(c, g) \/ GroupCreate(c, g)
    BY <2>2, <2>4 DEF GroupAdd, GroupCreate, NoLimits
  <2>5. CASE CategoryAdd(c, g)
    BY <2>2, <2>3, <2>5, NewRowLimits DEF CategoryAdd
  <2> QED
    BY <2>1, <2>4, <2>5
<1>10. CASE \E g \in Groups : ApiGroupDelete(c, g)
  <2>1. PICK g \in Groups : group' = [group EXCEPT ![g] = None] /\ UNCHANGED <<category, client>> /\ client[c].pc = "idle"
    BY <1>10 DEF ApiGroupDelete
  <2> QED
    BY <2>1 DEF NoLimits, Types
<1>11. CASE \E k \in Categories : ApiCategoryDelete(c, k)
  <2>1. PICK k \in Categories :
            /\ group' = [g \in Groups |-> IF GroupCategory[g] = k THEN None ELSE group[g]]
            /\ category' = [category EXCEPT ![k] = None] /\ UNCHANGED client /\ client[c].pc = "idle"
    BY <1>11 DEF ApiCategoryDelete
  <2> QED
    BY <2>1 DEF NoLimits, Types
<1>12. CASE \E k \in Categories : CategoryDelete(c, k)
  BY <1>1, <1>12 DEF CategoryDelete, Deletions
<1>13. CASE \E t \in Domains : TemplateDelete(c, t)
  BY <1>1, <1>13 DEF TemplateDelete, Deletions
<1> QED
  BY <1>4, <1>5, <1>6, <1>7, <1>8, <1>9, <1>10, <1>11, <1>12, <1>13 DEF Asks

\* What goes on, other than a change of limits, has written no limit.
LEMMA GoesOnNoLimit ==
    ASSUME Assumption, Types, NEW c \in Clients, GoesOn(c), ~UpdatesGroups(c)
    PROVE  NoLimits /\ ~Propagates(c)
<1>1. CASE ReadsOwn(c) \/ ReadsDerived(c) \/ DeletesDomain(c) \/ SawStopped(c) \/ SawDeleted(c) \/ TimesOut(c)
  <2>1. UNCHANGED <<category, group>>
    BY <1>1 DEF ReadsOwn, ReadsDerived, DeletesDomain, SawStopped, SawDeleted, TimesOut, rows
  <2>2. client[c].pc # "second"
    BY <1>1 DEF ReadsOwn, ReadsDerived, DeletesDomain, SawStopped, SawDeleted, TimesOut
  <2> QED
    BY <2>1, <2>2 DEF NoLimits, Propagates
<1>2. CASE DeletesRow(c)
  <2>1. client[c].pc # "second"
    BY <1>2 DEF DeletesRow
  <2>2. \E i : /\ category' = (IF i.kind = "category" THEN [category EXCEPT ![i.id] = None] ELSE category)
               /\ group' = (IF i.kind = "group" THEN [group EXCEPT ![i.id] = None] ELSE group)
    BY <1>2 DEF DeletesRow
  <2> QED
    BY <2>1, <2>2 DEF NoLimits, Propagates, Types
<1>3. CASE Finishes(c) \/ InsertsUsers(c) \/ TogglesDesktops(c) \/ TogglesUser(c)
  <2>1. UNCHANGED <<category, group>>
    BY <1>3 DEF Finishes, InsertsUsers, TogglesDesktops, TogglesUser, rows
  <2>2. client[c].pc # "second" \/ client[c].op \in Additions \cup {"toggle"}
    BY <1>3 DEF Finishes, InsertsUsers, TogglesDesktops, TogglesUser
  <2> QED
    BY <2>1, <2>2 DEF NoLimits, Propagates, Additions, Registrations
<1>4. CASE InsertsRow(c)
  <2>1. client[c].op \in RowAdditions
    BY <1>4 DEF InsertsRow
  <2>2. client[c] \in KnowingClient
    BY DEF Types
  <2>3. PICK g \in Groups, k \in Categories : g = client[c].id /\ k = GroupCategory[client[c].id]
    BY <2>1, <2>2 DEF KnowingClient, Knows, Assumption
  <2>4. \/ category' = [category EXCEPT ![k] = NewRow(category[k], None)] /\ group' = group
        \/ group' = [group EXCEPT ![g] = NewRow(group[g], None)] /\ category' = category
    BY <1>4, <2>3 DEF InsertsRow
  <2>5. NoLimits
    BY <2>4, NewRowLimits
  <2> QED
    BY <2>1, <2>5 DEF Propagates, RowAdditions
<1> QED
  BY <1>1, <1>2, <1>3, <1>4 DEF GoesOn

LEMMA NestStep ==
    ASSUME Assumption, OneClient, "category_limit" \notin Ops, Types, RowsInv, NestInv, [Next]_vars
    PROVE  NestInv'
<1>1. CASE UNCHANGED vars \/ Others
  <2>1. UNCHANGED <<rows, client>>
    BY <1>1, OthersWrite, TemplateMade DEF vars, rows, Others, Creates, UserDoes
  <2> QED
    BY <2>1 DEF NestInv, Nested, Propagated, Fitting, Propagates, Compared, rows
<1>2. ASSUME NEW c \in Clients, GoesOn(c), ~UpdatesGroups(c) PROVE NestInv'
  <2>1. NoLimits /\ ~Propagates(c)
    BY <1>2, GoesOnNoLimit
  <2>2. \A g \in Groups : Nested(g)'
    BY <2>1, NestedKept DEF NestInv, OneClient
  <2>3. client'[c].pc # "second"
    BY <1>2, NotSecond
  <2>4. client'[c].op # "category_limit"
    <3>1. client[c].op # "category_limit"
      BY DEF NestInv
    <3>2. client'[c].op = client[c].op \/ client'[c].op = None
      BY <1>2, OpStays
    <3> QED
      BY <3>1, <3>2, NoneIsNoOp
  <2> QED
    BY <2>2, <2>3, <2>4 DEF NestInv, Propagated, Fitting, Propagates, Compared, OneClient
<1>3. ASSUME NEW c \in Clients, UpdatesGroups(c) PROVE NestInv'
  <2>1. client[c] \in Client /\ Knows(client[c]) /\ client[c].op \in LimitUpdates /\ client[c].pc = "second"
        /\ UNCHANGED category
    BY <1>3 DEF Types, KnowingClient, UpdatesGroups
  <2>2. client' = [client EXCEPT ![c] = Idle]
    BY <1>3, Ends
  <2>3. client[c].op \in {"group_limit", "category_limit_propagate"}
    BY <2>1 DEF NestInv, LimitUpdates
  <2>4. ASSUME NEW g \in Groups PROVE Nested(g)'
    <3>1. PICK gs : /\ gs = IF client[c].op = "group_limit" THEN {client[c].id}
                            ELSE {x \in Groups : GroupCategory[x] = client[c].id}
                    /\ group' = [x \in Groups |-> IF x \in gs /\ group[x] # None
                                     THEN [group[x] EXCEPT !.limit = client[c].value] ELSE group[x]]
      BY <1>3, <2>3 DEF UpdatesGroups
    <3>2. CASE g \in gs /\ group[g] # None
      <4>1. group'[g].limit = client[c].value
        BY <3>1, <3>2 DEF Types, Limited
      <4>2. CASE client[c].op = "group_limit"
        <5>1. Fitting(c) /\ Compared(c) /\ g = client[c].id
          BY <2>1, <3>1, <3>2, <4>2 DEF NestInv, Compared
        <5> QED
          BY <2>1, <4>1, <5>1 DEF Fitting, Nested
      <4>3. CASE client[c].op = "category_limit_propagate"
        <5>1. Propagated(c) /\ Propagates(c) /\ GroupCategory[g] = client[c].id
          BY <2>1, <3>1, <3>2, <4>3 DEF NestInv, Propagates
        <5>2. category[GroupCategory[g]] # None => category[GroupCategory[g]].limit = client[c].value
          BY <5>1 DEF Propagated
        <5>3. client[c].value # None => client[c].value \in Nat
          BY <2>1 DEF Client, Assumption
        <5> QED
          BY <2>1, <4>1, <5>2, <5>3 DEF Nested
      <4> QED
        BY <2>3, <4>2, <4>3
    <3>3. CASE ~(g \in gs /\ group[g] # None)
      <4>1. group'[g] = group[g]
        BY <3>1, <3>3
      <4>2. group[g] # None => ~(Propagates(c) /\ client[c].id = GroupCategory[g])
        BY <3>1, <3>3 DEF Propagates
      <4>3. Nested(g)
        <5>1. CASE group[g] = None
          BY <5>1 DEF Nested
        <5>2. CASE group[g] # None
          BY <4>2, <5>2 DEF NestInv, OneClient
        <5> QED
          BY <5>1, <5>2
      <4> QED
        BY <2>1, <4>1, <4>3 DEF Nested
    <3> QED
      BY <3>2, <3>3
  <2>5. client'[c].pc = "idle" /\ client'[c].op = None
    BY <2>2, IdleKnows DEF Types
  <2> QED
    BY <2>4, <2>5, NoneIsNoOp DEF NestInv, Propagated, Fitting, Propagates, Compared, OneClient
<1>4. ASSUME NEW c \in Clients, NEW g \in Groups, NEW limit \in Limits \cup {None}, GroupLimit(c, g, limit)
      PROVE  NestInv'
  <2>1. PICK above : above = category[GroupCategory[g]].limit
    OBVIOUS
  <2>2. PICK value : value = IF limit = None THEN None ELSE Clamped(limit, above)
    OBVIOUS
  <2>3. Begins(c, "group_limit", [Idle EXCEPT !.pc = "second", !.id = g, !.value = value]) /\ UNCHANGED <<category, group>>
        /\ (limit = None => above = None) /\ above \in Limits \cup {None}
    BY <1>4, <2>1, <2>2 DEF GroupLimit, rows, Types, Limited, Assumption
  <2>4. client'[c].pc = "second" /\ client'[c].op = "group_limit" /\ client'[c].id = g /\ client'[c].value = value
        /\ client[c].pc = "idle"
    BY <2>3 DEF Begins, Idle, Types
  <2>5. above # None /\ value # None => value <= above
    <3>1. Limits \subseteq Nat
      BY DEF Assumption
    <3> QED
      BY <2>2, <2>3, <3>1 DEF Clamped
  <2>6. Fitting(c)'
    BY <2>1, <2>3, <2>4, <2>5 DEF Fitting
  <2>7. \A x \in Groups : Nested(x)
    BY <2>4 DEF NestInv, OneClient, Propagates
  <2>8. \A x \in Groups : Nested(x)'
    BY <2>3, <2>7 DEF Nested
  <2> QED
    BY <2>4, <2>6, <2>8 DEF NestInv, Propagated, Propagates, OneClient
<1>5. ASSUME NEW c \in Clients, NEW k \in Categories, NEW op \in {"category_limit", "category_limit_propagate"},
             NEW limit \in Limits \cup {None}, CategoryLimit(c, op, k, limit)
      PROVE  NestInv'
  <2>1. Begins(c, op, [Idle EXCEPT !.pc = "second", !.id = k, !.value = limit]) /\ UNCHANGED group
        /\ category' = [category EXCEPT ![k] = [category[k] EXCEPT !.limit = limit]] /\ category[k] # None
    BY <1>5 DEF CategoryLimit
  <2>2. op = "category_limit_propagate"
    BY <2>1 DEF Begins, Does
  <2>3. client'[c].pc = "second" /\ client'[c].op = op /\ client'[c].id = k /\ client'[c].value = limit
        /\ client[c].pc = "idle"
    BY <2>1 DEF Begins, Idle, Types
  <2>4. category'[k].limit = limit /\ \A x \in Categories : x # k => category'[x] = category[x]
    BY <2>1 DEF Types, Limited
  <2>5. \A g \in Groups : Nested(g)
    BY <2>3 DEF NestInv, OneClient, Propagates
  <2>6. \A g \in Groups : GroupCategory[g] # k => Nested(g)'
    <3>1. \A g \in Groups : GroupCategory[g] \in Categories
      BY DEF Assumption
    <3> QED
      BY <2>1, <2>4, <2>5, <3>1 DEF Nested
  <2>7. Propagated(c)' /\ Propagates(c)'
    BY <2>2, <2>3, <2>4 DEF Propagated, Propagates
  <2>8. \A g \in Groups : Nested(g)' \/ (Propagates(c)' /\ client'[c].id = GroupCategory[g])
    BY <2>3, <2>6, <2>7
  <2>9. Fitting(c)' /\ client'[c].op # "category_limit"
    BY <2>2, <2>3 DEF Fitting, Compared
  <2> QED
    BY <2>7, <2>8, <2>9 DEF NestInv, OneClient
<1>6. ASSUME NEW c \in Clients, Asks(c),
             ~(\E g \in Groups, limit \in Limits \cup {None} : GroupLimit(c, g, limit)),
             ~(\E g \in Groups : CategoryCreate(c, g)),
             ~(\E k \in Categories, op \in {"category_limit", "category_limit_propagate"},
                  limit \in Limits \cup {None} : CategoryLimit(c, op, k, limit))
      PROVE  NestInv'
  <2>1. NoLimits /\ (UNCHANGED client \/ client'[c].op \notin LimitUpdates) /\ client[c].pc = "idle"
    BY <1>6, AsksNoLimit
  <2>2. \A g \in Groups : Nested(g)'
    BY <2>1, NestedKept DEF NestInv, OneClient, Propagates
  <2>3. ~Propagates(c)' /\ ~Compared(c)' /\ client'[c].op # "category_limit"
    BY <2>1 DEF NestInv, Propagates, Compared, LimitUpdates
  <2> QED
    BY <2>2, <2>3 DEF NestInv, Propagated, Fitting, OneClient
<1>7. ASSUME NEW c \in Clients, NEW g \in Groups, CategoryCreate(c, g) PROVE NestInv'
  <2>1. PICK k \in Categories, limit \in Limits \cup {None} :
            /\ k = GroupCategory[g]
            /\ RowBegins(c, "api_category_add", g) /\ UNCHANGED group
            /\ category' = [category EXCEPT ![k] = NewRow(category[k], limit)]
    BY <1>7 DEF CategoryCreate, Assumption
  <2>2. client'[c].pc = "second" /\ client'[c].op = "api_category_add" /\ client[c].pc = "idle"
    BY <2>1 DEF RowBegins, Begins, Idle, Types
  <2>3. Whole
    BY <2>2, WholeUnlessLeft DEF Inserts
  <2>4. \A x \in Groups : Nested(x)
    BY <2>2 DEF NestInv, OneClient, Propagates
  <2>5. \A x \in Groups : category'[GroupCategory[x]] = category[GroupCategory[x]] \/ group[x] = None
    <3>1. \A x \in Groups : GroupCategory[x] \in Categories
      BY DEF Assumption
    <3>2. CASE category[k] = None
      BY <2>1, <2>3, <3>1, <3>2 DEF Whole, HasCategory, Types
    <3>3. CASE category[k] # None
      BY <2>1, <3>1, <3>3 DEF NewRow, Types
    <3> QED
      BY <3>2, <3>3
  <2>6. \A x \in Groups : Nested(x)'
    BY <2>1, <2>4, <2>5 DEF Nested
  <2> QED
    BY <2>2, <2>6 DEF NestInv, Propagated, Fitting, Propagates, Compared, OneClient
<1> QED
  BY <1>1, <1>2, <1>3, <1>4, <1>5, <1>6, <1>7 DEF Next, Others

----------------------------------------------------------------------------
(* A template stays while something is made from it.                       *)

\* The engine is not late, a deletion begins when it has no work, and nobody
\* uses desktops meanwhile.
Undisturbed == ~Slow /\ Settled /\ UserOps \subseteq Waits

Unsettled == {"Creating", "Stopping", "Deleting"}
Removes(c) == client[c].pc \in {"own", "derived", "items", "stopping", "deleting"}
Empties(c) == client[c].pc \in {"items", "stopping", "deleting"}
WaitsFor(c, d) == client[c].pc \in {"stopping", "deleting"} /\ client[c].now.id = d

\* What a desktop is based on is a template, with all that this is based on.
BasedOnTemplates ==
    \A d \in Domains : domain[d] # None =>
        \A p \in domain[d].parents : domain[p] # None =>
            domain[p].kind = "template" /\ domain[p].parents \subseteq domain[d].parents

BasesThere == \A d \in Domains : domain[d] # None => \A p \in domain[d].parents : domain[p] # None

\* The engine works for a request that deletes, or while there is none.
WorkIsAskedFor ==
    \A d \in Domains : domain[d] # None =>
        /\ domain[d].status \in Unsettled => (\A c \in Clients : ~Removes(c)) \/ \E c \in Clients : WaitsFor(c, d)
        /\ domain[d].status = "Deleting" /\ domain[d].kind # "desktop" => \E c \in Clients : WaitsFor(c, d)

\* What is listed is there as it was found, once, and with all that derives from it.
ListStands(c) ==
    client[c].pc \in {"derived", "items", "stopping", "deleting"} =>
        \A k \in 1 .. Len(client[c].todo) : \A i \in client[c].todo[k] : i.kind = "domain" =>
            domain[i.id] # None /\ i.status = domain[i.id].status /\ ~WaitsFor(c, i.id)
ListsOnce(c) ==
    Empties(c) => \A j, k \in 1 .. Len(client[c].todo) : \A i \in client[c].todo[j] : i \in client[c].todo[k] => j = k
ListsClosed(c) ==
    Empties(c) => \A d \in Domains : domain[d] # None =>
        \A p \in domain[d].parents : domain[p] = None \/ Listed(client[c], p) => Listed(client[c], d)

\* What is waited for comes.
WaitHolds(c) ==
    client[c].pc \in {"stopping", "deleting"} =>
        IF client[c].pc = "deleting" /\ saw[c] THEN domain[client[c].now.id] = None
        ELSE /\ domain[client[c].now.id] # None
             /\ domain[client[c].now.id].status =
                    IF saw[c] THEN "Stopped" ELSE IF client[c].pc = "stopping" THEN "Stopping" ELSE "Deleting"

ParentsInv ==
    /\ BasedOnTemplates /\ WorkIsAskedFor
    /\ (\A c \in Clients : ~Empties(c)) => BasesThere
    /\ \A c \in Clients : ListStands(c) /\ ListsOnce(c) /\ ListsClosed(c) /\ WaitHolds(c)


LEMMA ParentsInit == Assumption /\ Init => ParentsInv
<1> SUFFICES ASSUME Assumption, Init PROVE ParentsInv
  OBVIOUS
<1>1. \A c \in Clients : client[c].pc = "idle"
  BY IdleKnows DEF Init
<1>2. \A d \in Domains : domain[d] = None
  BY DEF Init
<1>3. BasedOnTemplates /\ WorkIsAskedFor /\ BasesThere
  BY <1>2 DEF BasedOnTemplates, WorkIsAskedFor, BasesThere
<1> QED
  BY <1>1, <1>3 DEF ParentsInv, ListStands, ListsOnce, ListsClosed, WaitHolds, Empties

\* Where nothing is deleted.
LEMMA NoneRemoves ==
    ASSUME BasedOnTemplates', WorkIsAskedFor', BasesThere', \A c \in Clients : ~Removes(c)'
    PROVE  ParentsInv'
BY DEF ParentsInv, ListStands, ListsOnce, ListsClosed, WaitHolds, Empties, Removes

\* The desktops are those that were, and so is what they are based on.
SameDomains ==
    \A d \in Domains :
        /\ domain'[d] = None <=> domain[d] = None
        /\ domain[d] # None => domain'[d].kind = domain[d].kind /\ domain'[d].parents = domain[d].parents

LEMMA SameBases ==
    ASSUME Types, SameDomains
    PROVE  (BasedOnTemplates => BasedOnTemplates') /\ (BasesThere => BasesThere')
<1>1. \A d \in Domains : domain[d] # None => domain[d].parents \subseteq Domains
  BY DEF Types, Domain
<1>2. ASSUME BasedOnTemplates, NEW d \in Domains, domain'[d] # None, NEW p \in domain'[d].parents, domain'[p] # None
      PROVE  domain'[p].kind = "template" /\ domain'[p].parents \subseteq domain'[d].parents
  <2>1. domain[d] # None /\ domain'[d].parents = domain[d].parents
    BY <1>2 DEF SameDomains
  <2>2. p \in Domains /\ p \in domain[d].parents
    BY <1>1, <1>2, <2>1
  <2>3. domain[p] # None /\ domain'[p].kind = domain[p].kind /\ domain'[p].parents = domain[p].parents
    BY <1>2, <2>2 DEF SameDomains
  <2> QED
    BY <1>2, <2>1, <2>2, <2>3 DEF BasedOnTemplates
<1>3. ASSUME BasesThere, NEW d \in Domains, domain'[d] # None, NEW p \in domain'[d].parents
      PROVE  domain'[p] # None
  <2>1. domain[d] # None /\ domain'[d].parents = domain[d].parents
    BY <1>3 DEF SameDomains
  <2>2. p \in Domains /\ p \in domain[d].parents
    BY <1>1, <1>3, <2>1
  <2> QED
    BY <1>3, <2>1, <2>2 DEF BasesThere, SameDomains
<1> QED
  BY <1>2, <1>3 DEF BasedOnTemplates, BasesThere

\* A status is written.
LEMMA StatusAlone ==
    ASSUME Assumption, Types, NEW d \in Domains, domain[d] # None, NEW status \in Statuses,
           domain' = [domain EXCEPT ![d].status = status]
    PROVE  /\ SameDomains /\ domain'[d].status = status
           /\ \A e \in Domains : e # d => domain'[e] = domain[e]
<1>1. domain[d] \in Domain /\ domain \in [Domains -> Domain \cup {None}]
  BY DEF Types
<1>2. PICK new : new = [domain[d] EXCEPT !.status = status]
  OBVIOUS
<1>3. new \in Domain /\ new.status = status /\ new.kind = domain[d].kind /\ new.parents = domain[d].parents
  BY <1>1, <1>2 DEF Domain
<1>4. new # None
  BY <1>3 DEF Assumption
<1>5. domain' = [domain EXCEPT ![d] = new]
  BY <1>2
<1>6. domain'[d] = new /\ \A e \in Domains : e # d => domain'[e] = domain[e]
  BY <1>1, <1>5
<1> QED
  BY <1>3, <1>4, <1>6 DEF SameDomains

\* A row goes.
LEMMA RowGoes ==
    ASSUME Types, NEW d \in Domains, domain' = [domain EXCEPT ![d] = None]
    PROVE  domain'[d] = None /\ \A e \in Domains : e # d => domain'[e] = domain[e]
BY DEF Types

\* What users do they do while nothing is deleted.
LEMMA UsersWait ==
    ASSUME Assumption, Types, Undisturbed, NEW op \in UserOps, UserDoes(op)
    PROVE  UNCHANGED client /\ \A c \in Clients : ~Removes(c)
<1>1. ~DeletionRuns /\ UNCHANGED client
  BY DEF UserDoes, Undisturbed
<1>2. \A c \in Clients : client[c].op \notin Deletions
  BY <1>1 DEF DeletionRuns
<1> QED
  BY <1>1, <1>2 DEF Removes, Types, KnowingClient, Knows


\* The engine ends what a user asked for, or what a request waits for.
LEMMA EngineParents ==
    ASSUME Assumption, OneClient, Types, ParentsInv, NEW d \in Domains, Engine(d)
    PROVE  ParentsInv'
<1>1. BasedOnTemplates /\ WorkIsAskedFor /\ ((\A c \in Clients : ~Removes(c)) => BasesThere)
  BY DEF ParentsInv, Empties, Removes
<1>2. \A e \in Domains : domain[e] # None => domain[e] \in Domain /\ domain[e].parents \subseteq Domains
  BY DEF Types, Domain
<1>3. domain[d] # None /\ domain[d].status \in Unsettled /\ UNCHANGED client
  BY DEF Engine, Unsettled
<1>4. \/ domain[d].status \in {"Creating", "Stopping"} /\ domain' = [domain EXCEPT ![d].status = "Stopped"]
         /\ saw' = [c \in Clients |-> saw[c] \/ SeesWhat(c, d, [domain[d] EXCEPT !.status = "Stopped"].status)]
      \/ domain[d].status = "Deleting" /\ domain' = [domain EXCEPT ![d] = None]
         /\ saw' = [c \in Clients |-> saw[c] \/ SeesWhat(c, d, None)]
  <2>1. [domain[d] EXCEPT !.status = "Stopped"] # None
    BY <1>3, StatusTypes DEF Assumption, Statuses
  <2> QED
    BY <2>1 DEF Engine, PutStatus, Put
<1>5. "Stopped" \in Statuses /\ "Stopped" \notin Unsettled
  BY DEF Statuses, Unsettled
<1>6. \A e \in Domains : e # d => domain'[e] = domain[e]
  BY <1>3, <1>4, <1>5, StatusAlone, RowGoes
<1>7. domain'[d] = None \/ (SameDomains /\ domain'[d].status = "Stopped")
  BY <1>3, <1>4, <1>5, StatusAlone, RowGoes
<1>8. BasedOnTemplates'
  <2>1. CASE SameDomains
    BY <1>1, <2>1, SameBases
  <2>2. CASE domain'[d] = None
    BY <1>1, <1>2, <1>6, <2>2 DEF BasedOnTemplates
  <2> QED
    BY <1>7, <2>1, <2>2
<1>9. WorkIsAskedFor'
  <2>1. ASSUME NEW e \in Domains, domain'[e] # None, domain'[e].status \in Unsettled
        PROVE  e # d /\ domain'[e] = domain[e]
    BY <1>5, <1>6, <1>7, <2>1
  <2>2. "Deleting" \in Unsettled
    BY DEF Unsettled
  <2> QED
    BY <1>1, <1>3, <2>1, <2>2 DEF WorkIsAskedFor, WaitsFor, Removes
<1>10. CASE \A c \in Clients : ~Removes(c)
  <2>1. domain'[d] = None => domain[d].kind = "desktop"
    BY <1>1, <1>3, <1>4, <1>5, <1>10, StatusAlone DEF WorkIsAskedFor, WaitsFor, Removes, SameDomains
  <2>2. BasesThere
    BY <1>1, <1>10
  <2>3. domain'[d] = None =>
            \A e \in Domains : domain[e] # None => \A p \in domain[e].parents : p \in Domains /\ p # d /\ domain[p] # None
    BY <1>1, <1>2, <2>1, <2>2 DEF BasesThere, BasedOnTemplates
  <2>4. BasesThere'
    <3>1. CASE SameDomains
      BY <2>2, <3>1, SameBases
    <3>2. CASE domain'[d] = None
      BY <1>6, <2>3, <3>2 DEF BasesThere
    <3> QED
      BY <1>7, <3>1, <3>2
  <2>5. \A c \in Clients : ~Removes(c)'
    BY <1>3, <1>10 DEF Removes
  <2> QED
    BY <1>8, <1>9, <2>4, <2>5, NoneRemoves
<1>11. ASSUME NEW c \in Clients, Removes(c) PROVE ParentsInv'
  <2>1. WaitsFor(c, d)
    BY <1>1, <1>3, <1>11 DEF WorkIsAskedFor, OneClient
  <2>2. client[c].pc \in {"stopping", "deleting"} /\ client[c].now.id = d /\ client[c].now # None
    BY <2>1 DEF WaitsFor, Types, KnowingClient, Knows, Found, Assumption
  <2>3. ListStands(c) /\ ListsOnce(c) /\ ListsClosed(c) /\ WaitHolds(c) /\ saw[c] \in BOOLEAN
    BY DEF ParentsInv, Types
  <2>4. ~saw[c] /\ domain[d].status = IF client[c].pc = "stopping" THEN "Stopping" ELSE "Deleting"
    BY <1>3, <1>5, <2>2, <2>3 DEF WaitHolds
  <2>5. WaitHolds(c)'
    <3>1. CASE client[c].pc = "stopping"
      <4>1. domain[d].status = "Stopping"
        BY <2>4, <3>1
      <4>2. domain' = [domain EXCEPT ![d].status = "Stopped"]
            /\ saw'[c] = (saw[c] \/ SeesWhat(c, d, [domain[d] EXCEPT !.status = "Stopped"].status))
        BY <1>4, <4>1
      <4>3. SameDomains /\ domain'[d].status = "Stopped" /\ [domain[d] EXCEPT !.status = "Stopped"].status = "Stopped"
        BY <1>3, <1>5, <4>2, StatusAlone, StatusTypes
      <4>4. saw'[c] = TRUE
        BY <2>2, <3>1, <4>2, <4>3 DEF SeesWhat
      <4>5. domain'[d] # None
        BY <1>3, <4>3 DEF SameDomains
      <4> QED
        BY <1>3, <2>2, <3>1, <4>3, <4>4, <4>5 DEF WaitHolds
    <3>2. CASE client[c].pc = "deleting"
      <4>1. domain[d].status = "Deleting"
        BY <2>4, <3>2
      <4>2. domain' = [domain EXCEPT ![d] = None] /\ saw'[c] = (saw[c] \/ SeesWhat(c, d, None))
        BY <1>4, <4>1
      <4>3. domain'[d] = None
        BY <4>2, RowGoes
      <4>4. saw'[c] = TRUE
        BY <2>2, <3>2, <4>2 DEF SeesWhat
      <4> QED
        BY <1>3, <2>2, <3>2, <4>3, <4>4 DEF WaitHolds
    <3> QED
      BY <2>2, <3>1, <3>2
  <2>6. PICK r : r = client[c]
    OBVIOUS
  <2>7. client'[c] = r /\ r.pc \in {"stopping", "deleting"} /\ r.now.id = d /\ r.todo \in Seq(SUBSET Found)
    BY <1>3, <2>2, <2>6 DEF Types, KnowingClient, Client
  <2>8. ListStands(c)'
    <3>1. ASSUME NEW k \in 1 .. Len(r.todo), NEW i \in r.todo[k], i.kind = "domain"
          PROVE  domain'[i.id] # None /\ i.status = domain'[i.id].status /\ i.id # d
      <4>1. domain[i.id] # None /\ i.status = domain[i.id].status /\ i.id # d
        BY <2>2, <2>3, <2>6, <3>1 DEF ListStands, WaitsFor
      <4>2. i.id \in Domains
        BY <2>7, <3>1 DEF Found
      <4> QED
        BY <1>6, <4>1, <4>2
    <3> QED
      BY <2>7, <3>1 DEF ListStands, WaitsFor
  <2>9. ListsOnce(c)'
    BY <2>3, <2>6, <2>7 DEF ListsOnce, Empties
  <2>10. ListsClosed(c)'
    <3>1. Listed(r, d) /\ \A e \in Domains : domain[e] # None =>
              \A p \in domain[e].parents : domain[p] = None \/ Listed(r, p) => Listed(r, e)
      BY <2>3, <2>6, <2>7 DEF ListsClosed, Empties, Listed
    <3>2. ASSUME NEW e \in Domains, domain'[e] # None, NEW p \in domain'[e].parents, domain'[p] = None \/ Listed(r, p)
          PROVE  Listed(r, e)
      <4>1. CASE e = d
        BY <3>1, <4>1
      <4>2. CASE e # d
        <5>1. domain[e] # None /\ p \in domain[e].parents /\ p \in Domains
          BY <1>2, <1>6, <3>2, <4>2
        <5>2. domain[p] = None \/ Listed(r, p)
          BY <1>6, <3>1, <3>2, <5>1
        <5> QED
          BY <3>1, <5>1, <5>2
      <4> QED
        BY <4>1, <4>2
    <3> QED
      BY <2>7, <3>2 DEF ListsClosed, Empties, Listed
  <2>11. ~(\A x \in Clients : ~Empties(x))'
    BY <2>7 DEF Empties
  <2> QED
    BY <1>8, <1>9, <2>5, <2>8, <2>9, <2>10, <2>11 DEF ParentsInv, OneClient
<1> QED
  BY <1>10, <1>11

LEMMA OthersParents ==
    ASSUME Assumption, OneClient, Types, Undisturbed, ParentsInv, Others
    PROVE  ParentsInv'
<1>1. BasedOnTemplates /\ WorkIsAskedFor /\ ((\A c \in Clients : ~Removes(c)) => BasesThere)
  BY DEF ParentsInv, Empties, Removes
<1>2. \A d \in Domains : domain[d] # None => domain[d] \in Domain /\ domain[d].parents \subseteq Domains
  BY DEF Types, Domain
<1>3. ASSUME NEW d \in Domains, Starts(d) \/ Stops(d) \/ Deletes(d) PROVE ParentsInv'
  <2>1. PICK op \in UserOps, status \in {"Started", "Failed", "Stopping", "Deleting"} :
            /\ UserDoes(op) /\ PutStatus(d, status) /\ domain[d] # None
            /\ status = "Deleting" => domain[d].kind = "desktop"
    <3>1. {"start", "stop", "delete"} \subseteq UserOps
      BY DEF UserOps
    <3>2. CASE Starts(d)
      BY <3>1, <3>2 DEF Starts
    <3>3. CASE Stops(d)
      BY <3>1, <3>3 DEF Stops
    <3>4. CASE Deletes(d)
      BY <3>1, <3>4 DEF Deletes
    <3> QED
      BY <1>3, <3>2, <3>3, <3>4
  <2>2. UNCHANGED client /\ \A c \in Clients : ~Removes(c)
    BY <2>1, UsersWait
  <2>3. domain' = [domain EXCEPT ![d].status = status] /\ status \in Statuses
    BY <2>1 DEF PutStatus, Put, Statuses
  <2>4. SameDomains /\ domain'[d].status = status /\ \A e \in Domains : e # d => domain'[e] = domain[e]
    BY <2>1, <2>3, StatusAlone
  <2>5. \A c \in Clients : ~Removes(c)'
    BY <2>2 DEF Removes
  <2>6. \A e \in Domains : domain'[e] # None /\ domain'[e].status = "Deleting" => domain'[e].kind = "desktop"
    <3>1. \A e \in Domains : domain[e] # None /\ domain[e].status = "Deleting" => domain[e].kind = "desktop"
      BY <1>1, <2>2 DEF WorkIsAskedFor, WaitsFor, Removes
    <3> QED
      BY <2>1, <2>4, <3>1 DEF SameDomains
  <2>7. WorkIsAskedFor'
    BY <2>5, <2>6 DEF WorkIsAskedFor
  <2>8. BasedOnTemplates' /\ BasesThere'
    BY <1>1, <2>2, <2>4, SameBases
  <2> QED
    BY <2>5, <2>7, <2>8, NoneRemoves
<1>4. ASSUME NEW u \in Users, NEW d \in Domains, NEW t \in Domains, Creates(u, d, t) PROVE ParentsInv'
  <2>1. PICK parents : parents = IF domain[t] # None THEN domain[t].parents \cup {t} ELSE {}
    OBVIOUS
  <2>2. PICK new : new = [kind |-> "desktop", user |-> u, status |-> "Creating", parents |-> parents]
    OBVIOUS
  <2>3. /\ domain[d] = None /\ UserDoes("create") /\ "create" \in UserOps
        /\ (domain[t] # None => domain[t].kind = "template")
        /\ domain' = [domain EXCEPT ![d] = new]
    BY <1>4, <2>1, <2>2 DEF Creates, Put, UserOps
  <2>4. UNCHANGED client /\ \A c \in Clients : ~Removes(c)
    BY <2>3, UsersWait
  <2>5. BasesThere
    BY <1>1, <2>4
  <2>6. domain'[d] = new /\ (\A e \in Domains : e # d => domain'[e] = domain[e])
        /\ new.kind = "desktop" /\ new.parents = parents
    BY <2>2, <2>3 DEF Types
  <2>7. \A p \in parents : p \in Domains /\ p # d /\ domain[p] # None /\ domain[p].kind = "template"
                           /\ domain[p].parents \subseteq parents
    <3>1. ASSUME NEW p \in parents
          PROVE  p \in Domains /\ domain[p] # None /\ domain[p].kind = "template" /\ domain[p].parents \subseteq parents
      <4>1. domain[t] # None /\ parents = domain[t].parents \cup {t}
        BY <2>1, <3>1
      <4>2. CASE p = t
        BY <2>3, <4>1, <4>2
      <4>3. CASE p \in domain[t].parents
        BY <1>1, <1>2, <2>5, <4>1, <4>3 DEF BasesThere, BasedOnTemplates
      <4> QED
        BY <3>1, <4>1, <4>2, <4>3
    <3> QED
      BY <2>3, <3>1
  <2>8. \A e \in Domains : e # d /\ domain[e] # None =>
            \A p \in domain[e].parents : p \in Domains /\ p # d /\ domain[p] # None
    BY <1>2, <2>3, <2>5 DEF BasesThere
  <2>9. BasesThere'
    BY <2>6, <2>7, <2>8 DEF BasesThere
  <2>10. BasedOnTemplates'
    BY <1>1, <2>6, <2>7, <2>8 DEF BasedOnTemplates
  <2>11. \A c \in Clients : ~Removes(c)'
    BY <2>4 DEF Removes
  <2>12. WorkIsAskedFor'
    <3>1. \A e \in Domains : domain[e] # None /\ domain[e].status = "Deleting" => domain[e].kind = "desktop"
      BY <1>1, <2>4 DEF WorkIsAskedFor, WaitsFor, Removes
    <3> QED
      BY <2>6, <2>11, <3>1 DEF WorkIsAskedFor
  <2> QED
    BY <2>9, <2>10, <2>11, <2>12, NoneRemoves
<1>5. ASSUME NEW d \in Domains, NEW t \in Domains, MakesTemplate(d, t) PROVE ParentsInv'
  <2>1. /\ d # t /\ domain[d] # None /\ domain[t] = None /\ domain[d].kind = "desktop" /\ UNCHANGED client
        /\ \A e \in Domains : e \notin {d, t} => domain'[e] = domain[e]
        /\ domain'[d].kind = "desktop" /\ domain'[d].parents = domain[d].parents \cup {t}
        /\ domain'[t].kind = "template" /\ domain'[t].parents = domain[d].parents /\ domain'[t] # None
        /\ domain'[d].status = "Stopped" /\ domain'[t].status = "Stopped"
    <3>1. domain[t] = None /\ domain[d].kind = "desktop"
      BY <1>5 DEF MakesTemplate
    <3>2. None \notin Domain
      BY DEF Assumption
    <3> QED
      BY <1>5, <3>1, <3>2, TemplateMade
  <2>2. \A c \in Clients : ~Removes(c)
    BY <1>5, UsersWait DEF MakesTemplate, UserOps
  <2>3. BasesThere
    BY <1>1, <2>2
  <2>4. \A e \in Domains : domain[e] # None => \A p \in domain[e].parents :
            /\ p \in Domains /\ domain[p] # None /\ p \notin {d, t} /\ domain'[p] = domain[p]
            /\ domain[p].kind = "template" /\ domain[p].parents \subseteq domain[e].parents
    <3>1. ASSUME NEW e \in Domains, domain[e] # None, NEW p \in domain[e].parents
          PROVE  /\ p \in Domains /\ domain[p] # None /\ domain[p].kind = "template"
                 /\ domain[p].parents \subseteq domain[e].parents
      BY <1>1, <1>2, <2>3, <3>1 DEF BasesThere, BasedOnTemplates
    <3>2. ASSUME NEW p \in Domains, domain[p] # None, domain[p].kind = "template" PROVE p \notin {d, t}
      BY <2>1, <3>2
    <3> QED
      BY <2>1, <3>1, <3>2
  <2>5. ASSUME NEW e \in Domains, domain'[e] # None, NEW p \in domain'[e].parents
        PROVE  domain'[p] # None /\ domain'[p].kind = "template" /\ domain'[p].parents \subseteq domain'[e].parents
    <3>1. CASE e = d /\ p = t
      BY <2>1, <3>1
    <3>2. CASE e = d /\ p # t
      BY <2>1, <2>4, <2>5, <3>2
    <3>3. CASE e = t
      BY <2>1, <2>4, <2>5, <3>3
    <3>4. CASE e \notin {d, t}
      BY <2>1, <2>4, <2>5, <3>4
    <3> QED
      BY <3>1, <3>2, <3>3, <3>4
  <2>6. BasesThere' /\ BasedOnTemplates'
    BY <2>5 DEF BasesThere, BasedOnTemplates
  <2>7. \A c \in Clients : ~Removes(c)'
    BY <2>1, <2>2 DEF Removes
  <2>8. WorkIsAskedFor'
    <3>1. \A e \in Domains : domain[e] # None /\ domain[e].status = "Deleting" => domain[e].kind = "desktop"
      BY <1>1, <2>2 DEF WorkIsAskedFor, WaitsFor, Removes
    <3> QED
      BY <2>1, <2>7, <3>1 DEF WorkIsAskedFor
  <2> QED
    BY <2>6, <2>7, <2>8, NoneRemoves
<1> QED
  BY <1>3, <1>4, <1>5, EngineParents DEF Others

\* Where no request has listed anything.
LEMMA NoneLists ==
    ASSUME BasedOnTemplates', WorkIsAskedFor', BasesThere',
           \A c \in Clients : client'[c].pc \notin {"derived", "items", "stopping", "deleting"}
    PROVE  ParentsInv'
BY DEF ParentsInv, ListStands, ListsOnce, ListsClosed, WaitHolds, Empties

\* The engine has no work while a request deletes and does not wait.
NoWork == \A d \in Domains : domain[d] # None => domain[d].status \notin Unsettled

LEMMA NoWorkAsked == ASSUME NoWork' PROVE WorkIsAskedFor'
<1>1. "Deleting" \in Unsettled
  BY DEF Unsettled
<1> QED
  BY <1>1 DEF NoWork, WorkIsAskedFor

LEMMA RemovesAlone ==
    ASSUME OneClient, WorkIsAskedFor, NEW c \in Clients, client[c].pc \in {"own", "derived", "items"}
    PROVE  NoWork
BY DEF OneClient, WorkIsAskedFor, NoWork, WaitsFor, Removes

\* What is written by a request that deletes nothing.
LEMMA WritesParents ==
    ASSUME Types, BasedOnTemplates, WorkIsAskedFor, BasesThere, SameDomains,
           \A d \in Domains : domain[d] # None => domain'[d].status \in {domain[d].status, "Stopped", "Disabled"},
           \A c \in Clients : ~Removes(c), \A c \in Clients : ~Removes(c)'
    PROVE  ParentsInv'
<1>1. BasedOnTemplates' /\ BasesThere'
  BY SameBases
<1>2. \A d \in Domains : domain[d] # None /\ domain[d].status = "Deleting" => domain[d].kind = "desktop"
  BY DEF WorkIsAskedFor, WaitsFor, Removes
<1>3. WorkIsAskedFor'
  BY <1>2 DEF WorkIsAskedFor, SameDomains
<1> QED
  BY <1>1, <1>3, NoneRemoves

LEMMA UnchangedDomains ==
    ASSUME UNCHANGED domain
    PROVE  /\ SameDomains /\ (BasedOnTemplates => BasedOnTemplates') /\ (BasesThere => BasesThere')
           /\ (NoWork => NoWork')
BY DEF SameDomains, BasedOnTemplates, BasesThere, NoWork

LEMMA AsksParents ==
    ASSUME Assumption, OneClient, Types, Undisturbed, ParentsInv, NEW c \in Clients, Asks(c)
    PROVE  ParentsInv'
<1>1. client[c].pc = "idle" /\ UNCHANGED domain
      /\ \/ UNCHANGED client
         \/ /\ client'[c].pc \in {"own", "second"}
            /\ client'[c].pc = "own" => \A d \in There(Domains) : domain[d].status \notin Unsettled
  <2>1. CASE EndsAtOnce(c)
    BY <2>1 DEF EndsAtOnce, ApiGroupDelete, ApiCategoryDelete
  <2>2. CASE ~EndsAtOnce(c)
    <3>1. PICK op : Begun(c, op)
      BY <2>2, RequestBegun
    <3> QED
      BY <3>1 DEF Begun, Undisturbed, Unsettled
  <2> QED
    BY <2>1, <2>2
<1>2. BasedOnTemplates /\ WorkIsAskedFor /\ BasesThere /\ \A x \in Clients : ~Removes(x)
  BY <1>1 DEF ParentsInv, OneClient, Empties, Removes
<1>3. BasedOnTemplates' /\ BasesThere' /\ SameDomains
  BY <1>1, <1>2, UnchangedDomains
<1>4. CASE client'[c].pc = "own"
  <2>1. NoWork
    BY <1>1, <1>4 DEF NoWork, There
  <2>2. WorkIsAskedFor'
    BY <1>1, <2>1, UnchangedDomains, NoWorkAsked
  <2>3. \A x \in Clients : client'[x].pc \notin {"derived", "items", "stopping", "deleting"}
    BY <1>4 DEF OneClient
  <2> QED
    BY <1>3, <2>2, <2>3, NoneLists
<1>5. CASE client'[c].pc # "own"
  <2>1. \A x \in Clients : ~Removes(x)'
    BY <1>1, <1>2, <1>5 DEF OneClient, Removes
  <2> QED
    BY <1>1, <1>2, <1>3, <2>1, WritesParents
<1> QED
  BY <1>4, <1>5

\* What does not delete.
LEMMA WritesElse ==
    ASSUME Assumption, OneClient, Types, ParentsInv, NEW c \in Clients,
           InsertsUsers(c) \/ InsertsRow(c) \/ UpdatesGroups(c) \/ TogglesDesktops(c) \/ TogglesUser(c)
    PROVE  ParentsInv'
<1>1. client[c].pc \in {"second", "third"}
  BY DEF InsertsUsers, InsertsRow, UpdatesGroups, TogglesDesktops, TogglesUser
<1>2. BasedOnTemplates /\ WorkIsAskedFor /\ BasesThere /\ \A x \in Clients : ~Removes(x)
  BY <1>1 DEF ParentsInv, OneClient, Empties, Removes
<1>3. client'[c].pc \in {"idle", "third"}
  <2>1. CASE TogglesDesktops(c)
    BY <2>1, TogglesDesktopsGoes DEF Types
  <2>2. CASE InsertsUsers(c) \/ InsertsRow(c) \/ UpdatesGroups(c) \/ TogglesUser(c)
    <3>1. client' = [client EXCEPT ![c] = Idle]
      BY <2>2, Ends DEF InsertsUsers
    <3> QED
      BY <3>1, IdleKnows DEF Types
  <2> QED
    BY <2>1, <2>2
<1>4. \A x \in Clients : ~Removes(x)'
  BY <1>3 DEF OneClient, Removes
<1>5. CASE TogglesDesktops(c)
  <2>1. SameDomains
    BY <1>5, TogglesDesktopsGoes DEF SameDomains
  <2>2. \A d \in Domains : domain[d] # None => domain'[d].status \in {domain[d].status, "Stopped", "Disabled"}
    BY <1>5, TogglesDesktopsGoes
  <2> QED
    BY <1>2, <1>4, <2>1, <2>2, WritesParents
<1>6. CASE InsertsUsers(c) \/ InsertsRow(c) \/ UpdatesGroups(c) \/ TogglesUser(c)
  <2>1. UNCHANGED domain
    BY <1>6, Ends DEF InsertsUsers
  <2>2. SameDomains /\ \A d \in Domains : domain'[d].status = domain[d].status
    BY <2>1, UnchangedDomains
  <2> QED
    BY <1>2, <1>4, <2>2, WritesParents
<1> QED
  BY <1>5, <1>6

----------------------------------------------------------------------------
\* What is found is there as it is found.
Stands(items) ==
    \A i \in items : i.kind = "domain" => i.id \in Domains /\ domain[i.id] # None /\ i.status = domain[i.id].status

LEMMA DomainItemsStand == ASSUME NEW S \in SUBSET There(Domains) PROVE Stands({DomainItem(d) : d \in S})
<1>1. \A d \in S : DomainItem(d).kind = "domain" /\ DomainItem(d).id = d /\ DomainItem(d).status = domain[d].status
  BY DEF DomainItem
<1> QED
  BY <1>1 DEF Stands, There

LEMMA OwnedStand == ASSUME NEW us, NEW kind PROVE Stands(Owned(us, kind))
BY DomainItemsStand DEF Owned, There

LEMMA RowItemsStand ==
    /\ \A us : Stands(UserItems(us))
    /\ \A gs : Stands({RowItem("group", g) : g \in gs})
    /\ \A id : Stands({RowItem("group", id)}) /\ Stands({RowItem("category", id)})
<1>1. \A kind, id : RowItem(kind, id).kind = kind
  BY DEF RowItem
<1> QED
  BY <1>1 DEF Stands, UserItems

LEMMA ChecksStand ==
    /\ \A u \in Users : \A k \in 1 .. 2 : Stands(UserDeleteChecks(u)[k])
    /\ \A g \in Groups : \A k \in 1 .. 4 : Stands(GroupDeleteChecks(g)[k])
    /\ \A h \in Categories : \A k \in 1 .. 5 : Stands(CategoryDeleteChecks(h)[k])
    /\ \A t \in There(Domains) : Stands(TemplateDeleteList(t)[1])
<1>1. ASSUME NEW u \in Users PROVE \A k \in 1 .. 2 : Stands(UserDeleteChecks(u)[k])
  BY OwnedStand DEF UserDeleteChecks
<1>2. ASSUME NEW g \in Groups PROVE \A k \in 1 .. 4 : Stands(GroupDeleteChecks(g)[k])
  <2>1. PICK us : us = UsersOfGroup(g)
    OBVIOUS
  <2>2. PICK R, U : R = {RowItem("group", g)} /\ U = UserItems(us)
    OBVIOUS
  <2>3. Stands(R) /\ Stands(U)
    BY <2>2, RowItemsStand
  <2>4. GroupDeleteChecks(g) = <<R, U, Owned(us, "desktop"), Owned(us, "template")>>
    BY <2>1, <2>2 DEF GroupDeleteChecks
  <2> QED
    BY <2>3, <2>4, OwnedStand
<1>3. ASSUME NEW h \in Categories PROVE \A k \in 1 .. 5 : Stands(CategoryDeleteChecks(h)[k])
  <2>1. PICK us, gs : us = UsersOfCategory(h) /\ gs = {g \in Groups : group[g] # None /\ GroupCategory[g] = h}
    OBVIOUS
  <2>2. PICK R, S, U : R = {RowItem("category", h)} /\ S = {RowItem("group", g) : g \in gs} /\ U = UserItems(us)
    OBVIOUS
  <2>3. Stands(R) /\ Stands(S) /\ Stands(U)
    BY <2>2, RowItemsStand
  <2>4. CategoryDeleteChecks(h) = <<R, S, U, Owned(us, "desktop"), Owned(us, "template")>>
    BY <2>1, <2>2 DEF CategoryDeleteChecks
  <2> QED
    BY <2>3, <2>4, OwnedStand
<1>4. ASSUME NEW t \in There(Domains) PROVE Stands(TemplateDeleteList(t)[1])
  <2>1. TemplateDeleteList(t)[1] = {DomainItem(d) : d \in {t}}
    BY DEF TemplateDeleteList
  <2> QED
    BY <2>1, DomainItemsStand
<1> QED
  BY <1>1, <1>2, <1>3, <1>4

LEMMA ReadsOwnParents ==
    ASSUME Assumption, OneClient, Types, ParentsInv, NEW c \in Clients, ReadsOwn(c)
    PROVE  ParentsInv'
<1>1. client[c].pc = "own" /\ UNCHANGED domain
  BY DEF ReadsOwn
<1>2. BasedOnTemplates /\ BasesThere /\ NoWork
  BY <1>1, RemovesAlone DEF ParentsInv, OneClient, Empties
<1>3. BasedOnTemplates' /\ BasesThere' /\ WorkIsAskedFor'
  BY <1>1, <1>2, UnchangedDomains, NoWorkAsked
<1>4. CASE client'[c] = Idle
  <2>1. \A x \in Clients : client'[x].pc \notin {"derived", "items", "stopping", "deleting"}
    BY <1>4, IdleKnows DEF OneClient
  <2> QED
    BY <1>3, <2>1, NoneLists
<1>5. CASE client'[c] # Idle
  <2>1. PICK r, todo : r = client[c] /\ todo = client'[c].todo
    OBVIOUS
  <2>2. /\ r.op \in Deletions /\ client'[c].pc = "derived"
        /\ r.op \in UserDeletions => todo = UserDeleteChecks(r.id)
        /\ r.op = "group_delete" => todo = GroupDeleteChecks(r.id)
        /\ r.op = "category_delete" => todo = CategoryDeleteChecks(r.id)
        /\ r.op = "template_delete" => todo = TemplateDeleteList(r.id)
    BY <1>5, <2>1, ReadsOwnTypes
  <2>3. /\ r.op \in UserDeletions => r.id \in Users
        /\ r.op = "group_delete" => r.id \in Groups
        /\ r.op = "category_delete" => r.id \in Categories
        /\ r.op = "template_delete" => r.id \in Domains
    BY <2>1 DEF Types, KnowingClient, Knows
  <2>4. r.op = "template_delete" => domain[r.id] # None
    <3>1. SUFFICES ASSUME r.op = "template_delete", domain[r.id] = None PROVE FALSE
      OBVIOUS
    <3>2. Answers(c, FALSE)
      BY <2>1, <3>1 DEF ReadsOwn
    <3> QED
      BY <1>5, <3>2 DEF Answers, Types
  <2>5. \A k \in 1 .. Len(todo) : Stands(todo[k])
    <3>1. CASE r.op \in UserDeletions
      BY <2>2, <2>3, <3>1, ChecksStand, ChecksFound
    <3>2. CASE r.op = "group_delete"
      BY <2>2, <2>3, <3>2, ChecksStand, ChecksFound
    <3>3. CASE r.op = "category_delete"
      BY <2>2, <2>3, <3>3, ChecksStand, ChecksFound
    <3>4. CASE r.op = "template_delete"
      BY <2>2, <2>3, <2>4, <3>4, ChecksStand, ChecksFound DEF There
    <3> QED
      BY <2>2, <3>1, <3>2, <3>3, <3>4 DEF Deletions, UserDeletions
  <2>6. ListStands(c)'
    BY <1>1, <2>1, <2>2, <2>5 DEF ListStands, Stands, WaitsFor
  <2>7. (ListsOnce(c) /\ ListsClosed(c) /\ WaitHolds(c))'
    BY <2>2 DEF ListsOnce, ListsClosed, WaitHolds, Empties
  <2> QED
    BY <1>3, <2>6, <2>7 DEF ParentsInv, OneClient
<1> QED
  BY <1>4, <1>5

\* An item that was found twice stays in one place.
LEMMA LastOnlyOnce ==
    ASSUME NEW todo, Len(todo) \in 1 .. 6
    PROVE  \A j, k \in 1 .. Len(todo) : \A i \in LastOnly(todo)[j] : i \in LastOnly(todo)[k] => j = k
<1>1. \A k \in 1 .. Len(todo) : LastOnly(todo)[k] = todo[k] \ UNION {todo[j] : j \in k + 1 .. Len(todo)}
  BY DEF LastOnly
<1>2. ASSUME NEW j \in 1 .. Len(todo), NEW k \in 1 .. Len(todo), j < k, NEW i \in LastOnly(todo)[j]
      PROVE  i \notin LastOnly(todo)[k]
  <2>1. k \in j + 1 .. Len(todo)
    BY <1>2
  <2>2. i \notin todo[k]
    BY <1>1, <1>2, <2>1
  <2> QED
    BY <1>1, <2>2
<1>3. \A j, k \in 1 .. Len(todo) : j < k \/ k < j \/ j = k
  OBVIOUS
<1> QED
  BY <1>2, <1>3

\* What is listed with what derives from it.
LEMMA ReadsDerivedParents ==
    ASSUME Assumption, OneClient, Types, ParentsInv, NEW c \in Clients, ReadsDerived(c)
    PROVE  ParentsInv'
<1>1. client[c].pc = "derived" /\ UNCHANGED domain
  BY DEF ReadsDerived
<1>2. BasedOnTemplates /\ BasesThere /\ NoWork /\ ListStands(c)
  BY <1>1, RemovesAlone DEF ParentsInv, OneClient, Empties
<1>3. BasedOnTemplates' /\ BasesThere' /\ WorkIsAskedFor'
  BY <1>1, <1>2, UnchangedDomains, NoWorkAsked
<1>4. PICK q \in KnowingClient :
        /\ client' = [client EXCEPT ![c] = q]
        /\ q.pc = "items" /\ q.op = client[c].op /\ q.id = client[c].id
        /\ q.todo = LastOnly(Append(client[c].todo, DerivedItems(client[c].todo)))
  BY ReadsDerivedGoes
<1>5. client'[c] = q
  BY <1>4 DEF Types
<1>6. PICK todo : todo = client[c].todo
  OBVIOUS
<1>7. todo \in Seq(SUBSET Found) /\ Len(todo) \in 1 .. 5
  BY <1>1, <1>6 DEF Types, KnowingClient, Knows, Client
<1>8. PICK items \in SUBSET Found : items = DerivedItems(todo)
  BY DerivedFound DEF DerivedItems
<1>9. PICK more : more = Append(todo, items)
  OBVIOUS
<1>10. /\ more \in Seq(SUBSET Found) /\ Len(more) = Len(todo) + 1 /\ Len(more) \in 1 .. 6
       /\ (\A k \in 1 .. Len(todo) : more[k] = todo[k]) /\ more[Len(more)] = items
  <2>1. more \in Seq(SUBSET Found) /\ Len(more) = Len(todo) + 1
        /\ (\A k \in 1 .. Len(todo) : more[k] = todo[k]) /\ more[Len(more)] = items
    BY <1>7, <1>9
  <2> QED
    BY <1>7, <2>1
<1>11. q.todo = LastOnly(more) /\ Len(q.todo) = Len(more)
  BY <1>4, <1>6, <1>8, <1>9, <1>10, LastOnlyFound
<1>12. \A k \in 1 .. Len(more) : Stands(more[k])
  <2>1. \A k \in 1 .. Len(todo) : Stands(todo[k])
    <3>1. ASSUME NEW k \in 1 .. Len(todo), NEW i \in todo[k], i.kind = "domain"
          PROVE  i.id \in Domains /\ domain[i.id] # None /\ i.status = domain[i.id].status
      <4>1. i \in Found
        BY <1>7, <3>1
      <4> QED
        BY <1>1, <1>2, <1>6, <3>1, <4>1 DEF ListStands, Found
    <3> QED
      BY <3>1 DEF Stands
  <2>2. Stands(items)
    BY <1>8, DomainItemsStand DEF DerivedItems, Derived
  <2>3. ASSUME NEW k \in 1 .. Len(more), k # Len(more) PROVE k \in 1 .. Len(todo)
    BY <1>7, <1>10, <2>3
  <2> QED
    BY <1>10, <2>1, <2>2, <2>3
<1>13. /\ \A k \in 1 .. Len(more) : q.todo[k] \subseteq more[k]
       /\ \A k \in 1 .. Len(more) : \A i \in more[k] : \E j \in 1 .. Len(more) : i \in q.todo[j]
  <2>1. Len(more) \in 1 .. 6
    BY <1>10
  <2>2. /\ \A k \in 1 .. Len(more) : LastOnly(more)[k] \subseteq more[k]
        /\ \A k \in 1 .. Len(more) : \A i \in more[k] : \E j \in 1 .. Len(more) : i \in LastOnly(more)[j]
    BY <2>1, LastOnlyKeeps, Zenon
  <2> QED
    BY <1>11, <2>2, Zenon
<1>14. ListStands(c)'
  <2>1. \A k \in 1 .. Len(q.todo) : Stands(q.todo[k])
    BY <1>11, <1>12, <1>13 DEF Stands
  <2> QED
    BY <1>1, <1>4, <1>5, <2>1 DEF ListStands, Stands, WaitsFor
<1>15. ListsOnce(c)'
  <2>1. \A j, k \in 1 .. Len(q.todo) : \A i \in q.todo[j] : i \in q.todo[k] => j = k
    BY <1>10, <1>11, LastOnlyOnce
  <2> QED
    BY <1>5, <2>1 DEF ListsOnce
<1>16. ASSUME NEW d \in Domains, domain[d] # None, NEW p \in domain[d].parents, domain[p] = None \/ Listed(q, p)
       PROVE  Listed(q, d)
  <2>1. Listed(q, p) /\ domain[p] # None
    BY <1>2, <1>16 DEF BasesThere
  <2>2. PICK k \in 1 .. Len(more) : \E i \in more[k] : i.kind = "domain" /\ i.id = p
    BY <1>4, <1>11, <1>13, <2>1 DEF Listed
  <2>3. domain[d].parents \cap Templates(todo) # {}
    <3>1. CASE k \in 1 .. Len(todo)
      <4>1. p \in Templates(todo)
        BY <1>10, <2>2, <3>1 DEF Templates
      <4> QED
        BY <1>16, <4>1
    <3>2. CASE k \notin 1 .. Len(todo)
      <4>1. k = Len(more)
        BY <1>7, <1>10, <3>2
      <4>2. PICK e \in Derived(Templates(todo)) : DomainItem(e).id = p
        BY <1>8, <1>10, <2>2, <4>1 DEF DerivedItems
      <4>3. p \in Derived(Templates(todo))
        BY <4>2 DEF DomainItem
      <4>4. domain[p].parents \cap Templates(todo) # {}
        BY <4>3 DEF Derived
      <4>5. domain[p].parents \subseteq domain[d].parents
        BY <1>2, <1>16, <2>1 DEF BasedOnTemplates
      <4> QED
        BY <4>4, <4>5
    <3> QED
      BY <3>1, <3>2
  <2>4. DomainItem(d) \in items
    BY <1>8, <1>16, <2>3 DEF DerivedItems, Derived, There
  <2>5. PICK j \in 1 .. Len(more) : DomainItem(d) \in q.todo[j]
    <3>1. Len(more) \in 1 .. Len(more)
      BY <1>10
    <3> QED
      BY <1>10, <1>13, <2>4, <3>1
  <2>6. DomainItem(d).kind = "domain" /\ DomainItem(d).id = d
    BY DEF DomainItem
  <2> QED
    BY <1>11, <2>5, <2>6 DEF Listed
<1>17. ListsClosed(c)'
  <2>1. \A d : Listed(client[c], d)' <=> Listed(q, d)
    BY <1>5 DEF Listed
  <2> QED
    BY <1>1, <1>16, <2>1 DEF ListsClosed
<1>18. WaitHolds(c)' /\ Empties(c)'
  BY <1>4, <1>5 DEF WaitHolds, Empties
<1> QED
  BY <1>3, <1>14, <1>15, <1>17, <1>18 DEF ParentsInv, OneClient

LEMMA DeletesRowParents ==
    ASSUME Assumption, OneClient, Types, ParentsInv, NEW c \in Clients, DeletesRow(c)
    PROVE  ParentsInv'
<1>1. client[c].pc = "items" /\ UNCHANGED domain
  BY DEF DeletesRow
<1>2. BasedOnTemplates /\ NoWork /\ ListStands(c) /\ ListsOnce(c) /\ ListsClosed(c)
  BY <1>1, RemovesAlone DEF ParentsInv
<1>3. BasedOnTemplates' /\ WorkIsAskedFor'
  BY <1>1, <1>2, UnchangedDomains, NoWorkAsked
<1>4. PICK todo : todo = client[c].todo
  OBVIOUS
<1>5. PICK q \in KnowingClient, i \in Found :
        client' = [client EXCEPT ![c] = q] /\ i.kind # "domain" /\ TakesItem(todo, q.todo, i) /\ q.pc = "items"
  BY <1>4, DeletesRowGoes
<1>6. PICK less : less = q.todo
  OBVIOUS
<1>7. client'[c] = q /\ todo \in Seq(SUBSET Found)
  BY <1>4, <1>5 DEF Types, KnowingClient, Client
<1>8. /\ Len(less) = Len(todo)
      /\ \A j \in 1 .. Len(todo) : \A x \in todo[j] : x # i => x \in less[j]
      /\ \A j \in 1 .. Len(todo) : less[j] \subseteq todo[j]
  <2>1. TakesItem(todo, less, i)
    BY <1>5, <1>6
  <2> QED
    BY <1>7, <2>1, TakenFound, Zenon
<1>9. ListStands(c)'
  <2>1. \A k \in 1 .. Len(todo) : \A x \in todo[k] : x.kind = "domain" =>
            domain[x.id] # None /\ x.status = domain[x.id].status
    BY <1>1, <1>2, <1>4 DEF ListStands
  <2> QED
    BY <1>1, <1>5, <1>6, <1>7, <1>8, <2>1 DEF ListStands, WaitsFor
<1>10. ListsOnce(c)'
  <2>1. \A j, k \in 1 .. Len(todo) : \A x \in todo[j] : x \in todo[k] => j = k
    BY <1>1, <1>2, <1>4 DEF ListsOnce, Empties
  <2>2. \A j, k \in 1 .. Len(less) : \A x \in less[j] : x \in less[k] => j = k
    BY <1>8, <2>1
  <2> QED
    BY <1>6, <1>7, <2>2 DEF ListsOnce
<1>11. ListsClosed(c)'
  <2>1. \A d : Listed(client[c], d) <=> Listed(q, d)
    BY <1>1, <1>4, <1>5, <1>6, <1>8 DEF Listed
  <2>2. \A d : Listed(client[c], d)' <=> Listed(q, d)
    BY <1>7 DEF Listed
  <2> QED
    BY <1>1, <1>2, <2>1, <2>2 DEF ListsClosed, Empties
<1>12. WaitHolds(c)' /\ Empties(c)'
  BY <1>5, <1>7 DEF WaitHolds, Empties
<1> QED
  BY <1>3, <1>9, <1>10, <1>11, <1>12 DEF ParentsInv, OneClient

\* The status of a desktop is written that is there, for who waits.
LEMMA WrittenParents ==
    ASSUME Assumption, OneClient, Types, BasedOnTemplates, NEW c \in Clients, NEW d \in Domains, domain[d] # None,
           \A e \in Domains : e # d /\ domain[e] # None => domain[e].status \notin Unsettled,
           NEW status \in {"Stopping", "Deleting"},
           domain' = [domain EXCEPT ![d].status = status],
           NEW q, client'[c] = q, q.pc = (IF status = "Stopping" THEN "stopping" ELSE "deleting"), q.now.id = d,
           saw' = [saw EXCEPT ![c] = FALSE]
    PROVE  /\ BasedOnTemplates' /\ WorkIsAskedFor' /\ WaitHolds(c)' /\ Empties(c)' /\ SameDomains
           /\ \A e \in Domains : e # d => domain'[e] = domain[e]
<1>1. status \in Statuses
  BY DEF Statuses
<1>2. SameDomains /\ domain'[d].status = status /\ \A e \in Domains : e # d => domain'[e] = domain[e]
  BY <1>1, StatusAlone
<1>3. BasedOnTemplates'
  BY <1>2, SameBases
<1>4. WaitsFor(c, d)'
  BY DEF WaitsFor
<1>5. "Deleting" \in Unsettled
  BY DEF Unsettled
<1>6. WorkIsAskedFor'
  BY <1>2, <1>4, <1>5 DEF WorkIsAskedFor
<1>7. saw'[c] = FALSE
  BY DEF Types
<1>8. domain'[d] # None
  BY <1>2 DEF SameDomains
<1>9. WaitHolds(c)' /\ Empties(c)'
  BY <1>2, <1>7, <1>8 DEF WaitHolds, Empties
<1> QED
  BY <1>2, <1>3, <1>6, <1>9

\* What is listed stays listed when the desktops are those that were.
LEMMA ClosedParents ==
    ASSUME Types, SameDomains, NEW c \in Clients, ListsClosed(c), Empties(c),
           \A d \in Domains : Listed(client[c], d) <=> Listed(client'[c], d)
    PROVE  ListsClosed(c)'
<1>1. \A d \in Domains : domain[d] # None => domain[d].parents \subseteq Domains
  BY DEF Types, Domain
<1>2. \A d : Listed(client[c], d)' <=> Listed(client'[c], d)
  BY DEF Listed
<1> QED
  BY <1>1, <1>2 DEF ListsClosed, SameDomains

LEMMA DeletesDomainParents ==
    ASSUME Assumption, OneClient, Types, ParentsInv, NEW c \in Clients, DeletesDomain(c)
    PROVE  ParentsInv'
<1>1. client[c].pc = "items"
  BY DEF DeletesDomain
<1>2. BasedOnTemplates /\ NoWork /\ ListStands(c) /\ ListsOnce(c) /\ ListsClosed(c) /\ Empties(c)
  BY <1>1, RemovesAlone DEF ParentsInv, Empties
<1>3. PICK todo : todo = client[c].todo
  OBVIOUS
<1>4. PICK q \in KnowingClient, i \in Found :
        /\ client' = [client EXCEPT ![c] = q] /\ saw' = [saw EXCEPT ![c] = FALSE]
        /\ i.kind = "domain" /\ TakesItem(client[c].todo, q.todo, i)
        /\ q.pc \in {"stopping", "deleting"} /\ q.op = client[c].op /\ q.id = client[c].id /\ q.now = i
        /\ \E status \in {"Stopping", "Deleting"} :
             /\ domain' = (IF domain[i.id] = None THEN domain ELSE [domain EXCEPT ![i.id].status = status])
             /\ q.pc = IF status = "Stopping" THEN "stopping" ELSE "deleting"
  BY DeletesDomainGoes
<1>5. PICK less : less = q.todo
  OBVIOUS
<1>6. client'[c] = q /\ todo \in Seq(SUBSET Found) /\ i.id \in Domains
  <2>1. client'[c] = q
    BY <1>4 DEF Types
  <2>2. todo \in Seq(SUBSET Found)
    BY <1>3 DEF Types, KnowingClient, Client
  <2>3. i.id \in Domains
    BY <1>4 DEF Found
  <2> QED
    BY <2>1, <2>2, <2>3
<1>7. PICK k \in 1 .. Len(todo) : i \in todo[k] /\ less = [todo EXCEPT ![k] = @ \ {i}]
  BY <1>3, <1>4, <1>5 DEF TakesItem
<1>8. /\ Len(less) = Len(todo)
      /\ \A j \in 1 .. Len(todo) : less[j] = IF j = k THEN todo[j] \ {i} ELSE todo[j]
  <2>1. todo \in Seq(SUBSET Found) /\ DOMAIN todo = 1 .. Len(todo)
    BY <1>6
  <2>2. Len(less) = Len(todo)
    BY <1>7, <2>1, LessFound
  <2>3. \A j \in 1 .. Len(todo) : less[j] = IF j = k THEN todo[j] \ {i} ELSE todo[j]
    BY <1>7, <2>1
  <2> QED
    BY <2>2, <2>3
<1>9. \A j \in 1 .. Len(todo) : \A x \in todo[j] : x.kind = "domain" =>
          domain[x.id] # None /\ x.status = domain[x.id].status
  BY <1>1, <1>2, <1>3 DEF ListStands
<1>10. \A j, h \in 1 .. Len(todo) : \A x \in todo[j] : x \in todo[h] => j = h
  BY <1>2, <1>3 DEF ListsOnce
<1>11. domain[i.id] # None
  BY <1>4, <1>7, <1>9
<1>12. /\ BasedOnTemplates' /\ WorkIsAskedFor' /\ WaitHolds(c)' /\ Empties(c)' /\ SameDomains
       /\ \A e \in Domains : e # i.id => domain'[e] = domain[e]
  <2>1. \A e \in Domains : e # i.id /\ domain[e] # None => domain[e].status \notin Unsettled
    BY <1>2 DEF NoWork
  <2>2. PICK d \in Domains : d = i.id /\ q.now.id = d
    BY <1>4, <1>6
  <2>3. PICK status \in {"Stopping", "Deleting"} :
             /\ domain' = (IF domain[d] = None THEN domain ELSE [domain EXCEPT ![d].status = status])
             /\ q.pc = IF status = "Stopping" THEN "stopping" ELSE "deleting"
    BY <1>4, <2>2
  <2>6. domain' = [domain EXCEPT ![d].status = status] /\ domain[d] # None
    BY <1>11, <2>2, <2>3
  <2>4. saw' = [saw EXCEPT ![c] = FALSE]
    BY <1>4
  <2>5. /\ BasedOnTemplates' /\ WorkIsAskedFor' /\ WaitHolds(c)' /\ Empties(c)' /\ SameDomains
        /\ \A e \in Domains : e # d => domain'[e] = domain[e]
    BY <1>2, <1>6, <2>1, <2>2, <2>3, <2>4, <2>6, WrittenParents
  <2> QED
    BY <2>2, <2>5
<1>13. ListStands(c)'
  <2>1. ASSUME NEW j \in 1 .. Len(todo), NEW x \in less[j], x.kind = "domain"
        PROVE  x.id # i.id /\ x.id \in Domains /\ x \in todo[j]
    <3>1. x \in todo[j] /\ x \in Found
      <4>1. x \in todo[j]
        BY <1>8, <2>1
      <4>2. todo \in Seq(SUBSET Found)
        BY <1>6
      <4> QED
        BY <4>1, <4>2
    <3>2. ASSUME x.id = i.id PROVE FALSE
      <4>1. x.status = i.status
        BY <1>4, <1>7, <1>9, <2>1, <3>1, <3>2
      <4>2. x = i
        BY <1>4, <2>1, <3>1, <3>2, <4>1 DEF Found, Item
      <4>3. j = k
        BY <1>7, <1>10, <3>1, <4>2
      <4> QED
        BY <1>8, <2>1, <4>2, <4>3
    <3> QED
      BY <2>1, <3>1, <3>2 DEF Found
  <2>2. ASSUME NEW j \in 1 .. Len(less), NEW x \in less[j], x.kind = "domain"
        PROVE  domain'[x.id] # None /\ x.status = domain'[x.id].status /\ x.id # i.id
    BY <1>8, <1>9, <1>12, <2>1, <2>2
  <2> QED
    BY <1>4, <1>5, <1>6, <2>2 DEF ListStands, WaitsFor
<1>14. ListsOnce(c)'
  <2>1. \A j, h \in 1 .. Len(less) : \A x \in less[j] : x \in less[h] => j = h
    BY <1>8, <1>10
  <2> QED
    BY <1>5, <1>6, <2>1 DEF ListsOnce
<1>15. ListsClosed(c)'
  <2>1. ASSUME NEW d \in Domains PROVE Listed(client[c], d) <=> Listed(q, d)
    <3>1. ASSUME Listed(client[c], d) PROVE Listed(q, d)
      <4>1. PICK j \in 1 .. Len(todo) : \E x \in todo[j] : x.kind = "domain" /\ x.id = d
        BY <1>1, <1>3, <3>1 DEF Listed
      <4>2. PICK x \in todo[j] : x.kind = "domain" /\ x.id = d
        BY <4>1
      <4>3. CASE x = i
        BY <1>4, <4>2, <4>3 DEF Listed
      <4>4. CASE x # i
        BY <1>5, <1>8, <4>1, <4>2, <4>4 DEF Listed
      <4> QED
        BY <4>3, <4>4
    <3>2. ASSUME Listed(q, d) PROVE Listed(client[c], d)
      <4>1. CASE \E j \in 1 .. Len(less) : \E x \in less[j] : x.kind = "domain" /\ x.id = d
        BY <1>3, <1>8, <4>1 DEF Listed
      <4>2. CASE q.now.id = d
        BY <1>3, <1>4, <1>7, <4>2 DEF Listed
      <4> QED
        BY <1>5, <3>2, <4>1, <4>2 DEF Listed
    <3> QED
      BY <3>1, <3>2
  <2> QED
    BY <1>2, <1>6, <1>12, <2>1, ClosedParents
<1> QED
  BY <1>12, <1>13, <1>14, <1>15 DEF ParentsInv, OneClient

LEMMA SawStoppedParents ==
    ASSUME Assumption, OneClient, Types, ParentsInv, NEW c \in Clients, SawStopped(c)
    PROVE  ParentsInv'
<1>1. PICK q \in KnowingClient :
        /\ client' = [client EXCEPT ![c] = q] /\ saw' = [saw EXCEPT ![c] = FALSE]
        /\ q.pc = "deleting" /\ q.op = client[c].op /\ q.id = client[c].id
        /\ q.now = client[c].now /\ q.todo = client[c].todo
        /\ domain' = (IF domain[q.now.id] = None THEN domain ELSE [domain EXCEPT ![q.now.id].status = "Deleting"])
  BY SawStoppedGoes
<1>2. client[c].pc = "stopping" /\ saw[c]
  BY DEF SawStopped
<1>3. PICK d \in Domains : d = q.now.id
  BY <1>1, SawStoppedGoes DEF Found
<1>4. client'[c] = q /\ client[c].now.id = d /\ q.now.id = d
  BY <1>1, <1>3 DEF Types
<1>5. BasedOnTemplates /\ ListStands(c) /\ ListsOnce(c) /\ ListsClosed(c) /\ WaitHolds(c) /\ WorkIsAskedFor /\ Empties(c)
  BY <1>2 DEF ParentsInv, Empties
<1>6. domain[d] # None
  BY <1>2, <1>4, <1>5 DEF WaitHolds
<1>7. \A e \in Domains : e # d /\ domain[e] # None => domain[e].status \notin Unsettled
  <2>1. Removes(c) /\ \A e \in Domains : WaitsFor(c, e) => e = d
    BY <1>2, <1>4 DEF Removes, WaitsFor
  <2> QED
    BY <1>5, <2>1 DEF WorkIsAskedFor, OneClient
<1>8. /\ BasedOnTemplates' /\ WorkIsAskedFor' /\ WaitHolds(c)' /\ Empties(c)' /\ SameDomains
      /\ \A e \in Domains : e # d => domain'[e] = domain[e]
  <2>1. domain' = [domain EXCEPT ![d].status = "Deleting"]
        /\ saw' = [saw EXCEPT ![c] = FALSE]
    BY <1>1, <1>3, <1>6
  <2>2. q.pc = IF "Deleting" = "Stopping" THEN "stopping" ELSE "deleting"
    BY <1>1
  <2>3. "Deleting" \in {"Stopping", "Deleting"}
    OBVIOUS
  <2> QED
    BY <1>4, <1>5, <1>6, <1>7, <2>1, <2>2, <2>3, WrittenParents
<1>9. PICK todo : todo = client[c].todo /\ todo = q.todo
  BY <1>1
<1>10. ListStands(c)'
  <2>1. ASSUME NEW k \in 1 .. Len(todo), NEW x \in todo[k], x.kind = "domain"
        PROVE  domain'[x.id] # None /\ x.status = domain'[x.id].status /\ x.id # d
    <3>1. domain[x.id] # None /\ x.status = domain[x.id].status /\ x.id # d
      BY <1>2, <1>4, <1>5, <1>9, <2>1 DEF ListStands, WaitsFor
    <3>2. x.id \in Domains
      <4>1. todo \in Seq(SUBSET Found)
        BY <1>9 DEF Types, KnowingClient, Client
      <4> QED
        BY <2>1, <4>1 DEF Found
    <3> QED
      BY <1>8, <3>1, <3>2
  <2> QED
    BY <1>4, <1>9, <2>1 DEF ListStands, WaitsFor
<1>11. ListsOnce(c)'
  BY <1>4, <1>5, <1>9 DEF ListsOnce
<1>12. ListsClosed(c)'
  <2>1. \A e \in Domains : Listed(client[c], e) <=> Listed(q, e)
    BY <1>1, <1>2 DEF Listed
  <2> QED
    BY <1>4, <1>5, <1>8, <2>1, ClosedParents
<1> QED
  BY <1>8, <1>10, <1>11, <1>12 DEF ParentsInv, OneClient

LEMMA SawDeletedParents ==
    ASSUME Assumption, OneClient, Types, ParentsInv, NEW c \in Clients, SawDeleted(c)
    PROVE  ParentsInv'
<1>1. PICK q \in KnowingClient :
        client' = [client EXCEPT ![c] = q] /\ q.pc = "items" /\ q.todo = client[c].todo
  BY SawDeletedGoes
<1>2. client[c].pc = "deleting" /\ saw[c] /\ UNCHANGED domain /\ client'[c] = q
  BY <1>1, SawDeletedGoes DEF Types
<1>3. PICK gone \in Domains : gone = client[c].now.id
  BY <1>2 DEF Types, KnowingClient, Knows, Found
<1>4. BasedOnTemplates /\ ListStands(c) /\ ListsOnce(c) /\ ListsClosed(c) /\ WaitHolds(c) /\ WorkIsAskedFor /\ Empties(c)
  BY <1>2 DEF ParentsInv, Empties
<1>5. domain[gone] = None
  BY <1>2, <1>3, <1>4 DEF WaitHolds
<1>6. NoWork
  <2>1. Removes(c) /\ \A e \in Domains : WaitsFor(c, e) => e = gone
    BY <1>2, <1>3 DEF Removes, WaitsFor
  <2> QED
    BY <1>4, <1>5, <2>1 DEF WorkIsAskedFor, OneClient, NoWork
<1>7. BasedOnTemplates' /\ WorkIsAskedFor'
  BY <1>2, <1>4, <1>6, UnchangedDomains, NoWorkAsked
<1>8. ListStands(c)'
  BY <1>1, <1>2, <1>4 DEF ListStands, WaitsFor
<1>9. ListsOnce(c)'
  BY <1>1, <1>2, <1>4 DEF ListsOnce
<1>10. ListsClosed(c)'
  <2>1. \A e : Listed(client[c], e)' <=> Listed(q, e)
    BY <1>2 DEF Listed
  <2>2. \A e : Listed(client[c], e) <=> Listed(q, e) \/ e = gone
    BY <1>1, <1>2, <1>3 DEF Listed
  <2>3. ASSUME NEW d \in Domains, domain[d] # None, NEW p \in domain[d].parents, domain[p] = None \/ Listed(q, p)
        PROVE  Listed(q, d)
    BY <1>4, <1>5, <2>2, <2>3 DEF ListsClosed
  <2> QED
    BY <1>2, <2>1, <2>3 DEF ListsClosed
<1>11. WaitHolds(c)' /\ Empties(c)'
  BY <1>1, <1>2 DEF WaitHolds, Empties
<1> QED
  BY <1>7, <1>8, <1>9, <1>10, <1>11 DEF ParentsInv, OneClient

\* Nothing is waited for in vain.
LEMMA NoTimeOut ==
    ASSUME Undisturbed, ParentsInv, NEW c \in Clients, TimesOut(c)
    PROVE  FALSE
<1>1. client[c].pc \in {"stopping", "deleting"} /\ ~saw[c] /\ Hopeless(client[c])
  BY DEF TimesOut, Undisturbed
<1>2. WaitHolds(c)
  BY DEF ParentsInv
<1> QED
  BY <1>1, <1>2 DEF WaitHolds, Hopeless

\* When nothing is left, nothing is left of what is based on what is gone.
LEMMA FinishesParents ==
    ASSUME Assumption, OneClient, Types, ParentsInv, NEW c \in Clients, Finishes(c)
    PROVE  ParentsInv'
<1>1. client[c].pc = "items" /\ ~Left(client[c]) /\ UNCHANGED domain /\ client' = [client EXCEPT ![c] = Idle]
  BY Ends DEF Finishes
<1>2. BasedOnTemplates /\ NoWork /\ ListsClosed(c) /\ Empties(c)
  BY <1>1, RemovesAlone DEF ParentsInv, Empties
<1>3. \A d : ~Listed(client[c], d)
  BY <1>1 DEF Left, Listed
<1>4. BasesThere
  BY <1>2, <1>3 DEF BasesThere, ListsClosed
<1>5. BasedOnTemplates' /\ BasesThere' /\ WorkIsAskedFor'
  BY <1>1, <1>2, <1>4, UnchangedDomains, NoWorkAsked
<1>6. \A x \in Clients : client'[x].pc \notin {"derived", "items", "stopping", "deleting"}
  BY <1>1, IdleKnows DEF OneClient, Types
<1> QED
  BY <1>5, <1>6, NoneLists

LEMMA ParentsStep ==
    ASSUME Assumption, OneClient, Undisturbed, Types, ParentsInv, [Next]_vars
    PROVE  ParentsInv'
<1>1. CASE UNCHANGED vars
  <2>1. UNCHANGED <<domain, client, saw>>
    BY <1>1 DEF vars
  <2> QED
    BY <2>1 DEF ParentsInv, BasedOnTemplates, BasesThere, WorkIsAskedFor, ListStands, ListsOnce, ListsClosed,
       WaitHolds,
                Empties, Removes, WaitsFor, Listed
<1>2. CASE Others
  BY <1>2, OthersParents
<1>3. ASSUME NEW c \in Clients, Asks(c) PROVE ParentsInv'
  BY <1>3, AsksParents
<1>4. ASSUME NEW c \in Clients, GoesOn(c) PROVE ParentsInv'
  <2>1. CASE ReadsOwn(c) \/ ReadsDerived(c) \/ DeletesRow(c) \/ DeletesDomain(c)
    BY <2>1, ReadsOwnParents, ReadsDerivedParents, DeletesRowParents, DeletesDomainParents
  <2>2. CASE SawStopped(c) \/ SawDeleted(c) \/ TimesOut(c) \/ Finishes(c)
    BY <2>2, SawStoppedParents, SawDeletedParents, NoTimeOut, FinishesParents
  <2>3. CASE InsertsUsers(c) \/ InsertsRow(c) \/ UpdatesGroups(c) \/ TogglesDesktops(c) \/ TogglesUser(c)
    BY <2>3, WritesElse
  <2> QED
    BY <1>4, <2>1, <2>2, <2>3 DEF GoesOn
<1> QED
  BY <1>1, <1>2, <1>3, <1>4 DEF Next, Others

----------------------------------------------------------------------------
(* Users, groups and categories go with all that is in them.               *)

\* No request deletes the users of a group or a category and leaves their desktops.
DesktopsGoToo == Ops \cap {"api_group_delete", "api_category_delete"} = {}

\* The users whose rows a deletion deletes.
Covers(r, u) ==
    \/ r.op \in UserDeletions /\ r.id = u
    \/ r.op = "group_delete" /\ UserGroup[u] = r.id
    \/ r.op = "category_delete" /\ UserCategory(u) = r.id

\* A deletion lists the users it covers and no others, and all that they have.
ListsUsers(c) ==
    Under(client[c]) => \A k \in 1 .. Len(client[c].todo) : \A i \in client[c].todo[k] :
        i.kind = "user" => Covers(client[c], i.id)
ListsTheirs(c) ==
    Under(client[c]) => \A d \in Domains :
        domain[d] # None /\ Covers(client[c], domain[d].user) => Listed(client[c], d)

\* Who has a desktop or a template is there, or is deleted with it.
HaveUsersOrGo ==
    \A d \in Domains : domain[d] # None =>
        user[domain[d].user] # None \/ \E c \in Clients : Empties(c) /\ Covers(client[c], domain[d].user)

UsersInv == HaveUsersOrGo /\ \A c \in Clients : ListsUsers(c) /\ ListsTheirs(c)

LEMMA UsersInvInit == Assumption /\ Init => UsersInv
<1> SUFFICES ASSUME Assumption, Init PROVE UsersInv
  OBVIOUS
<1>1. \A c \in Clients : client[c].pc = "idle"
  BY IdleKnows DEF Init
<1>2. HaveUsersOrGo
  BY DEF Init, HaveUsersOrGo
<1> QED
  BY <1>1, <1>2 DEF UsersInv, ListsUsers, ListsTheirs, Under

\* Where nothing is being deleted.
LEMMA NoneUnder ==
    ASSUME HaveUsers', \A c \in Clients : ~Under(client'[c])
    PROVE  UsersInv'
BY DEF UsersInv, HaveUsersOrGo, HaveUsers, ListsUsers, ListsTheirs, Under

LEMMA NoneEmpties ==
    ASSUME UsersInv, \A c \in Clients : ~Empties(c)
    PROVE  HaveUsers
BY DEF UsersInv, HaveUsersOrGo, HaveUsers

LEMMA OthersUsers ==
    ASSUME Assumption, Types, Undisturbed, UsersInv, Others
    PROVE  UsersInv'
<1>1. UNCHANGED <<user, client>> /\ (HaveUsers => HaveUsers') /\ (NoNew \/ ~DeletionRuns)
  <2>1. {"create", "template"} \subseteq Waits
    BY DEF Undisturbed, UserOps
  <2> QED
    BY <2>1, OthersNew DEF rows
<1>2. CASE NoNew
  <2>1. HaveUsersOrGo'
    BY <1>1, <1>2 DEF UsersInv, HaveUsersOrGo, NoNew, Empties, Covers, UserCategory
  <2>2. ASSUME NEW c \in Clients PROVE ListsUsers(c)' /\ ListsTheirs(c)'
    BY <1>1, <1>2 DEF UsersInv, ListsUsers, ListsTheirs, NoNew, Listed, Under, Covers, UserCategory
  <2> QED
    BY <2>1, <2>2 DEF UsersInv
<1>3. CASE ~DeletionRuns
  <2>1. \A c \in Clients : client[c].op \notin Deletions
    BY <1>3 DEF DeletionRuns
  <2>2. \A c \in Clients : ~Under(client[c])
    BY <2>1 DEF Under, Types, KnowingClient, Knows
  <2>3. HaveUsers
    BY <2>2, NoneEmpties DEF Empties, Under
  <2> QED
    BY <1>1, <2>2, <2>3, NoneUnder
<1> QED
  BY <1>1, <1>2, <1>3

LEMMA AsksUsers ==
    ASSUME Assumption, OneClient, Types, DesktopsGoToo, UsersInv, NEW c \in Clients, Asks(c)
    PROVE  UsersInv'
<1>1. ~EndsAtOnce(c)
  BY DEF DesktopsGoToo, EndsAtOnce, ApiGroupDelete, ApiCategoryDelete, Does
<1>2. PICK op : Begun(c, op)
  BY <1>1, RequestBegun
<1>3. client[c].pc = "idle" /\ client'[c].pc \in {"own", "second"} /\ UNCHANGED <<user, domain>>
  BY <1>2 DEF Begun
<1>4. HaveUsers
  BY <1>3, NoneEmpties DEF Empties, OneClient
<1>5. \A x \in Clients : ~Under(client'[x])
  BY <1>3 DEF Under, OneClient
<1> QED
  BY <1>3, <1>4, <1>5, NoneUnder DEF HaveUsers

\* What a deletion lists first are the users it covers, with all that they have.
LEMMA ChecksCover ==
    ASSUME Assumption, Types, NEW r \in KnowingClient,
           r.op \in UserDeletions => r.todo = UserDeleteChecks(r.id),
           r.op = "group_delete" => r.todo = GroupDeleteChecks(r.id),
           r.op = "category_delete" => r.todo = CategoryDeleteChecks(r.id),
           r.op = "template_delete" => r.todo = TemplateDeleteList(r.id),
           r.op \in Deletions
    PROVE  /\ \A k \in 1 .. Len(r.todo) : \A i \in r.todo[k] : i.kind = "user" => Covers(r, i.id)
           /\ \A d \in Domains : domain[d] # None /\ Covers(r, domain[d].user) => Listed(r, d)
<1>1. ASSUME NEW us, NEW kind, NEW i \in Owned(us, kind) PROVE i.kind = "domain"
  BY <1>1 DEF Owned, DomainItem
<1>2. ASSUME NEW us \in SUBSET Users, NEW i \in UserItems(us) PROVE i.kind = "user" /\ i.id \in us
  BY <1>2 DEF UserItems, RowItem
<1>3. ASSUME NEW us, NEW d \in Domains, domain[d] # None, domain[d].user \in us,
             NEW k \in 1 .. Len(r.todo), NEW h \in 1 .. Len(r.todo),
             r.todo[k] = Owned(us, "desktop"), r.todo[h] = Owned(us, "template")
      PROVE  Listed(r, d)
  <2>1. domain[d].kind \in {"desktop", "template"}
    BY <1>3 DEF Types, Domain
  <2>2. DomainItem(d) \in Owned(us, domain[d].kind)
    BY <1>3 DEF Owned, There
  <2>3. DomainItem(d).kind = "domain" /\ DomainItem(d).id = d
    BY DEF DomainItem
  <2>4. DomainItem(d) \in r.todo[k] \/ DomainItem(d) \in r.todo[h]
    BY <1>3, <2>1, <2>2
  <2> QED
    BY <2>3, <2>4 DEF Listed
<1>4. \A d \in Domains : domain[d] # None => domain[d].user \in Users
  BY DEF Types, Domain
<1>5. CASE r.op \in UserDeletions
  <2>1. r.todo = <<Owned({r.id}, "desktop"), Owned({r.id}, "template")>>
    BY <1>5 DEF UserDeleteChecks
  <2>2. \A u : Covers(r, u) => u \in {r.id}
    BY <1>5 DEF Covers, UserDeletions
  <2>3. Len(r.todo) = 2 /\ r.todo[1] = Owned({r.id}, "desktop") /\ r.todo[2] = Owned({r.id}, "template")
    BY <2>1
  <2>4. \A k \in 1 .. Len(r.todo) : \A i \in r.todo[k] : i.kind = "domain"
    BY <1>1, <2>3
  <2>5. \A d \in Domains : domain[d] # None /\ Covers(r, domain[d].user) => Listed(r, d)
    BY <1>3, <2>2, <2>3
  <2> QED
    BY <2>4, <2>5
<1>6. CASE r.op = "group_delete"
  <2>1. PICK us \in SUBSET Users : us = UsersOfGroup(r.id)
    BY DEF UsersOfGroup
  <2>2. r.todo = <<{RowItem("group", r.id)}, UserItems(us), Owned(us, "desktop"), Owned(us, "template")>>
    BY <1>6, <2>1 DEF GroupDeleteChecks
  <2>3. \A u \in Users : Covers(r, u) <=> u \in us
    BY <1>6, <2>1 DEF Covers, UserDeletions, UsersOfGroup
  <2>4. Len(r.todo) = 4 /\ r.todo[1] = {RowItem("group", r.id)} /\ r.todo[2] = UserItems(us)
        /\ r.todo[3] = Owned(us, "desktop") /\ r.todo[4] = Owned(us, "template")
    BY <2>2
  <2>5. ASSUME NEW k \in 1 .. Len(r.todo), NEW i \in r.todo[k], i.kind = "user" PROVE Covers(r, i.id)
    <3>1. RowItem("group", r.id).kind = "group"
      BY DEF RowItem
    <3>2. k = 1 \/ k = 2 \/ k = 3 \/ k = 4
      BY <2>4
    <3>3. i \in UserItems(us)
      BY <1>1, <2>4, <2>5, <3>1, <3>2
    <3> QED
      BY <1>2, <2>3, <3>3
  <2>6. \A d \in Domains : domain[d] # None /\ Covers(r, domain[d].user) => Listed(r, d)
    BY <1>3, <1>4, <2>3, <2>4
  <2> QED
    BY <2>5, <2>6
<1>7. CASE r.op = "category_delete"
  <2>1. PICK us \in SUBSET Users : us = UsersOfCategory(r.id)
    BY DEF UsersOfCategory
  <2>2. PICK gs : gs = {RowItem("group", g) : g \in {g \in Groups : group[g] # None /\ GroupCategory[g] = r.id}}
    OBVIOUS
  <2>3. r.todo = <<{RowItem("category", r.id)}, gs, UserItems(us), Owned(us, "desktop"), Owned(us, "template")>>
    BY <1>7, <2>1, <2>2 DEF CategoryDeleteChecks
  <2>4. \A u \in Users : Covers(r, u) <=> u \in us
    BY <1>7, <2>1 DEF Covers, UserDeletions, UsersOfCategory
  <2>5. Len(r.todo) = 5 /\ r.todo[1] = {RowItem("category", r.id)} /\ r.todo[2] = gs /\ r.todo[3] = UserItems(us)
        /\ r.todo[4] = Owned(us, "desktop") /\ r.todo[5] = Owned(us, "template")
    BY <2>3
  <2>6. ASSUME NEW k \in 1 .. Len(r.todo), NEW i \in r.todo[k], i.kind = "user" PROVE Covers(r, i.id)
    <3>1. RowItem("category", r.id).kind = "category" /\ \A i2 \in gs : i2.kind = "group"
      BY <2>2 DEF RowItem
    <3>2. k = 1 \/ k = 2 \/ k = 3 \/ k = 4 \/ k = 5
      BY <2>5
    <3>3. i \in UserItems(us)
      BY <1>1, <2>5, <2>6, <3>1, <3>2
    <3> QED
      BY <1>2, <2>4, <3>3
  <2>7. \A d \in Domains : domain[d] # None /\ Covers(r, domain[d].user) => Listed(r, d)
    BY <1>3, <1>4, <2>4, <2>5
  <2> QED
    BY <2>6, <2>7
<1>8. CASE r.op = "template_delete"
  <2>1. \A u : ~Covers(r, u)
    BY <1>8 DEF Covers, UserDeletions
  <2>2. Len(r.todo) = 1 /\ r.todo[1] = {DomainItem(r.id)}
    BY <1>8 DEF TemplateDeleteList
  <2>3. DomainItem(r.id).kind = "domain"
    BY DEF DomainItem
  <2>4. \A k \in 1 .. Len(r.todo) : \A i \in r.todo[k] : i.kind = "domain"
    BY <2>2, <2>3
  <2> QED
    BY <2>1, <2>4
<1> QED
  BY <1>5, <1>6, <1>7, <1>8 DEF Deletions, UserDeletions

LEMMA ReadsOwnUsers ==
    ASSUME Assumption, OneClient, Types, UsersInv, NEW c \in Clients, ReadsOwn(c)
    PROVE  UsersInv'
<1>1. client[c].pc = "own" /\ UNCHANGED <<user, group, domain>> /\ Types'
  BY ReadsOwnTypes DEF ReadsOwn, rows
<1>2. HaveUsers'
  <2>1. HaveUsers
    BY <1>1, NoneEmpties DEF Empties, OneClient
  <2> QED
    BY <1>1, <2>1 DEF HaveUsers
<1>3. CASE client'[c] = Idle
  <2>1. \A x \in Clients : ~Under(client'[x])
    BY <1>3, IdleKnows DEF Under, OneClient
  <2> QED
    BY <1>2, <2>1, NoneUnder
<1>4. CASE client'[c] # Idle
  <2>1. PICK r \in KnowingClient : r = client'[c]
    BY <1>1 DEF Types
  <2>2. /\ r.op \in UserDeletions => r.todo = UserDeleteChecks(r.id)
        /\ r.op = "group_delete" => r.todo = GroupDeleteChecks(r.id)
        /\ r.op = "category_delete" => r.todo = CategoryDeleteChecks(r.id)
        /\ r.op = "template_delete" => r.todo = TemplateDeleteList(r.id)
        /\ r.op \in Deletions
    BY <1>4, <2>1, ReadsOwnTypes
  <2>3. /\ \A k \in 1 .. Len(r.todo) : \A i \in r.todo[k] : i.kind = "user" => Covers(r, i.id)
        /\ \A d \in Domains : domain[d] # None /\ Covers(r, domain[d].user) => Listed(r, d)
    BY <2>2, ChecksCover
  <2>4. ListsUsers(c)'
    <3>1. \A u : Covers(client[c], u)' <=> Covers(r, u)
      BY <2>1 DEF Covers, UserCategory
    <3> QED
      BY <2>1, <2>3, <3>1 DEF ListsUsers
  <2>5. ListsTheirs(c)'
    <3>1. \A u : Covers(client[c], u)' <=> Covers(r, u)
      BY <2>1 DEF Covers, UserCategory
    <3>2. \A d : Listed(client[c], d)' <=> Listed(r, d)
      BY <2>1 DEF Listed
    <3> QED
      BY <1>1, <2>3, <3>1, <3>2 DEF ListsTheirs
  <2>6. HaveUsersOrGo'
    BY <1>2 DEF HaveUsers, HaveUsersOrGo
  <2> QED
    BY <2>4, <2>5, <2>6 DEF UsersInv, OneClient
<1> QED
  BY <1>3, <1>4

\* A deletion that goes on lists what it listed, but for what is gone.
LEMMA GoesOnUsers ==
    ASSUME OneClient, UsersInv, NEW c \in Clients, NEW q, client'[c] = q, Under(client[c]), Under(q),
           q.op = client[c].op, q.id = client[c].id, Empties(c) => Empties(c)', NoNew,
           \A u \in Users : user'[u] = None => user[u] = None \/ (Covers(q, u) /\ Empties(c)'),
           \A d \in Domains : domain[d] # None => domain[d].user \in Users,
           \A d \in Domains : domain[d] # None /\ domain'[d] # None /\ Listed(client[c], d) => Listed(q, d),
           \A k \in 1 .. Len(q.todo) : \A i \in q.todo[k] :
               i.kind = "user" => \E h \in 1 .. Len(client[c].todo) : i \in client[c].todo[h]
    PROVE  UsersInv'
<1>1. \A u : (Covers(client[c], u)' <=> Covers(q, u)) /\ (Covers(client[c], u) <=> Covers(q, u))
  BY DEF Covers, UserCategory
<1>2. \A d : Listed(client[c], d)' <=> Listed(q, d)
  BY DEF Listed
<1>3. ListsUsers(c) /\ ListsTheirs(c) /\ HaveUsersOrGo
  BY DEF UsersInv
<1>4. ListsUsers(c)'
  BY <1>1, <1>3 DEF ListsUsers
<1>5. ListsTheirs(c)'
  BY <1>1, <1>2, <1>3 DEF ListsTheirs, NoNew
<1>6. HaveUsersOrGo'
  BY <1>1, <1>3 DEF HaveUsersOrGo, NoNew, OneClient
<1> QED
  BY <1>4, <1>5, <1>6 DEF UsersInv, OneClient

LEMMA ReadsDerivedUsers ==
    ASSUME Assumption, OneClient, Types, UsersInv, NEW c \in Clients, ReadsDerived(c)
    PROVE  UsersInv'
<1>1. PICK q \in KnowingClient :
        /\ client' = [client EXCEPT ![c] = q]
        /\ q.pc = "items" /\ q.op = client[c].op /\ q.id = client[c].id
        /\ q.todo = LastOnly(Append(client[c].todo, DerivedItems(client[c].todo)))
  BY ReadsDerivedGoes
<1>2. UNCHANGED <<user, domain>> /\ client'[c] = q
  BY <1>1, ReadsDerivedGoes DEF rows, Types
<1>3. PICK todo : todo = client[c].todo
  OBVIOUS
<1>4. todo \in Seq(SUBSET Found) /\ client[c].pc = "derived" /\ Len(todo) \in 1 .. 5
  BY <1>3 DEF Types, KnowingClient, Knows, Client, ReadsDerived
<1>5. PICK items \in SUBSET Found : items = DerivedItems(todo)
  BY DerivedFound DEF DerivedItems
<1>6. PICK more : more = Append(todo, items)
  OBVIOUS
<1>7. more \in Seq(SUBSET Found) /\ Len(more) = Len(todo) + 1 /\ Len(more) \in 1 .. 6
      /\ (\A k \in 1 .. Len(todo) : more[k] = todo[k]) /\ more[Len(more)] = items
  <2>1. more \in Seq(SUBSET Found) /\ Len(more) = Len(todo) + 1
        /\ (\A k \in 1 .. Len(todo) : more[k] = todo[k]) /\ more[Len(more)] = items
    BY <1>4, <1>6
  <2> QED
    BY <1>4, <2>1
<1>8. q.todo = LastOnly(more) /\ Len(q.todo) = Len(more)
  BY <1>1, <1>3, <1>5, <1>6, <1>7, LastOnlyFound
<1>9. /\ \A k \in 1 .. Len(more) : LastOnly(more)[k] \subseteq more[k]
      /\ \A k \in 1 .. Len(more) : \A i \in more[k] : \E j \in 1 .. Len(more) : i \in LastOnly(more)[j]
  BY <1>7, LastOnlyKeeps
<1>10. ASSUME NEW d, Listed(client[c], d) PROVE Listed(q, d)
  <2>1. PICK k \in 1 .. Len(todo) : \E i \in todo[k] : i.kind = "domain" /\ i.id = d
    BY <1>3, <1>4, <1>10 DEF Listed
  <2>2. k \in 1 .. Len(more)
    BY <1>4, <1>7
  <2>3. PICK i \in more[k] : i.kind = "domain" /\ i.id = d
    BY <1>7, <2>1
  <2>4. \E j \in 1 .. Len(more) : i \in LastOnly(more)[j]
    BY <1>9, <2>2
  <2> QED
    BY <1>8, <2>3, <2>4 DEF Listed
<1>11. ASSUME NEW k \in 1 .. Len(q.todo), NEW i \in q.todo[k], i.kind = "user"
       PROVE  \E h \in 1 .. Len(todo) : i \in todo[h]
  <2>1. k \in 1 .. Len(more) /\ i \in more[k]
    BY <1>8, <1>9, <1>11
  <2>2. \A x \in items : x.kind = "domain"
    BY <1>5 DEF DerivedItems, DomainItem
  <2>3. k # Len(more)
    BY <1>7, <1>11, <2>1, <2>2
  <2>4. k \in 1 .. Len(todo)
    BY <1>4, <1>7, <2>1, <2>3
  <2> QED
    BY <1>7, <2>1, <2>4
<1>12. Under(client[c]) /\ Under(q) /\ Empties(c)'
  BY <1>1, <1>2, <1>4 DEF Under, Empties
<1>13. NoNew /\ \A d \in Domains : domain[d] # None => domain[d].user \in Users
  BY <1>2 DEF NoNew, Types, Domain
<1>14. q.op = client[c].op /\ q.id = client[c].id
  BY <1>1
<1> QED
  BY <1>2, <1>3, <1>10, <1>11, <1>12, <1>13, <1>14, GoesOnUsers

LEMMA DeletesRowUsers ==
    ASSUME Assumption, OneClient, Types, UsersInv, NEW c \in Clients, DeletesRow(c)
    PROVE  UsersInv'
<1>1. client[c].pc = "items" /\ UNCHANGED domain
  BY DEF DeletesRow
<1>2. PICK todo : todo = client[c].todo
  OBVIOUS
<1>3. PICK q \in KnowingClient, i \in Found :
        /\ client' = [client EXCEPT ![c] = q]
        /\ i.kind # "domain" /\ TakesItem(todo, q.todo, i)
        /\ q.pc = "items" /\ q.op = client[c].op /\ q.id = client[c].id
        /\ user' = IF i.kind = "user" THEN [user EXCEPT ![i.id] = None] ELSE user
  BY <1>2, DeletesRowGoes
<1>4. PICK less : less = q.todo
  OBVIOUS
<1>5. client'[c] = q /\ todo \in Seq(SUBSET Found) /\ TakesItem(todo, less, i)
  BY <1>2, <1>3, <1>4 DEF Types, KnowingClient, Client
<1>6. /\ Len(less) = Len(todo)
      /\ \A j \in 1 .. Len(todo) : \A x \in todo[j] : x # i => x \in less[j]
      /\ \A j \in 1 .. Len(todo) : less[j] \subseteq todo[j]
  BY <1>5, TakenFound, Zenon
<1>7. Under(client[c]) /\ Under(q) /\ Empties(c)'
  BY <1>1, <1>3, <1>5 DEF Under, Empties
<1>8. i.kind = "user" => Covers(q, i.id)
  <2>1. \E k \in 1 .. Len(todo) : i \in todo[k]
    BY <1>5 DEF TakesItem
  <2>2. i.kind = "user" => Covers(client[c], i.id)
    BY <1>2, <1>7, <2>1 DEF UsersInv, ListsUsers
  <2> QED
    BY <1>3, <2>2 DEF Covers
<1>9. \A u \in Users : user'[u] = None => user[u] = None \/ (Covers(q, u) /\ Empties(c)')
  BY <1>3, <1>7, <1>8 DEF Types
<1>10. \A d : Listed(client[c], d) => Listed(q, d)
  BY <1>1, <1>2, <1>3, <1>4, <1>6 DEF Listed
<1>11. \A k \in 1 .. Len(q.todo) : \A x \in q.todo[k] : \E h \in 1 .. Len(todo) : x \in todo[h]
  BY <1>4, <1>6
<1>12. NoNew /\ \A d \in Domains : domain[d] # None => domain[d].user \in Users
  BY <1>1 DEF NoNew, Types, Domain
<1>13. q.op = client[c].op /\ q.id = client[c].id
  BY <1>3
<1> QED
  BY <1>2, <1>5, <1>7, <1>9, <1>10, <1>11, <1>12, <1>13, GoesOnUsers

\* What writes a status takes no user and makes no desktop.
LEMMA WrittenNew ==
    ASSUME Assumption, Types, NEW d \in Domains, NEW status \in {"Stopping", "Deleting"},
           domain' = (IF domain[d] = None THEN domain ELSE [domain EXCEPT ![d].status = status])
    PROVE  NoNew
BY WrittenStatus DEF NoNew, Statuses

LEMMA DeletesDomainUsers ==
    ASSUME Assumption, OneClient, Types, UsersInv, NEW c \in Clients, DeletesDomain(c)
    PROVE  UsersInv'
<1>1. client[c].pc = "items" /\ UNCHANGED user
  BY DEF DeletesDomain, rows
<1>2. PICK todo : todo = client[c].todo
  OBVIOUS
<1>3. PICK q \in KnowingClient, i \in Found :
        /\ client' = [client EXCEPT ![c] = q] /\ saw' = [saw EXCEPT ![c] = FALSE]
        /\ i.kind = "domain" /\ TakesItem(client[c].todo, q.todo, i)
        /\ q.pc \in {"stopping", "deleting"} /\ q.op = client[c].op /\ q.id = client[c].id /\ q.now = i
        /\ \E status \in {"Stopping", "Deleting"} :
             /\ domain' = (IF domain[i.id] = None THEN domain ELSE [domain EXCEPT ![i.id].status = status])
             /\ q.pc = IF status = "Stopping" THEN "stopping" ELSE "deleting"
  BY DeletesDomainGoes
<1>4. PICK less : less = q.todo
  OBVIOUS
<1>5. client'[c] = q /\ todo \in Seq(SUBSET Found) /\ TakesItem(todo, less, i)
  BY <1>2, <1>3, <1>4 DEF Types, KnowingClient, Client
<1>6. /\ Len(less) = Len(todo)
      /\ \A j \in 1 .. Len(todo) : \A x \in todo[j] : x # i => x \in less[j]
      /\ \A j \in 1 .. Len(todo) : less[j] \subseteq todo[j]
  BY <1>5, TakenFound, Zenon
<1>7. Under(client[c]) /\ Under(q) /\ Empties(c)'
  BY <1>1, <1>3, <1>5 DEF Under, Empties
<1>8. ASSUME NEW d, Listed(client[c], d) PROVE Listed(q, d)
  <2>1. PICK k \in 1 .. Len(todo) : \E x \in todo[k] : x.kind = "domain" /\ x.id = d
    BY <1>1, <1>2, <1>8 DEF Listed
  <2>2. PICK x \in todo[k] : x.kind = "domain" /\ x.id = d
    BY <2>1
  <2>3. CASE x = i
    BY <1>3, <2>2, <2>3 DEF Listed
  <2>4. CASE x # i
    BY <1>4, <1>6, <2>2, <2>4 DEF Listed
  <2> QED
    BY <2>3, <2>4
<1>9. \A k \in 1 .. Len(q.todo) : \A x \in q.todo[k] : \E h \in 1 .. Len(todo) : x \in todo[h]
  BY <1>4, <1>6
<1>10. NoNew
  <2>1. PICK d \in Domains : d = i.id
    BY <1>3 DEF Found
  <2> QED
    BY <1>3, <2>1, WrittenNew
<1>11. \A d \in Domains : domain[d] # None => domain[d].user \in Users
  BY DEF Types, Domain
<1>12. q.op = client[c].op /\ q.id = client[c].id
  BY <1>3
<1> QED
  BY <1>1, <1>2, <1>5, <1>7, <1>8, <1>9, <1>10, <1>11, <1>12, GoesOnUsers

LEMMA SawUsers ==
    ASSUME Assumption, OneClient, Types, ParentsInv, UsersInv, NEW c \in Clients, SawStopped(c) \/ SawDeleted(c)
    PROVE  UsersInv'
<1>1. \A d \in Domains : domain[d] # None => domain[d].user \in Users
  BY DEF Types, Domain
<1>2. CASE SawStopped(c)
  <2>1. PICK q \in KnowingClient :
          /\ client' = [client EXCEPT ![c] = q]
          /\ q.pc = "deleting" /\ q.op = client[c].op /\ q.id = client[c].id
          /\ q.now = client[c].now /\ q.todo = client[c].todo
          /\ domain' = (IF domain[q.now.id] = None THEN domain ELSE [domain EXCEPT ![q.now.id].status = "Deleting"])
    BY <1>2, SawStoppedGoes
  <2>2. client[c].pc = "stopping" /\ client'[c] = q /\ UNCHANGED user
    BY <1>2, <2>1, SawStoppedGoes DEF Types, rows
  <2>3. NoNew
    <3>1. PICK d \in Domains : d = q.now.id
      BY <1>2, <2>1, SawStoppedGoes DEF Found
    <3> QED
      BY <2>1, <3>1, WrittenNew
  <2>4. \A d : Listed(client[c], d) => Listed(q, d)
    BY <2>1, <2>2 DEF Listed
  <2>5. Under(client[c]) /\ Under(q) /\ Empties(c)'
    BY <2>1, <2>2 DEF Under, Empties
  <2> QED
    BY <1>1, <2>1, <2>2, <2>3, <2>4, <2>5, GoesOnUsers
<1>3. CASE SawDeleted(c)
  <2>1. PICK q \in KnowingClient :
          /\ client' = [client EXCEPT ![c] = q]
          /\ q.pc = "items" /\ q.op = client[c].op /\ q.id = client[c].id /\ q.todo = client[c].todo
    BY <1>3, SawDeletedGoes
  <2>2. client[c].pc = "deleting" /\ saw[c] /\ client'[c] = q /\ UNCHANGED <<user, domain>>
    BY <1>3, <2>1, SawDeletedGoes DEF Types, rows
  <2>3. domain[client[c].now.id] = None
    BY <2>2 DEF ParentsInv, WaitHolds
  <2>4. \A d \in Domains : domain[d] # None /\ Listed(client[c], d) => Listed(q, d)
    BY <2>1, <2>2, <2>3 DEF Listed
  <2>5. Under(client[c]) /\ Under(q) /\ Empties(c)' /\ NoNew
    BY <2>1, <2>2 DEF Under, Empties, NoNew
  <2> QED
    BY <1>1, <2>1, <2>2, <2>4, <2>5, GoesOnUsers
<1> QED
  BY <1>2, <1>3

\* When a deletion ends, nothing is left of the users it covers.
LEMMA FinishesUsers ==
    ASSUME Assumption, OneClient, Types, UsersInv, NEW c \in Clients, Finishes(c)
    PROVE  UsersInv'
<1>1. client[c].pc = "items" /\ ~Left(client[c]) /\ UNCHANGED domain /\ client' = [client EXCEPT ![c] = Idle]
      /\ user' = (IF client[c].op \in UserDeletions THEN [user EXCEPT ![client[c].id] = None] ELSE user)
  BY Ends DEF Finishes, UserDeletions
<1>2. \A d : ~Listed(client[c], d)
  BY <1>1 DEF Left, Listed
<1>3. \A d \in Domains : domain[d] # None => domain[d].user \in Users /\ ~Covers(client[c], domain[d].user)
  BY <1>1, <1>2 DEF UsersInv, ListsTheirs, Under, Types, Domain
<1>4. HaveUsers
  BY <1>3 DEF UsersInv, HaveUsersOrGo, HaveUsers, OneClient
<1>5. HaveUsers'
  BY <1>1, <1>3, <1>4 DEF HaveUsers, Covers, Types
<1>6. \A x \in Clients : ~Under(client'[x])
  BY <1>1, IdleKnows DEF Under, OneClient, Types
<1> QED
  BY <1>5, <1>6, NoneUnder

\* The other requests delete nobody.
LEMMA WritesUsers ==
    ASSUME Assumption, OneClient, Types, UsersInv, NEW c \in Clients,
           InsertsUsers(c) \/ InsertsRow(c) \/ UpdatesGroups(c) \/ TogglesDesktops(c) \/ TogglesUser(c)
    PROVE  UsersInv'
<1>1. client[c].pc \in {"second", "third"}
  BY DEF InsertsUsers, InsertsRow, UpdatesGroups, TogglesDesktops, TogglesUser
<1>2. HaveUsers
  BY <1>1, NoneEmpties DEF Empties, OneClient
<1>3. NoNew /\ ~Under(client'[c])
  <2>1. CASE TogglesDesktops(c)
    BY <2>1, TogglesDesktopsGoes DEF NoNew, Under, Types
  <2>2. CASE ~TogglesDesktops(c)
    <3>1. client' = [client EXCEPT ![c] = Idle] /\ UNCHANGED domain
      BY <2>2, Ends DEF InsertsUsers
    <3> QED
      BY <3>1, IdleKnows DEF NoNew, Under, Types
  <2> QED
    BY <2>1, <2>2
<1>4. \A u \in Users : user[u] # None => user'[u] # None
  <2>1. CASE InsertsRow(c) \/ UpdatesGroups(c) \/ TogglesDesktops(c)
    BY <2>1 DEF InsertsRow, UpdatesGroups, TogglesDesktops, rows
  <2>2. CASE TogglesUser(c)
    <3>1. [active |-> client[c].active] # None
      BY DEF Types, KnowingClient, Client, Assumption
    <3>2. \E x : user' = [user EXCEPT ![x] = IF user[x] = None THEN None ELSE [active |-> client[c].active]]
      BY <2>2 DEF TogglesUser
    <3> QED
      BY <3>1, <3>2 DEF Types
  <2>3. CASE InsertsUsers(c)
    BY <2>3 DEF InsertsUsers
  <2> QED
    BY <2>1, <2>2, <2>3
<1>5. HaveUsers'
  <2>1. \A d \in Domains : domain[d] # None => domain[d].user \in Users
    BY DEF Types, Domain
  <2> QED
    BY <1>2, <1>3, <1>4, <2>1 DEF HaveUsers, NoNew
<1> QED
  BY <1>3, <1>5, NoneUnder DEF OneClient

LEMMA UsersStep ==
    ASSUME Assumption, OneClient, Undisturbed, DesktopsGoToo, Types, ParentsInv, UsersInv, [Next]_vars
    PROVE  UsersInv'
<1>1. CASE UNCHANGED vars
  <2>1. UNCHANGED <<user, domain, client>>
    BY <1>1 DEF vars
  <2> QED
    BY <2>1 DEF UsersInv, HaveUsersOrGo, ListsUsers, ListsTheirs, Empties, Covers, UserCategory, Listed, Under
<1>2. CASE Others
  BY <1>2, OthersUsers
<1>3. ASSUME NEW c \in Clients, Asks(c) PROVE UsersInv'
  BY <1>3, AsksUsers
<1>4. ASSUME NEW c \in Clients, GoesOn(c) PROVE UsersInv'
  <2>1. CASE ReadsOwn(c) \/ ReadsDerived(c) \/ DeletesRow(c) \/ DeletesDomain(c)
    BY <2>1, ReadsOwnUsers, ReadsDerivedUsers, DeletesRowUsers, DeletesDomainUsers
  <2>2. CASE SawStopped(c) \/ SawDeleted(c) \/ TimesOut(c) \/ Finishes(c)
    BY <2>2, SawUsers, NoTimeOut, FinishesUsers
  <2>3. CASE InsertsUsers(c) \/ InsertsRow(c) \/ UpdatesGroups(c) \/ TogglesDesktops(c) \/ TogglesUser(c)
    BY <2>3, WritesUsers
  <2> QED
    BY <1>4, <2>1, <2>2, <2>3 DEF GoesOn
<1> QED
  BY <1>1, <1>2, <1>3, <1>4 DEF Next, Others

----------------------------------------------------------------------------
(* The theorems.                                                           *)

\* Whatever is asked for and whatever the bounds, the rows have their types,
\* and a request knows what it is about: the user, group, category or template
\* it deletes, and the desktop it waits for.
THEOREM AccountTypes == Assumption => (Spec => []Types)
<1> SUFFICES ASSUME Assumption PROVE Spec => []Types
  OBVIOUS
<1>1. Init => Types
  BY TypesInit
<1>2. Types /\ [Next]_vars => Types'
  BY TypesStep
<1> QED
  BY <1>1, <1>2, PTL DEF Spec

\* With one request at a time, who is added does not exceed the limits of his
\* category, nor those of his group if it is the one of who adds.  Managers of
\* one group and category, since the limits the webapp checks are those of who
\* adds, and nobody who registers with a code, which checks none.
THEOREM AddedWithinLimits ==
    Assumption /\ IsFiniteSet(Users) /\ OneClient /\ OneManager /\ Registrations \cap Ops = {}
        => (Spec => UsersWithinLimits)
<1> SUFFICES ASSUME Assumption, IsFiniteSet(Users), OneClient, OneManager, Registrations \cap Ops = {}
             PROVE  Spec => UsersWithinLimits
  OBVIOUS
<1>1. Init => Types /\ AdditionsChecked
  BY TypesInit, CheckedInit
<1>2. Types /\ AdditionsChecked /\ [Next]_vars => (Types /\ AdditionsChecked)' /\ AddsWithinLimits
  BY TypesStep, CheckedStep, AddedStep
<1>3. Types /\ AdditionsChecked /\ [Next]_vars => [AddsWithinLimits]_vars
  BY <1>2
<1> QED
  BY <1>1, <1>2, <1>3, PTL DEF Spec, UsersWithinLimits

\* No desktop or template is left without its user, however late the engine
\* answers and however many delete at once.  Users, desktops and templates are
\* deleted one by one, since a group or a category goes before what is in it,
\* and nobody makes new desktops meanwhile.
THEOREM DomainsKeepUsers ==
    Assumption /\ OneByOne => (Spec => []DomainsHaveUsers)
<1> SUFFICES ASSUME Assumption, OneByOne PROVE Spec => []DomainsHaveUsers
  OBVIOUS
<1>1. Init => Types /\ HaveUsers /\ ListsHold
  BY TypesInit, ListsInit
<1>2. Types /\ HaveUsers /\ ListsHold /\ [Next]_vars => (Types /\ HaveUsers /\ ListsHold)'
  BY TypesStep, ListsStep
<1>3. HaveUsers => DomainsHaveUsers
  BY DEF HaveUsers, DomainsHaveUsers, There
<1> QED
  BY <1>1, <1>2, <1>3, PTL DEF Spec

\* With one request at a time besides, a user who is enabled has no desktop
\* that is disabled: what a user has goes and is disabled with the user.
THEOREM UsersAndDesktopsAgree ==
    Assumption /\ OneByOne /\ OneClient => (Spec => []UsersAgree)
<1> SUFFICES ASSUME Assumption, OneByOne, OneClient PROVE Spec => []UsersAgree
  OBVIOUS
<1> DEFINE I == Types /\ HaveUsers /\ ListsHold /\ TogglesAgree
<1>1. Init => I
  BY TypesInit, ListsInit, TogglesInit
<1>2. I /\ [Next]_vars => I'
  BY TypesStep, ListsStep, TogglesStep
<1>3. I => DomainsHaveUsers
  BY DEF HaveUsers, DomainsHaveUsers, There
<1>4. I => EnabledHasNoDisabled
  BY DEF TogglesAgree, DisabledOfDisabled, EnabledHasNoDisabled, Resting, Disabling, There
<1>5. I => UsersAgree
  BY <1>3, <1>4 DEF UsersAgree
<1> QED
  BY <1>1, <1>2, <1>5, PTL DEF Spec

\* With one request at a time no limit of a group is above that of its
\* category, unless the limit of a category is written without those of its
\* groups, which the webapp lets its users choose.
THEOREM LimitsStayNested ==
    Assumption /\ OneClient /\ "category_limit" \notin Ops => (Spec => []LimitsNest)
<1> SUFFICES ASSUME Assumption, OneClient, "category_limit" \notin Ops PROVE Spec => []LimitsNest
  OBVIOUS
<1>1. Init => Types /\ RowsInv /\ NestInv
  BY TypesInit, RowsInit, NestInit
<1>2. Types /\ RowsInv /\ NestInv /\ [Next]_vars => (Types /\ RowsInv /\ NestInv)'
  BY TypesStep, RowsStep, NestStep
<1>3. NestInv => LimitsNest
  BY DEF NestInv, LimitsNest, Resting, Nested, Propagates
<1> QED
  BY <1>1, <1>2, <1>3, PTL DEF Spec

\* With one request at a time every user has a group and every group a
\* category, whatever is asked for, however late the engine answers and
\* wherever a deletion gives up.
THEOREM RowsKeepOwners == Assumption /\ OneClient => (Spec => []RowsHaveOwners)
<1> SUFFICES ASSUME Assumption, OneClient PROVE Spec => []RowsHaveOwners
  OBVIOUS
<1>1. Init => Types /\ RowsInv
  BY TypesInit, RowsInit
<1>2. Types /\ RowsInv /\ [Next]_vars => (Types /\ RowsInv)'
  BY TypesStep, RowsStep
<1>3. RowsInv => RowsHaveOwners
  BY DEF RowsInv, RowsHaveOwners, Resting, HasGroup, HasCategory, Clears, Inserts
<1> QED
  BY <1>1, <1>2, <1>3, PTL DEF Spec

\* With one request at a time, an engine that is never late and has no work
\* when a deletion begins, and users who leave desktops alone meanwhile, no
\* desktop is left without the templates that its disk is based on: a template
\* is deleted with all that derives from it, whoever it belongs to.
THEOREM TemplatesStay ==
    Assumption /\ OneClient /\ Undisturbed => (Spec => []ParentsExist)
<1> SUFFICES ASSUME Assumption, OneClient, Undisturbed PROVE Spec => []ParentsExist
  OBVIOUS
<1>1. Init => Types /\ ParentsInv
  BY TypesInit, ParentsInit
<1>2. Types /\ ParentsInv /\ [Next]_vars => (Types /\ ParentsInv)'
  BY TypesStep, ParentsStep
<1>3. ParentsInv => ParentsExist
  BY DEF ParentsInv, ParentsExist, Resting, BasesThere, Empties, There
<1> QED
  BY <1>1, <1>2, <1>3, PTL DEF Spec
\* Under the same conditions no desktop or template is left without its user,
\* when users, groups and categories are deleted: the rows of a group or a
\* category go before the desktops that are in it, and no row goes whose
\* desktops do not go before the deletion ends.  The API's deletions of groups
\* and categories are left out, which delete the users and no desktop.
THEOREM UsersGoWithAll ==
    Assumption /\ OneClient /\ Undisturbed /\ DesktopsGoToo => (Spec => []DomainsHaveUsers)
<1> SUFFICES ASSUME Assumption, OneClient, Undisturbed, DesktopsGoToo PROVE Spec => []DomainsHaveUsers
  OBVIOUS
<1>1. Init => Types /\ ParentsInv /\ UsersInv
  BY TypesInit, ParentsInit, UsersInvInit
<1>2. Types /\ ParentsInv /\ UsersInv /\ [Next]_vars => (Types /\ ParentsInv /\ UsersInv)'
  BY TypesStep, ParentsStep, UsersStep
<1>3. UsersInv => DomainsHaveUsers
  BY DEF UsersInv, DomainsHaveUsers, HaveUsersOrGo, Resting, Empties, There
<1> QED
  BY <1>1, <1>2, <1>3, PTL DEF Spec

\* Under all these conditions the rows of accounts agree: nobody's desktop is
\* left behind, nothing is left without what it is made from, every user has a
\* group and every group a category, and limits nest.
THEOREM AccountsStay ==
    Assumption /\ OneClient /\ Undisturbed /\ DesktopsGoToo /\ "category_limit" \notin Ops
        => (Spec => []AccountsAgree)
<1> SUFFICES ASSUME Assumption, OneClient, Undisturbed, DesktopsGoToo, "category_limit" \notin Ops
             PROVE  Spec => []AccountsAgree
  OBVIOUS
<1>1. Spec => []DomainsHaveUsers
  BY UsersGoWithAll
<1>2. Spec => []ParentsExist
  BY TemplatesStay
<1>3. Spec => []RowsHaveOwners
  BY RowsKeepOwners
<1>4. Spec => []LimitsNest
  BY LimitsStayNested
<1> QED
  BY <1>1, <1>2, <1>3, <1>4, PTL DEF AccountsAgree
=============================================================================
