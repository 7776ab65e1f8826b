------------------------------ MODULE Quotas ------------------------------
(***************************************************************************)
(* Quotas of users and limits of their groups and categories: how the use  *)
(* of a resource is counted in the tables, when it counts as exhausted,    *)
(* and which refusal a request gets.  The class exists twice, in the API   *)
(* (WebappQuotas, "Copy from webapp quotas.py") and in the webapp.         *)
(*                                                                         *)
(* The resources are named as in the code: d desktops, r running desktops, *)
(* t templates, i media, u users, v virtual CPUs and m memory of what runs.*)
(* Memory is counted in the unit of the quotas.                            *)
(***************************************************************************)
EXTENDS Integers, Sequences, FiniteSets, FiniteSetsExt

CONSTANTS
    Users,
    GroupOf,        \* the group of each user
    CategoryOf,     \* the category of each user
    UserQuota,      \* the quota of each user, a function from resources to numbers, or NoLimit
    GroupLimits,    \* the limits of each group, or NoLimit
    CategoryLimits, \* the limits of each category, or NoLimit
    NoLimit

Resources == {"d", "r", "t", "i", "u", "v", "m"}
QuotasAssumption ==
    /\ DOMAIN GroupOf = Users /\ DOMAIN CategoryOf = Users
    /\ UserQuota \in [Users -> [Resources -> Nat] \cup {NoLimit}]
    /\ \A u \in Users : GroupOf[u] \in DOMAIN GroupLimits /\ CategoryOf[u] \in DOMAIN CategoryLimits
    /\ DOMAIN NoLimit = {}

\* int(round(n / d, 0)): the even neighbour when both are equally near.
Rounded(n, d) ==
    LET q == n \div d  twice == 2 * (n % d)
    IN IF twice > d \/ (twice = d /\ q % 2 = 1) THEN q + 1 ELSE q

Percent(used, limit) == IF limit = 0 THEN 100 ELSE Rounded(100 * used, limit)
\* The limits of groups and categories divide the memory without the factor 100.
MemoryOfMany(used, limit) == IF limit = 0 THEN 100 ELSE Rounded(used, limit)

(***************************************************************************)
(* Use of a resource by a set of users.  "doms" is the table of domains, a *)
(* function from ids to rows, "media" the owner of each medium, "enrolled" *)
(* the users of the table.                                                 *)
(***************************************************************************)
Owned(doms, us) == {d \in DOMAIN doms : doms[d].user \in us}
Started(doms, us) == {d \in Owned(doms, us) : doms[d].status = "Started"}
Desktops(doms, us) == {d \in Owned(doms, us) : doms[d].kind = "desktop"}
Used(doms, media, enrolled, us) ==
    [d |-> Cardinality(Desktops(doms, us)),
     r |-> Cardinality(Desktops(doms, us) \cap Started(doms, us)),
     t |-> Cardinality({d \in Owned(doms, us) : doms[d].kind = "user_template"}),
     i |-> Cardinality({x \in DOMAIN media : media[x] \in us}),
     u |-> Cardinality(enrolled \cap us),
     v |-> MapThenSumSet(LAMBDA d : doms[d].vcpus, Started(doms, us)),
     m |-> MapThenSumSet(LAMBDA d : doms[d].memory, Started(doms, us))]

UsedByUser(tables, u) == Used(tables.domains, tables.media, tables.users, {u})
\* Groups and categories count templates of every kind.
TemplatesOf(doms, us) == Cardinality({d \in Owned(doms, us) : doms[d].kind # "desktop"})
UsedByMany(tables, us) ==
    [Used(tables.domains, tables.media, tables.users, us) EXCEPT !.t = TemplatesOf(tables.domains, us)]
UsedByGroup(tables, g) == UsedByMany(tables, {u \in Users : GroupOf[u] = g})
UsedByCategory(tables, c) == UsedByMany(tables, {u \in Users : CategoryOf[u] = c})

Full(what, used, limit, many) ==
    (IF many /\ what = "m" THEN MemoryOfMany(used, limit) ELSE Percent(used, limit)) >= 100

FullFor(tables, u, who, what) ==
    CASE who = "user" -> what # "u" /\ UserQuota[u] # NoLimit
                         /\ Full(what, UsedByUser(tables, u)[what], UserQuota[u][what], FALSE)
      [] who = "group" -> GroupLimits[GroupOf[u]] # NoLimit
                          /\ Full(what, UsedByGroup(tables, GroupOf[u])[what],
                                  GroupLimits[GroupOf[u]][what], TRUE)
      [] who = "category" -> CategoryLimits[CategoryOf[u]] # NoLimit
                             /\ Full(what, UsedByCategory(tables, CategoryOf[u])[what],
                                     CategoryLimits[CategoryOf[u]][what], TRUE)

NotExceeded == <<"nobody", "nothing">>
\* The first of the user, its group and its category that has one of the resources exhausted.
FirstFull(tables, u, whats) ==
    LET n == Len(whats)
        asked == [k \in 1 .. 3 * n |-> <<<<"user", "group", "category">>[((k - 1) \div n) + 1],
                                         whats[((k - 1) % n) + 1]>>]
        full == {k \in 1 .. 3 * n : FullFor(tables, u, asked[k][1], asked[k][2])}
    IN IF full = {} THEN NotExceeded ELSE asked[Min(full)]

NewDesktop(tables, u) == FirstFull(tables, u, <<"d">>)
NewConcurrent(tables, u) == FirstFull(tables, u, <<"r", "v", "m">>)

(***************************************************************************)
(* What the API raises.  The class QuotaGroupNewConcurrentExceeded does not*)
(* exist: Python raises NameError in its place.                            *)
(***************************************************************************)
Fine == "fine"
DesktopCreate(tables, u) == IF NewDesktop(tables, u) = NotExceeded THEN Fine ELSE "NewDesktopExceeded"
\* Mutant: a start is only measured against the quota of virtual CPUs and memory.
DesktopStartNoCount(tables, u) ==
    LET full == FirstFull(tables, u, <<"v", "m">>) IN IF full = NotExceeded THEN Fine ELSE "VcpuExceeded"
DesktopStart(tables, u) ==
    LET full == NewConcurrent(tables, u)
    IN CASE full = NotExceeded -> Fine
         [] full[2] = "v" -> "VcpuExceeded"
         [] full[2] = "m" -> "MemoryExceeded"
         [] full = <<"group", "r">> -> "NameError"
         [] OTHER -> "ConcurrentExceeded"
DesktopCreateAndStart(tables, u) ==
    IF DesktopCreate(tables, u) = Fine THEN DesktopStart(tables, u) ELSE DesktopCreate(tables, u)

=============================================================================
