------------------------------ MODULE Alloweds ------------------------------
(***************************************************************************)
(* With whom templates, media and interfaces are shared, the form that     *)
(* changes it, and the lists that are made of it.                          *)
(*                                                                         *)
(* The row of an item has the key "allowed": per kind of who (roles,       *)
(* categories, groups, users) either False, the kind does not count, or a  *)
(* list of ids, of which the empty one stands for everybody.  The form     *)
(* shows the ids whose rows are still there, and is saved as a whole: the  *)
(* webapp reads the row, puts the kinds of the form over it and writes it. *)
(* Every list of the API and of the webapp goes through the kinds in a     *)
(* copy of its own of the same code, each with its own exceptions.  The    *)
(* test of the kinds is the same in all of them, and is Matches here; what *)
(* each copy selects besides is its own operator.                          *)
(***************************************************************************)
EXTENDS Naturals, FiniteSets

CONSTANTS
    Users, Items,
    No,                 \* False, no row, nothing
    Default,            \* the interface "default"
    Attribute,          \* Attribute[u]: the role, category, group and id of a user
    KindOf, Owner,      \* kind and owner of an item
    SharesTemplates,    \* the configuration of the webapp
    TemplateNets,       \* the interfaces a template may have
    Given,              \* with whom items are shared at first, and new templates
    Clients, Ops,
    MaxTouches,         \* bound on the kinds that are changed in a form
    MaxOps              \* bound on what is done

Kinds == {"roles", "categories", "groups", "users"}
ItemKinds == {"base", "template", "medium", "interface"}
AllOps == {"save", "template", "api_template", "enable", "hardware", "iso", "item_goes", "row_goes"}
Of(k) == {Attribute[u][k] : u \in Users}
TermIds == UNION {Of(k) : k \in Kinds}

Allowed == [Kinds -> (SUBSET TermIds) \cup {No}]
Row == [allowed : Allowed, enabled : BOOLEAN \cup {No}, ready : BOOLEAN]

Assumption ==
    /\ \A u \in Users : DOMAIN Attribute[u] = Kinds /\ Attribute[u].users = u
    /\ \A k, l \in Kinds : k # l => Of(k) \cap Of(l) = {}
    /\ KindOf \in [Items -> ItemKinds] /\ Owner \in [Items -> Users]
    /\ \A i \in Items : KindOf[i] = "interface" => Attribute[Owner[i]].roles = "admin"
    /\ No \notin Users \cup Items \cup BOOLEAN /\ No \notin {s : s \in SUBSET TermIds} /\ No \notin Row
    /\ Default \notin Items
    /\ SharesTemplates \in BOOLEAN
    /\ \A s \in TemplateNets : s \subseteq Items /\ s # {}
    /\ Given \subseteq Allowed
    /\ Ops \subseteq AllOps /\ MaxOps \in Nat /\ MaxTouches \in Nat

VARIABLES
    present,    \* the users, groups and categories that have a row, and the roles
    item,       \* the rows of items
    client,     \* the form a page has open, and the request that saves it
    ops         \* what was done so far

vars == <<present, item, client, ops>>

Idle == [pc |-> "idle", user |-> No, item |-> No, form |-> No, touched |-> {}, nets |-> {}]

Client == [pc : {"idle", "form", "writes", "hardware", "iso", "inserts"}, user : Users \cup {No}, item : Items \cup {No},
           form : Allowed \cup {No}, touched : SUBSET Kinds, nets : SUBSET (Items \cup {Default})]

TypeOK ==
    /\ present \subseteq TermIds
    /\ item \in [Items -> Row \cup {No}]
    /\ client \in [Clients -> Client]
    /\ \A c \in Clients :
        /\ client[c].pc \in {"form", "writes"} => client[c].form \in Allowed /\ client[c].item \in Items
        /\ client[c].pc # "idle" => client[c].user \in Users
    /\ ops \in 0 .. MaxOps

Shared(a) == [allowed |-> a, enabled |-> TRUE, ready |-> TRUE]

Init ==
    /\ present = TermIds
    /\ item \in [Items -> {Shared(a) : a \in Given} \cup {No}]
    /\ \A i \in Items : item[i] = No <=> KindOf[i] = "template"
    /\ client = [c \in Clients |-> Idle]
    /\ ops = 0

Asked(op) == op \in Ops /\ ops < MaxOps /\ ops' = ops + 1
Goes(c, r) == client' = [client EXCEPT ![c] = r]
Role(u) == Attribute[u].roles
ManagerOf(u, i) == Role(u) = "manager" /\ Attribute[u].categories = Attribute[Owner[i]].categories
Is(i, kinds) == item[i] # No /\ KindOf[i] \in kinds

----------------------------------------------------------------------------
(* The lists.                                                              *)

\* a[k] is an empty list, or one that has what u is of that kind.
Grants(a, k, u) == a[k] # No /\ (a[k] = {} \/ Attribute[u][k] \in a[k])
Matches(i, u) == \E k \in Kinds : Grants(item[i].allowed, k, u)

Enabled(i) == Is(i, {"template"}) /\ item[i].enabled = TRUE

\* The templates the API offers, and whether it makes a desktop of one.
Templates(u) == {i \in Items :
    /\ Is(i, {"base"}) \/ Enabled(i)
    /\ Role(u) = "admin" \/ ManagerOf(u, i) \/ Owner[i] = u \/ Matches(i, u)}
AllowedTemplate(u, i) ==
    item[i] # No /\ (Owner[i] = u \/ Role(u) = "admin" \/ ManagerOf(u, i) \/ Matches(i, u))

\* The templates the webapp offers: those of owners who have a row ...
AllowedDomains(u) == {i \in Items :
    Enabled(i) /\ Owner[i] \in present /\ (Role(u) = "admin" \/ Owner[i] = u \/ Matches(i, u))}
\* ... that are finished and, but to administrators, of their category or of administrators.
AllTemplates(u) == {i \in AllowedDomains(u) :
    /\ item[i].ready
    /\ \/ Role(u) = "admin" \/ Role(Owner[i]) = "admin" \/ SharesTemplates
       \/ Attribute[u].categories = Attribute[Owner[i]].categories}

\* The templates whose users, groups and categories filter the form of a new desktop.
PublicTemplates(u) == {i \in Items : Is(i, {"template"}) /\ Matches(i, u)}

\* The media of the API, of the administration of a manager, and of the form of a desktop.
Media(u) == {i \in Items :
    Is(i, {"medium"}) /\ (Role(u) = "admin" \/ ManagerOf(u, i) \/ Owner[i] = u \/ Matches(i, u))}
AllowedTable(u) == {i \in Items : Is(i, {"medium"}) /\ (Owner[i] = u \/ Matches(i, u))}
AllowedTerm(u) == {i \in Items : Is(i, {"medium"}) /\ (Owner[i] = u \/ Matches(i, u))}
SelectMedia(u) == {i \in AllowedTerm(u) :
    item[i].ready /\ (Role(u) = "admin" \/ Attribute[u].categories = Attribute[Owner[i]].categories)}

\* The interfaces a user may give desktops: nobody owns them.
HardwareAllowed(u) == {i \in Items : Is(i, {"interface"}) /\ Matches(i, u)}

----------------------------------------------------------------------------
(* The form.                                                               *)

\* Who has a page with the button: owners, administrators, and managers for their category.
MayOpen(u, i) == u \in present /\ item[i] # No /\ (Role(u) = "admin" \/ ManagerOf(u, i) \/ Owner[i] = u)

\* Whom the webapp tells the row: it looks for the item of an owner among the domains.
OwnsIdOrTag(u, i) == Role(u) = "admin" \/ ManagerOf(u, i) \/ (Owner[i] = u /\ KindOf[i] # "medium")

\* What is saved when the form shows an unchecked kind, and a checked one.
Unchecked == [k \in Kinds |-> No]
Select2(a) == [k \in Kinds |-> IF a[k] = No THEN No ELSE a[k] \cap present]

OpensForm(c, u, i) ==
    /\ client[c].pc = "idle" /\ Asked("save") /\ MayOpen(u, i)
    /\ Goes(c, [Idle EXCEPT !.pc = "form", !.user = u, !.item = i,
                            !.form = IF OwnsIdOrTag(u, i) THEN Select2(item[i].allowed) ELSE Unchecked])
    /\ UNCHANGED <<present, item>>

\* What the form offers: to others than administrators only what is in their category.
Terms(u, k) == {x \in present \cap Of(k) :
    Role(u) = "admin" \/ \E v \in Users : Attribute[v][k] = x /\ Attribute[v].categories = Attribute[u].categories}

\* The kinds the form has.
FormKinds(u) == IF Role(u) = "admin" THEN Kinds ELSE {"groups", "users"}

\* A kind is unchecked, which empties it, or ids are taken away or added.
Touches(c, k) ==
    LET r == client[c]
        chosen == IF r.form[k] = No THEN {} ELSE r.form[k]
        values == {No, {}} \cup {chosen \ {x} : x \in chosen} \cup {chosen \cup {x} : x \in Terms(r.user, k)}
    IN
    /\ r.pc = "form" /\ k \in FormKinds(r.user) \ r.touched /\ Cardinality(r.touched) < MaxTouches
    /\ \E v \in values : Goes(c, [r EXCEPT !.form[k] = v, !.touched = @ \cup {k}])
    /\ UNCHANGED <<present, item, ops>>

\* The page is closed, or the row to read is gone.
GivesUp(c) ==
    /\ client[c].pc = "form" /\ Goes(c, Idle)
    /\ UNCHANGED <<present, item, ops>>

\* The row is read, and the kinds of the form are put over it.
Merged(old, form, u) == [k \in Kinds |-> IF k \in FormKinds(u) THEN form[k] ELSE old[k]]

ReadsRow(c) ==
    LET r == client[c] IN
    /\ r.pc = "form" /\ item[r.item] # No
    /\ Goes(c, [r EXCEPT !.pc = "writes", !.form = Merged(item[r.item].allowed, r.form, r.user)])
    /\ UNCHANGED <<present, item, ops>>

WritesRow(c) ==
    LET r == client[c] IN
    /\ r.pc = "writes" /\ Goes(c, Idle)
    /\ item' = IF item[r.item] = No THEN item ELSE [item EXCEPT ![r.item].allowed = r.form]
    /\ UNCHANGED <<present, ops>>

----------------------------------------------------------------------------
(* Templates.                                                              *)

NewRow(a, e) == [allowed |-> a, enabled |-> e, ready |-> FALSE]

\* The webapp: who is no administrator cannot give roles and categories, which are False then.
TemplateFromDomain(u, i, a, e) ==
    /\ Asked("template") /\ u \in present /\ Owner[i] = u /\ KindOf[i] = "template" /\ item[i] = No
    /\ \A k \in Kinds : a[k] # No => k \in FormKinds(u) /\ a[k] \subseteq Terms(u, k)
    /\ item' = [item EXCEPT ![i] = NewRow(a, e)]
    /\ UNCHANGED <<present, client>>

\* The API: a kind that is not given is an empty list, and the row has no "enabled".
ApiTemplate(u, i, a) ==
    /\ Asked("api_template") /\ u \in present /\ Owner[i] = u /\ KindOf[i] = "template" /\ item[i] = No
    /\ \A k \in Kinds : a[k] # No
    /\ item' = [item EXCEPT ![i] = NewRow(a, No)]
    /\ UNCHANGED <<present, client>>

TemplateUpdate(u, i, e) ==
    /\ Asked("enable") /\ MayOpen(u, i) /\ KindOf[i] = "template"
    /\ item' = [item EXCEPT ![i].enabled = e]
    /\ UNCHANGED <<present, client>>

\* The engine made the disk of a template.
Ready(i) ==
    /\ item[i] # No /\ ~ item[i].ready
    /\ item' = [item EXCEPT ![i].ready = TRUE]
    /\ UNCHANGED <<present, client, ops>>

ItemGoes(i) ==
    /\ Asked("item_goes") /\ item[i] # No
    /\ item' = [item EXCEPT ![i] = No]
    /\ UNCHANGED <<present, client>>

\* Mutant: its id is taken out of the rows of items, which leaves empty lists.
RowGoesEverywhere(x) ==
    /\ Asked("row_goes") /\ x \in present \ Of("roles")
    /\ x \in Users \/ \A v \in Users : x \in {Attribute[v].groups, Attribute[v].categories} => v \notin present
    /\ present' = present \ {x}
    /\ item' = [i \in Items |-> IF item[i] = No THEN No ELSE [item[i] EXCEPT !.allowed =
                   [k \in Kinds |-> IF item[i].allowed[k] = No THEN No ELSE item[i].allowed[k] \ {x}]]]
    /\ UNCHANGED client

\* A user, or a group or category without users, is deleted: its id stays in the rows of items.
RowGoes(x) ==
    /\ Asked("row_goes") /\ x \in present \ Of("roles")
    /\ x \in Users \/ \A v \in Users : x \in {Attribute[v].groups, Attribute[v].categories} => v \notin present
    /\ present' = present \ {x}
    /\ UNCHANGED <<item, client>>

----------------------------------------------------------------------------
(* Interfaces of a new desktop.                                            *)

\* The page reads what the user may give.
OpensDesktop(c, u, op) ==
    /\ client[c].pc = "idle" /\ Asked(op) /\ u \in present
    /\ Goes(c, [Idle EXCEPT !.pc = op, !.user = u, !.nets = HardwareAllowed(u)])
    /\ UNCHANGED <<present, item>>

\* A desktop of a template has the interfaces of the form, or those of the template where the form
\* gives no choice or none was made; only the first of them is looked at.
LimitsHardware(c, nets, first) ==
    LET r == client[c] IN
    /\ r.pc = "hardware" /\ first \in nets
    /\ nets \in TemplateNets \/ (nets \subseteq r.nets /\ Cardinality(r.nets) # 1)
    /\ Goes(c, [r EXCEPT !.pc = "inserts", !.nets = IF first \in HardwareAllowed(r.user) THEN nets ELSE {Default}])
    /\ UNCHANGED <<present, item, ops>>

\* One from a medium has that of the form, or the first that is allowed.
HardwareFromIso(c, n) ==
    LET r == client[c]
        allowed == HardwareAllowed(r.user)
    IN
    /\ r.pc = "iso"
    /\ n \in IF Cardinality(r.nets) > 1 THEN r.nets ELSE IF allowed # {} THEN allowed ELSE {Default}
    /\ Goes(c, [r EXCEPT !.pc = "inserts", !.nets = {n}])
    /\ UNCHANGED <<present, item, ops>>

\* The desktop is inserted with them.
Inserts(c) ==
    /\ client[c].pc = "inserts" /\ Goes(c, Idle)
    /\ UNCHANGED <<present, item, ops>>

----------------------------------------------------------------------------
FormNext(c) ==
    \/ \E u \in Users, i \in Items : OpensForm(c, u, i)
    \/ \E k \in Kinds : Touches(c, k)
    \/ GivesUp(c) \/ ReadsRow(c) \/ WritesRow(c)

DesktopNext(c) ==
    \/ \E u \in Users, op \in {"hardware", "iso"} : OpensDesktop(c, u, op)
    \/ \E nets \in SUBSET Items, first \in Items : LimitsHardware(c, nets, first)
    \/ \E n \in Items \cup {Default} : HardwareFromIso(c, n)
    \/ Inserts(c)

Next ==
    \/ \E c \in Clients : FormNext(c) \/ DesktopNext(c)
    \/ \E u \in Users, i \in Items, a \in Given, e \in BOOLEAN : TemplateFromDomain(u, i, a, e)
    \/ \E u \in Users, i \in Items, a \in Given : ApiTemplate(u, i, a)
    \/ \E u \in Users, i \in Items, e \in BOOLEAN : TemplateUpdate(u, i, e)
    \/ \E i \in Items : Ready(i) \/ ItemGoes(i)
    \/ \E x \in TermIds : RowGoes(x)

Spec == Init /\ [][Next]_vars

----------------------------------------------------------------------------
(* Properties.                                                             *)

\* What is saved shares a kind that nobody touched with the same users as before: ids that the form
\* drops are of nobody.  The exception is the list that names nobody any more: it becomes empty,
\* and stands for everybody.  This is with one form at a time, of an item that is not made anew
\* meanwhile, and not for who owns a medium, to whom the form shows nothing.
NamesNobody(a, k) == a[k] \notin {No, {}} /\ a[k] \cap present = {}
SavesKeepAccess == \A c \in Clients :
    LET r == client[c]
        old == item[r.item].allowed
    IN
    r.pc = "writes" /\ item[r.item] # No /\ OwnsIdOrTag(r.user, r.item) =>
        \A k \in Kinds \ r.touched : NamesNobody(old, k) \/
            \A u \in Users \cap present : Grants(old, k, u) <=> Grants(r.form, k, u)

\* Whom an item is offered to changes only with what somebody asks for: no save of a form in which
\* nothing was touched, and no deletion of users, groups and categories, adds it to a list of those who
\* are there or takes it from one, but for the templates of the owner who goes, which the webapp offers
\* no longer.  The exceptions are those of SavesKeepAccess.
Offers(u) ==
    ({"templates"} \X Templates(u)) \cup ({"made"} \X {i \in Items : AllowedTemplate(u, i)})
    \cup ({"webapp"} \X AllTemplates(u)) \cup ({"filters"} \X PublicTemplates(u))
    \cup ({"media"} \X Media(u)) \cup ({"administration"} \X AllowedTable(u)) \cup ({"form"} \X SelectMedia(u))
SameItem(i) ==
    /\ item[i] # No /\ item'[i] # No
    /\ item'[i].enabled = item[i].enabled /\ item'[i].ready = item[i].ready
AskedToShare(i) == \E c \in Clients :
    /\ WritesRow(c) /\ client[c].item = i
    /\ \/ client[c].touched # {} \/ ~ OwnsIdOrTag(client[c].user, i)
       \/ \E k \in Kinds : NamesNobody(item[i].allowed, k)
Stays(i) == SameItem(i) /\ ~ AskedToShare(i)
OffersStep == \A u \in Users \cap present' :
    /\ \A o \in Offers(u)' \ Offers(u) : ~ Stays(o[2])
    /\ \A o \in Offers(u) \ Offers(u)' : Stays(o[2]) => Owner[o[2]] \notin present'
OffersKeep == [][OffersStep]_<<present, item>>

\* A desktop is made with interfaces that its user may use, or with the default one.  This is when
\* nobody changes them meanwhile and templates have one interface, for only one is looked at.
HardwareIsLimited == \A c \in Clients :
    client[c].pc = "inserts" => client[c].nets \subseteq HardwareAllowed(client[c].user) \cup {Default}
=============================================================================
