---------------------------- MODULE AllowedProofs ----------------------------
(***************************************************************************)
(* Proofs about Alloweds: its types, that a form keeps the access it was   *)
(* not asked to change, and that desktops have the interfaces their user   *)
(* is allowed.                                                             *)
(***************************************************************************)
EXTENDS Alloweds, TLAPS

\* One page at a time.
OneClient == \A c, d \in Clients : c = d
\* A template that is deleted is not made anew.
NoneMadeAnew == "item_goes" \in Ops => Ops \cap {"template", "api_template"} = {}
\* Templates have one interface.
OneNet == \A s \in TemplateNets : \E i \in Items : s = {i}

\* Who has a row has the group, the category and the role it names.
PresentCloses == \A u \in Users \cap present : \A k \in Kinds : Attribute[u][k] \in present

\* new says of those who are there what old says.
Keeps(there, old, new) ==
    IF old = No THEN new = No ELSE new # No /\ new \subseteq old /\ old \cap there \subseteq new

\* The form shows, of what nobody touched, what the row has.
FormsKeep == \A c \in Clients :
    client[c].pc \in {"form", "writes"} /\ item[client[c].item] # No /\ OwnsIdOrTag(client[c].user, client[c].item) =>
        \A k \in Kinds \ client[c].touched : Keeps(present, item[client[c].item].allowed[k], client[c].form[k])

\* The item of a form stays, unless items are deleted.
ItemsStay == "item_goes" \notin Ops =>
    \A c \in Clients : client[c].pc \in {"form", "writes"} => item[client[c].item] # No

AccessInv == TypeOK /\ PresentCloses /\ FormsKeep /\ ItemsStay

\* What a page may give to a desktop is allowed.
MayGive(rows, u) == {i \in Items : rows[i] # No /\ KindOf[i] = "interface" /\ \E k \in Kinds : Grants(rows[i].allowed, k, u)}
NetsAreAllowed == \A c \in Clients :
    /\ client[c].pc \in {"hardware", "iso"} => client[c].nets \subseteq MayGive(item, client[c].user)
    /\ client[c].pc = "inserts" => client[c].nets \subseteq MayGive(item, client[c].user) \cup {Default}

LimitInv == TypeOK /\ NetsAreAllowed

----------------------------------------------------------------------------
(* Types.                                                                  *)

Knowing == {r \in Client :
    /\ r.pc \in {"form", "writes"} => r.form \in Allowed /\ r.item \in Items
    /\ r.pc # "idle" => r.user \in Users}

LEMMA KnowingClients == TypeOK => client \in [Clients -> Knowing]
BY DEF TypeOK, Knowing

LEMMA TypesFromKnowing ==
    ASSUME present \subseteq TermIds, item \in [Items -> Row \cup {No}], client \in [Clients -> Knowing],
           ops \in 0 .. MaxOps
    PROVE  TypeOK
BY DEF TypeOK, Knowing

LEMMA IdleKnows == Idle \in Knowing
BY DEF Idle, Knowing, Client

LEMMA RowsAreRows ==
    ASSUME TypeOK, NEW i \in Items, item[i] # No
    PROVE  item[i] \in Row /\ item[i].allowed \in Allowed
BY DEF TypeOK, Row

LEMMA AskedTypes == ASSUME Assumption, TypeOK, NEW op, Asked(op) PROVE ops' \in 0 .. MaxOps
BY DEF Assumption, TypeOK, Asked

LEMMA GoesTypes ==
    ASSUME TypeOK, NEW c \in Clients, NEW r \in Knowing, Goes(c, r)
    PROVE  client' \in [Clients -> Knowing]
BY KnowingClients DEF Goes

LEMMA InitTypes == Assumption /\ Init => TypeOK
<1> SUFFICES ASSUME Assumption, Init PROVE TypeOK
  OBVIOUS
<1>1. \A a \in Given : Shared(a) \in Row
  BY DEF Assumption, Shared, Row, Allowed
<1>2. item \in [Items -> Row \cup {No}]
  BY <1>1 DEF Init
<1>3. client \in [Clients -> Knowing]
  BY IdleKnows DEF Init
<1>4. ops \in 0 .. MaxOps
  BY DEF Init, Assumption
<1> QED
  BY <1>2, <1>3, <1>4, TypesFromKnowing DEF Init

\* What a form is opened with, and what it becomes.
LEMMA OpensTypes ==
    ASSUME Assumption, TypeOK, NEW c \in Clients, NEW u \in Users, NEW i \in Items, OpensForm(c, u, i)
    PROVE  \E r \in Knowing :
             /\ Goes(c, r) /\ r.pc = "form" /\ r.user = u /\ r.item = i /\ r.touched = {}
             /\ r.form = IF OwnsIdOrTag(u, i) THEN Select2(item[i].allowed) ELSE Unchecked
<1> DEFINE f == IF OwnsIdOrTag(u, i) THEN Select2(item[i].allowed) ELSE Unchecked
           r == [Idle EXCEPT !.pc = "form", !.user = u, !.item = i, !.form = f]
<1>1. item[i].allowed \in Allowed
  BY RowsAreRows DEF OpensForm, MayOpen
<1>2. Select2(item[i].allowed) \in Allowed
  BY <1>1 DEF Select2, Allowed
<1>3. Unchecked \in Allowed
  BY DEF Unchecked, Allowed
<1>4. f \in Allowed
  BY <1>2, <1>3
<1> HIDE DEF f
<1>6. r \in Knowing /\ r.pc = "form" /\ r.user = u /\ r.item = i /\ r.touched = {} /\ r.form = f
  BY <1>4 DEF Idle, Knowing, Client
<1> USE DEF f
<1>7. Goes(c, r)
  BY DEF OpensForm
<1> QED
  BY <1>6, <1>7

LEMMA TouchesTypes ==
    ASSUME Assumption, TypeOK, NEW c \in Clients, NEW k \in Kinds, Touches(c, k)
    PROVE  \E r \in Knowing :
             /\ Goes(c, r) /\ r.pc = "form" /\ client[c].pc = "form" /\ r.user = client[c].user
             /\ r.item = client[c].item /\ r.touched = client[c].touched \cup {k}
             /\ \A l \in Kinds \ {k} : r.form[l] = client[c].form[l]
<1> DEFINE o == client[c]
           chosen == IF o.form[k] = No THEN {} ELSE o.form[k]
<1>1. o \in Knowing /\ o.pc = "form" /\ o.form \in Allowed /\ o.item \in Items /\ o.user \in Users
  BY KnowingClients DEF Touches, Knowing
<1>2. chosen \subseteq TermIds
  BY <1>1 DEF Allowed
<1>3. PICK v \in {No, {}} \cup {chosen \ {x} : x \in chosen} \cup {chosen \cup {x} : x \in Terms(o.user, k)} :
        Goes(c, [o EXCEPT !.form[k] = v, !.touched = @ \cup {k}])
  BY DEF Touches
<1>4. v \in (SUBSET TermIds) \cup {No}
  BY <1>2, <1>3 DEF Terms, Of, TermIds, TypeOK
<1> DEFINE r == [o EXCEPT !.form[k] = v, !.touched = @ \cup {k}]
<1>5. r = [o EXCEPT !.form = [o.form EXCEPT ![k] = v], !.touched = o.touched \cup {k}]
  BY <1>1 DEF Knowing, Client
<1>6. [o.form EXCEPT ![k] = v] \in Allowed
  BY <1>1, <1>4 DEF Allowed
<1>7. r \in Knowing /\ r.pc = "form" /\ r.user = o.user /\ r.item = o.item /\ r.touched = o.touched \cup {k}
  BY <1>1, <1>5, <1>6 DEF Knowing, Client
<1>8. \A l \in Kinds \ {k} : r.form[l] = o.form[l]
  BY <1>1, <1>5 DEF Knowing, Client, Allowed
<1> QED
  BY <1>1, <1>3, <1>7, <1>8

LEMMA ReadsTypes ==
    ASSUME Assumption, TypeOK, NEW c \in Clients, ReadsRow(c)
    PROVE  \E r \in Knowing :
             /\ Goes(c, r) /\ r.pc = "writes" /\ client[c].pc = "form" /\ r.user = client[c].user
             /\ r.item = client[c].item /\ r.touched = client[c].touched
             /\ item[r.item] # No
             /\ r.form = Merged(item[client[c].item].allowed, client[c].form, client[c].user)
<1> DEFINE o == client[c]
           f == Merged(item[o.item].allowed, o.form, o.user)
           r == [o EXCEPT !.pc = "writes", !.form = f]
<1>1. o \in Knowing /\ o.pc = "form" /\ o.form \in Allowed /\ o.item \in Items /\ o.user \in Users
  BY KnowingClients DEF ReadsRow, Knowing
<1>2. item[o.item] # No
  BY DEF ReadsRow
<1>3. item[o.item].allowed \in Allowed
  BY <1>1, <1>2, RowsAreRows
<1>4. f \in Allowed
  BY <1>1, <1>3 DEF Merged, Allowed
<1> HIDE DEF f
<1>5. r \in Knowing /\ r.pc = "writes" /\ r.user = o.user /\ r.item = o.item /\ r.touched = o.touched /\ r.form = f
  BY <1>1, <1>4 DEF Knowing, Client
<1> USE DEF f
<1>6. Goes(c, r)
  BY DEF ReadsRow
<1> QED
  BY <1>1, <1>2, <1>5, <1>6

\* The pages of new desktops.
LEMMA DesktopTypes ==
    ASSUME Assumption, TypeOK, NEW c \in Clients, DesktopNext(c)
    PROVE  \E r \in Knowing : Goes(c, r) /\ r.pc \notin {"form", "writes"}
<1> DEFINE o == client[c]
<1>1. o \in Knowing
  BY KnowingClients
<1>2. \A u : HardwareAllowed(u) \subseteq Items
  BY DEF HardwareAllowed
<1>3. ASSUME NEW u \in Users, NEW op \in {"hardware", "iso"}, OpensDesktop(c, u, op)
      PROVE  \E r \in Knowing : Goes(c, r) /\ r.pc \notin {"form", "writes"}
  <2> DEFINE r == [Idle EXCEPT !.pc = op, !.user = u, !.nets = HardwareAllowed(u)]
  <2>1. r \in Knowing /\ r.pc = op
    BY <1>2 DEF Idle, Knowing, Client
  <2> QED
    BY <1>3, <2>1 DEF OpensDesktop
<1>4. ASSUME NEW s \in SUBSET (Items \cup {Default}), o.pc \in {"hardware", "iso"}
      PROVE  [o EXCEPT !.pc = "inserts", !.nets = s] \in Knowing /\ [o EXCEPT !.pc = "inserts", !.nets = s].pc = "inserts"
  BY <1>1, <1>4 DEF Knowing, Client
<1>5. ASSUME NEW nets \in SUBSET Items, NEW first \in Items, LimitsHardware(c, nets, first)
      PROVE  \E r \in Knowing : Goes(c, r) /\ r.pc \notin {"form", "writes"}
  <2>1. PICK s : s = IF first \in HardwareAllowed(o.user) THEN nets ELSE {Default}
    OBVIOUS
  <2>2. s \in SUBSET (Items \cup {Default}) /\ o.pc = "hardware" /\ Goes(c, [o EXCEPT !.pc = "inserts", !.nets = s])
    BY <1>5, <2>1 DEF LimitsHardware
  <2> QED
    BY <1>4, <2>2
<1>6. ASSUME NEW n \in Items \cup {Default}, HardwareFromIso(c, n)
      PROVE  \E r \in Knowing : Goes(c, r) /\ r.pc \notin {"form", "writes"}
  <2>1. o.pc = "iso" /\ Goes(c, [o EXCEPT !.pc = "inserts", !.nets = {n}])
    BY <1>6 DEF HardwareFromIso
  <2> QED
    BY <1>4, <2>1
<1>7. ASSUME Inserts(c) PROVE \E r \in Knowing : Goes(c, r) /\ r.pc \notin {"form", "writes"}
  BY <1>7, IdleKnows DEF Inserts, Idle
<1> QED
  BY <1>3, <1>5, <1>6, <1>7 DEF DesktopNext

\* A page changes its own form, and the row it writes.
LEMMA PageTypes ==
    ASSUME Assumption, TypeOK, NEW c \in Clients, FormNext(c) \/ DesktopNext(c)
    PROVE  TypeOK'
<1>1. present' = present
  BY DEF FormNext, DesktopNext, OpensForm, Touches, GivesUp, ReadsRow, WritesRow, OpensDesktop, LimitsHardware,
         HardwareFromIso, Inserts
<1>2. ops' \in 0 .. MaxOps
  <2>1. (\E op : Asked(op)) \/ UNCHANGED ops
    BY DEF FormNext, DesktopNext, OpensForm, Touches, GivesUp, ReadsRow, WritesRow, OpensDesktop, LimitsHardware,
           HardwareFromIso, Inserts
  <2> QED
    BY <2>1, AskedTypes DEF TypeOK
<1>3. client' \in [Clients -> Knowing]
  <2>1. CASE DesktopNext(c)
    BY <2>1, DesktopTypes, GoesTypes
  <2>2. CASE \E u \in Users, i \in Items : OpensForm(c, u, i)
    BY <2>2, OpensTypes, GoesTypes
  <2>3. CASE \E k \in Kinds : Touches(c, k)
    BY <2>3, TouchesTypes, GoesTypes
  <2>4. CASE ReadsRow(c)
    BY <2>4, ReadsTypes, GoesTypes
  <2>5. CASE GivesUp(c) \/ WritesRow(c)
    BY <2>5, IdleKnows, GoesTypes DEF GivesUp, WritesRow
  <2> QED
    BY <2>1, <2>2, <2>3, <2>4, <2>5 DEF FormNext
<1>4. item' \in [Items -> Row \cup {No}]
  <2>1. CASE WritesRow(c) /\ item[client[c].item] # No
    <3> DEFINE i == client[c].item
    <3>1. i \in Items /\ client[c].form \in Allowed
      BY <2>1 DEF WritesRow, TypeOK
    <3>2. item[i] \in Row
      BY <2>1, <3>1, RowsAreRows
    <3>3. [item[i] EXCEPT !.allowed = client[c].form] \in Row
      BY <3>1, <3>2 DEF Row
    <3>4. item' = [item EXCEPT ![i] = [item[i] EXCEPT !.allowed = client[c].form]]
      BY <2>1 DEF WritesRow
    <3> QED
      BY <3>1, <3>3, <3>4 DEF TypeOK
  <2>2. CASE ~ (WritesRow(c) /\ item[client[c].item] # No)
    <3>1. item' = item
      BY <2>2 DEF FormNext, DesktopNext, OpensForm, Touches, GivesUp, ReadsRow, WritesRow, OpensDesktop,
                  LimitsHardware, HardwareFromIso, Inserts
    <3> QED
      BY <3>1 DEF TypeOK
  <2> QED
    BY <2>1, <2>2
<1>5. present' \subseteq TermIds
  BY <1>1 DEF TypeOK
<1> QED
  BY <1>2, <1>3, <1>4, <1>5 DEF TypeOK, Knowing

\* The steps of others than pages.
Others ==
    \/ \E u \in Users, i \in Items, a \in Given, e \in BOOLEAN : TemplateFromDomain(u, i, a, e)
    \/ \E u \in Users, i \in Items, a \in Given : ApiTemplate(u, i, a)
    \/ \E u \in Users, i \in Items, e \in BOOLEAN : TemplateUpdate(u, i, e)
    \/ \E i \in Items : Ready(i) \/ ItemGoes(i)
    \/ \E x \in TermIds : RowGoes(x)

\* A row is made of a template, keeps with whom it is shared, or goes.
LEMMA OthersItems ==
    ASSUME Assumption, TypeOK, Others
    PROVE  /\ UNCHANGED client
           /\ ops' \in 0 .. MaxOps
           /\ \/ UNCHANGED item
              \/ \E i \in Items, row \in Row \cup {No} :
                   /\ item' = [item EXCEPT ![i] = row]
                   /\ \/ /\ item[i] = No /\ KindOf[i] = "template"
                         /\ Ops \cap {"template", "api_template"} # {}
                      \/ item[i] # No /\ row \in Row /\ row.allowed = item[i].allowed
                      \/ row = No /\ "item_goes" \in Ops
<1>1. UNCHANGED client
  BY DEF Others, TemplateFromDomain, ApiTemplate, TemplateUpdate, Ready, ItemGoes, RowGoes
<1>2. ops' \in 0 .. MaxOps
  <2>1. (\E op : Asked(op)) \/ UNCHANGED ops
    BY DEF Others, TemplateFromDomain, ApiTemplate, TemplateUpdate, Ready, ItemGoes, RowGoes
  <2> QED
    BY <2>1, AskedTypes DEF TypeOK
<1>3. ASSUME NEW a \in Given, NEW e \in BOOLEAN \cup {No} PROVE NewRow(a, e) \in Row
  BY DEF Assumption, NewRow, Row, Allowed
<1> DEFINE Good(i, row) ==
             /\ item' = [item EXCEPT ![i] = row]
             /\ \/ /\ item[i] = No /\ KindOf[i] = "template"
                   /\ Ops \cap {"template", "api_template"} # {}
                \/ item[i] # No /\ row \in Row /\ row.allowed = item[i].allowed
                \/ row = No /\ "item_goes" \in Ops
<1>4. ASSUME NEW u \in Users, NEW i \in Items, NEW a \in Given, NEW e \in BOOLEAN, TemplateFromDomain(u, i, a, e)
      PROVE  NewRow(a, e) \in Row /\ Good(i, NewRow(a, e))
  BY <1>3, <1>4 DEF TemplateFromDomain, Asked
<1>5. ASSUME NEW u \in Users, NEW i \in Items, NEW a \in Given, ApiTemplate(u, i, a)
      PROVE  NewRow(a, No) \in Row /\ Good(i, NewRow(a, No))
  BY <1>3, <1>5 DEF ApiTemplate, Asked
<1>6. ASSUME NEW u \in Users, NEW i \in Items, NEW e \in BOOLEAN, TemplateUpdate(u, i, e)
      PROVE  \E row \in Row : Good(i, row)
  <2>1. item[i] # No /\ item[i] \in Row
    BY <1>6, RowsAreRows DEF TemplateUpdate, MayOpen
  <2>2. [item[i] EXCEPT !.enabled = e] \in Row /\ [item[i] EXCEPT !.enabled = e].allowed = item[i].allowed
    BY <2>1 DEF Row
  <2>3. item' = [item EXCEPT ![i] = [item[i] EXCEPT !.enabled = e]]
    BY <1>6 DEF TemplateUpdate
  <2> QED
    BY <2>1, <2>2, <2>3
<1>7. ASSUME NEW i \in Items, Ready(i)
      PROVE  \E row \in Row : Good(i, row)
  <2>1. item[i] # No /\ item[i] \in Row
    BY <1>7, RowsAreRows DEF Ready
  <2>2. [item[i] EXCEPT !.ready = TRUE] \in Row /\ [item[i] EXCEPT !.ready = TRUE].allowed = item[i].allowed
    BY <2>1 DEF Row
  <2>3. item' = [item EXCEPT ![i] = [item[i] EXCEPT !.ready = TRUE]]
    BY <1>7 DEF Ready
  <2> QED
    BY <2>1, <2>2, <2>3
<1>8. ASSUME NEW i \in Items, ItemGoes(i) PROVE Good(i, No)
  BY <1>8 DEF ItemGoes, Asked
<1>9. ASSUME NEW x \in TermIds, RowGoes(x) PROVE UNCHANGED item
  BY <1>9 DEF RowGoes
<1> HIDE DEF Good
<1>10. UNCHANGED item \/ \E i \in Items, row \in Row \cup {No} : Good(i, row)
  BY <1>4, <1>5, <1>6, <1>7, <1>8, <1>9 DEF Others
<1> USE DEF Good
<1> QED
  BY <1>1, <1>2, <1>10

LEMMA OthersTypes == ASSUME Assumption, TypeOK, Others PROVE TypeOK'
<1>1. item' \in [Items -> Row \cup {No}] /\ client' = client /\ ops' \in 0 .. MaxOps
  BY OthersItems DEF TypeOK
<1>2. present' \subseteq TermIds
  BY DEF TypeOK, Others, TemplateFromDomain, ApiTemplate, TemplateUpdate, Ready, ItemGoes, RowGoes
<1> QED
  BY <1>1, <1>2 DEF TypeOK

LEMMA NextIsOne == Next => (\E c \in Clients : FormNext(c) \/ DesktopNext(c)) \/ Others
BY DEF Next, Others

LEMMA TypesStep == Assumption /\ TypeOK /\ [Next]_vars => TypeOK'
<1> SUFFICES ASSUME Assumption, TypeOK, [Next]_vars PROVE TypeOK'
  OBVIOUS
<1>1. CASE Next
  BY <1>1, NextIsOne, PageTypes, OthersTypes
<1>2. CASE UNCHANGED vars
  BY <1>2 DEF vars, TypeOK
<1> QED
  BY <1>1, <1>2

\* The tables and forms are well typed.
THEOREM AllowedTypes == Assumption /\ Spec => []TypeOK
<1> SUFFICES ASSUME Assumption PROVE Spec => []TypeOK
  OBVIOUS
<1> QED
  BY InitTypes, TypesStep, PTL DEF Spec

----------------------------------------------------------------------------
(* What a form keeps.                                                      *)

LEMMA NoIsNoSet == Assumption => \A s \in SUBSET TermIds : s # No
BY DEF Assumption

\* A kind as the form shows it, and as the row has it already.
LEMMA ShowsWhatIsThere ==
    ASSUME Assumption, TypeOK, NEW a \in Allowed, NEW k \in Kinds
    PROVE  Keeps(present, a[k], Select2(a)[k]) /\ Keeps(present, a[k], a[k])
<1>1. a[k] \in (SUBSET TermIds) \cup {No}
  BY DEF Allowed
<1>2. CASE a[k] = No
  BY <1>2 DEF Keeps, Select2
<1>3. CASE a[k] # No
  <2>1. Select2(a)[k] = a[k] \cap present
    BY <1>3 DEF Select2
  <2>2. a[k] \cap present \in SUBSET TermIds
    BY <1>1, <1>3
  <2> QED
    BY <1>3, <2>1, <2>2, NoIsNoSet DEF Keeps
<1> QED
  BY <1>2, <1>3

LEMMA ClosesInit == Assumption /\ Init => PresentCloses
BY DEF Init, PresentCloses, TermIds, Of

\* Who goes is nobody's group, category or role.
LEMMA ClosesStep == Assumption /\ TypeOK /\ PresentCloses /\ [Next]_vars => PresentCloses'
<1> SUFFICES ASSUME Assumption, TypeOK, PresentCloses, [Next]_vars PROVE PresentCloses'
  OBVIOUS
<1>1. CASE \E x \in TermIds : RowGoes(x)
  <2>1. PICK x \in TermIds : RowGoes(x)
    BY <1>1
  <2> SUFFICES ASSUME NEW u \in Users, u \in present', NEW k \in Kinds PROVE Attribute[u][k] \in present'
    BY DEF PresentCloses
  <2>2. present' = present \ {x} /\ u \in present /\ u # x /\ x \notin Of("roles")
    BY <2>1 DEF RowGoes
  <2>3. Attribute[u][k] \in present /\ Attribute[u].users = u
    BY <2>2 DEF PresentCloses, Assumption
  <2>4. Attribute[u][k] # x
    <3>1. CASE k = "roles"
      BY <2>2, <3>1 DEF Of
    <3>2. CASE k = "users"
      BY <2>2, <2>3, <3>2
    <3>3. CASE k \in {"groups", "categories"}
      <4>1. CASE x \in Users
        <5>1. x = Attribute[x].users
          BY <4>1 DEF Assumption
        <5>2. x \in Of("users") /\ Attribute[u][k] \in Of(k)
          BY <4>1, <5>1 DEF Of
        <5>3. Of("users") \cap Of(k) = {}
          BY <3>3 DEF Assumption, Kinds
        <5> QED
          BY <5>2, <5>3
      <4>2. CASE x \notin Users
        BY <2>1, <2>2, <3>3, <4>2 DEF RowGoes
      <4> QED
        BY <4>1, <4>2
    <3> QED
      BY <3>1, <3>2, <3>3 DEF Kinds
  <2> QED
    BY <2>2, <2>3, <2>4
<1>2. CASE ~ \E x \in TermIds : RowGoes(x)
  <2>1. present' = present
    BY <1>2 DEF Next, vars, FormNext, DesktopNext, OpensForm, Touches, GivesUp, ReadsRow, WritesRow, OpensDesktop,
                LimitsHardware, HardwareFromIso, Inserts, TemplateFromDomain, ApiTemplate, TemplateUpdate, Ready,
                ItemGoes
  <2> QED
    BY <2>1 DEF PresentCloses
<1> QED
  BY <1>1, <1>2

\* A step of a page.  Nobody else has a form that its writing could leave behind.
LEMMA PageKeeps ==
    ASSUME Assumption, OneClient, AccessInv, NEW c \in Clients, FormNext(c) \/ DesktopNext(c)
    PROVE  FormsKeep' /\ ItemsStay'
<1> USE DEF AccessInv
<1>1. present' = present
  BY DEF FormNext, DesktopNext, OpensForm, Touches, GivesUp, ReadsRow, WritesRow, OpensDesktop, LimitsHardware,
         HardwareFromIso, Inserts
<1>2. ASSUME NEW r \in Knowing, Goes(c, r), r.pc \notin {"form", "writes"}
      PROVE  FormsKeep' /\ ItemsStay'
  <2>1. \A d \in Clients : client'[d] = r
    BY <1>2 DEF Goes, OneClient, TypeOK
  <2> QED
    BY <1>2, <2>1 DEF FormsKeep, ItemsStay
<1>3. ASSUME NEW r \in Knowing, Goes(c, r), UNCHANGED item, item[r.item] # No,
             OwnsIdOrTag(r.user, r.item) => \A k \in Kinds \ r.touched : Keeps(present, item[r.item].allowed[k], r.form[k])
      PROVE  FormsKeep' /\ ItemsStay'
  <2>1. \A d \in Clients : client'[d] = r
    BY <1>3 DEF Goes, OneClient, TypeOK
  <2>2. ItemsStay'
    BY <1>3, <2>1 DEF ItemsStay
  <2>3. FormsKeep'
    BY <1>1, <1>3, <2>1 DEF FormsKeep, Keeps, OwnsIdOrTag, ManagerOf, Role
  <2> QED
    BY <2>2, <2>3
<1>4. CASE DesktopNext(c)
  BY <1>2, <1>4, DesktopTypes
<1>5. CASE GivesUp(c) \/ WritesRow(c)
  <2>1. Goes(c, Idle) /\ Idle.pc = "idle"
    BY <1>5 DEF GivesUp, WritesRow, Idle
  <2> QED
    BY <1>2, <2>1, IdleKnows
<1>6. CASE \E u \in Users, i \in Items : OpensForm(c, u, i)
  <2>1. PICK u \in Users, i \in Items : OpensForm(c, u, i)
    BY <1>6
  <2>2. PICK r \in Knowing :
          /\ Goes(c, r) /\ r.pc = "form" /\ r.user = u /\ r.item = i /\ r.touched = {}
          /\ r.form = IF OwnsIdOrTag(u, i) THEN Select2(item[i].allowed) ELSE Unchecked
    BY <2>1, OpensTypes
  <2>3. item[i] # No /\ UNCHANGED item
    BY <2>1 DEF OpensForm, MayOpen
  <2>4. item[i].allowed \in Allowed
    BY <2>3, RowsAreRows
  <2>5. OwnsIdOrTag(u, i) => \A k \in Kinds : Keeps(present, item[i].allowed[k], r.form[k])
    BY <2>2, <2>4, ShowsWhatIsThere
  <2> QED
    BY <1>3, <2>2, <2>3, <2>5
<1>7. CASE \E k \in Kinds : Touches(c, k)
  <2>1. PICK k \in Kinds : Touches(c, k)
    BY <1>7
  <2>2. PICK r \in Knowing :
          /\ Goes(c, r) /\ r.pc = "form" /\ client[c].pc = "form" /\ r.user = client[c].user
          /\ r.item = client[c].item /\ r.touched = client[c].touched \cup {k}
          /\ \A l \in Kinds \ {k} : r.form[l] = client[c].form[l]
    BY <2>1, TouchesTypes
  <2>3. UNCHANGED item
    BY <2>1 DEF Touches
  <2>4. CASE item[r.item] # No
    <3>1. OwnsIdOrTag(r.user, r.item) =>
            \A l \in Kinds \ client[c].touched : Keeps(present, item[r.item].allowed[l], client[c].form[l])
      BY <2>2, <2>4 DEF FormsKeep
    <3>2. OwnsIdOrTag(r.user, r.item) => \A l \in Kinds \ r.touched : Keeps(present, item[r.item].allowed[l], r.form[l])
      BY <2>2, <3>1
    <3> QED
      BY <1>3, <2>2, <2>3, <2>4, <3>2
  <2>5. CASE item[r.item] = No
    <3>1. \A d \in Clients : client'[d] = r
      BY <2>2 DEF Goes, OneClient, TypeOK
    <3>2. "item_goes" \in Ops
      BY <2>2, <2>5 DEF ItemsStay
    <3> QED
      BY <2>3, <2>5, <3>1, <3>2 DEF FormsKeep, ItemsStay
  <2> QED
    BY <2>4, <2>5
<1>8. CASE ReadsRow(c)
  <2>1. PICK r \in Knowing :
          /\ Goes(c, r) /\ r.pc = "writes" /\ client[c].pc = "form" /\ r.user = client[c].user
          /\ r.item = client[c].item /\ r.touched = client[c].touched
          /\ item[r.item] # No
          /\ r.form = Merged(item[client[c].item].allowed, client[c].form, client[c].user)
    BY <1>8, ReadsTypes
  <2>2. UNCHANGED item
    BY <1>8 DEF ReadsRow
  <2>3. r.item \in Items
    BY <2>1 DEF Knowing
  <2>4. PICK a \in Allowed : a = item[r.item].allowed
    BY <2>1, <2>3, RowsAreRows
  <2>5. OwnsIdOrTag(r.user, r.item) => \A k \in Kinds \ r.touched : Keeps(present, a[k], client[c].form[k])
    BY <2>1, <2>4 DEF FormsKeep
  <2>6. OwnsIdOrTag(r.user, r.item) => \A k \in Kinds \ r.touched : Keeps(present, a[k], r.form[k])
    BY <2>1, <2>4, <2>5, ShowsWhatIsThere DEF Merged
  <2> QED
    BY <1>3, <2>1, <2>2, <2>4, <2>6
<1> QED
  BY <1>4, <1>5, <1>6, <1>7, <1>8 DEF FormNext

\* A step of others: rows of items keep with whom they are shared, and who is there becomes fewer.
LEMMA OthersKeep ==
    ASSUME Assumption, NoneMadeAnew, AccessInv, Others
    PROVE  FormsKeep' /\ ItemsStay'
<1> USE DEF AccessInv
<1>1. client' = client
  BY OthersItems
<1>2. present' \subseteq present
  BY DEF Others, TemplateFromDomain, ApiTemplate, TemplateUpdate, Ready, ItemGoes, RowGoes
<1>3. \A old, new : Keeps(present, old, new) => Keeps(present', old, new)
  BY <1>2 DEF Keeps
<1>4. CASE UNCHANGED item
  <2>1. ItemsStay'
    BY <1>1, <1>4 DEF ItemsStay
  <2>2. FormsKeep'
    BY <1>1, <1>3, <1>4 DEF FormsKeep, OwnsIdOrTag, ManagerOf, Role
  <2> QED
    BY <2>1, <2>2
<1>5. ASSUME NEW i \in Items, NEW row \in Row \cup {No}, item' = [item EXCEPT ![i] = row],
             \/ /\ item[i] = No /\ KindOf[i] = "template"
                /\ Ops \cap {"template", "api_template"} # {}
             \/ item[i] # No /\ row \in Row /\ row.allowed = item[i].allowed
             \/ row = No /\ "item_goes" \in Ops
      PROVE  FormsKeep' /\ ItemsStay'
  <2>1. No \notin Row
    BY DEF Assumption
  <2>2. \A j \in Items : item'[j] = IF j = i THEN row ELSE item[j]
    BY <1>5 DEF TypeOK
  <2>3. ItemsStay'
    <3> SUFFICES ASSUME "item_goes" \notin Ops, NEW c \in Clients, client[c].pc \in {"form", "writes"}
                 PROVE  item'[client[c].item] # No
      BY <1>1 DEF ItemsStay
    <3>1. client[c].item \in Items /\ item[client[c].item] # No
      BY DEF ItemsStay, TypeOK
    <3> QED
      BY <1>5, <2>1, <2>2, <3>1
  <2>4. FormsKeep'
    <3> SUFFICES ASSUME NEW c \in Clients, client[c].pc \in {"form", "writes"}, item'[client[c].item] # No,
                        OwnsIdOrTag(client[c].user, client[c].item), NEW k \in Kinds \ client[c].touched
                 PROVE  Keeps(present', item'[client[c].item].allowed[k], client[c].form[k])
      BY <1>1 DEF FormsKeep, OwnsIdOrTag, ManagerOf, Role
    <3>1. client[c].item \in Items
      BY DEF TypeOK
    <3>2. item[client[c].item] # No
      BY <1>5, <2>2, <3>1 DEF ItemsStay, NoneMadeAnew
    <3>3. item'[client[c].item].allowed = item[client[c].item].allowed
      BY <1>5, <2>2, <3>1, <3>2
    <3>4. Keeps(present, item[client[c].item].allowed[k], client[c].form[k])
      BY <3>2 DEF FormsKeep
    <3>5. Keeps(present', item[client[c].item].allowed[k], client[c].form[k])
      BY <1>3, <3>4
    <3> QED
      BY <3>3, <3>5
  <2> QED
    BY <2>3, <2>4
<1> QED
  BY <1>4, <1>5, OthersItems

LEMMA AccessInit == Assumption /\ Init => AccessInv
<1> SUFFICES ASSUME Assumption, Init PROVE AccessInv
  OBVIOUS
<1>1. \A c \in Clients : client[c].pc = "idle"
  BY DEF Init, Idle
<1> QED
  BY <1>1, InitTypes, ClosesInit DEF AccessInv, FormsKeep, ItemsStay

LEMMA AccessStep == Assumption /\ OneClient /\ NoneMadeAnew /\ AccessInv /\ [Next]_vars => AccessInv'
<1> SUFFICES ASSUME Assumption, OneClient, NoneMadeAnew, AccessInv, [Next]_vars PROVE AccessInv'
  OBVIOUS
<1>1. TypeOK' /\ PresentCloses'
  BY TypesStep, ClosesStep DEF AccessInv
<1>2. FormsKeep' /\ ItemsStay'
  <2>1. CASE Next
    BY <2>1, NextIsOne, PageKeeps, OthersKeep
  <2>2. CASE UNCHANGED vars
    BY <2>2 DEF vars, AccessInv, FormsKeep, ItemsStay, Keeps, OwnsIdOrTag, ManagerOf, Role
  <2> QED
    BY <2>1, <2>2
<1> QED
  BY <1>1, <1>2 DEF AccessInv

\* A kind that is kept and names somebody is granted to the same users.
LEMMA KeptIsGranted ==
    ASSUME Assumption, PresentCloses, NEW a \in Allowed, NEW b \in Allowed, NEW k \in Kinds, Keeps(present, a[k], b[k]),
           ~ NamesNobody(a, k), NEW u \in Users \cap present
    PROVE  Grants(a, k, u) <=> Grants(b, k, u)
<1>1. Attribute[u][k] \in present
  BY DEF PresentCloses
<1>2. CASE a[k] = No
  BY <1>2 DEF Keeps, Grants
<1>3. CASE a[k] # No /\ a[k] = {}
  BY <1>3 DEF Keeps, Grants
<1>4. CASE a[k] # No /\ a[k] # {}
  <2>1. a[k] \cap present # {}
    BY <1>4 DEF NamesNobody
  <2>2. b[k] # No /\ b[k] # {} /\ (Attribute[u][k] \in a[k] <=> Attribute[u][k] \in b[k])
    BY <1>1, <1>4, <2>1 DEF Keeps
  <2> QED
    BY <1>4, <2>2 DEF Grants
<1> QED
  BY <1>2, <1>3, <1>4

\* What is saved gives a kind that nobody touched to the same users as before, for every set of
\* users, groups and categories that are deleted meanwhile, with one form at a time.
THEOREM FormsKeepAccess == Assumption /\ OneClient /\ NoneMadeAnew /\ Spec => []SavesKeepAccess
<1> SUFFICES ASSUME Assumption, OneClient, NoneMadeAnew PROVE Spec => []SavesKeepAccess
  OBVIOUS
<1>1. AccessInv => SavesKeepAccess
  <2> SUFFICES ASSUME AccessInv, NEW c \in Clients, client[c].pc = "writes", item[client[c].item] # No,
                      OwnsIdOrTag(client[c].user, client[c].item), NEW k \in Kinds \ client[c].touched,
                      ~ NamesNobody(item[client[c].item].allowed, k), NEW u \in Users \cap present
               PROVE  Grants(item[client[c].item].allowed, k, u) <=> Grants(client[c].form, k, u)
    BY DEF SavesKeepAccess
  <2>1. client[c].form \in Allowed /\ client[c].item \in Items
    BY DEF AccessInv, TypeOK
  <2>2. item[client[c].item].allowed \in Allowed
    BY <2>1, RowsAreRows DEF AccessInv
  <2>3. Keeps(present, item[client[c].item].allowed[k], client[c].form[k])
    BY DEF AccessInv, FormsKeep
  <2> QED
    BY <2>1, <2>2, <2>3, KeptIsGranted DEF AccessInv
<1> QED
  BY <1>1, AccessInit, AccessStep, PTL DEF Spec

----------------------------------------------------------------------------
(* The interfaces of a new desktop.                                        *)

LEMMA AllowedIsGiven == \A u : HardwareAllowed(u) = MayGive(item, u)
BY DEF HardwareAllowed, MayGive, Is, Matches

\* What may be given depends on the rows of interfaces and on with whom they are shared.
LEMMA SameIsGiven ==
    ASSUME NEW rows, NEW old,
           \A i \in Items : KindOf[i] = "interface" =>
               (rows[i] = No <=> old[i] = No) /\ (old[i] # No => rows[i].allowed = old[i].allowed)
    PROVE  \A u : MayGive(rows, u) = MayGive(old, u)
<1>1. \A u : \A i \in Items, k \in Kinds :
        KindOf[i] = "interface" /\ old[i] # No => (Grants(rows[i].allowed, k, u) <=> Grants(old[i].allowed, k, u))
  OBVIOUS
<1>2. \A u, i : i \in MayGive(rows, u) <=> i \in MayGive(old, u)
  BY <1>1 DEF MayGive
<1> QED
  BY <1>2 DEF MayGive

\* Without items that are deleted, others than pages leave what may be given as it is.
LEMMA OthersGive ==
    ASSUME Assumption, TypeOK, "item_goes" \notin Ops, Others
    PROVE  UNCHANGED client /\ \A u : MayGive(item', u) = MayGive(item, u)
<1>1. CASE UNCHANGED item
  BY <1>1, OthersItems
<1>2. ASSUME NEW i \in Items, NEW row \in Row \cup {No}, item' = [item EXCEPT ![i] = row],
             \/ /\ item[i] = No /\ KindOf[i] = "template"
                /\ Ops \cap {"template", "api_template"} # {}
             \/ item[i] # No /\ row \in Row /\ row.allowed = item[i].allowed
             \/ row = No /\ "item_goes" \in Ops
      PROVE  \A u : MayGive(item', u) = MayGive(item, u)
  <2>1. No \notin Row
    BY DEF Assumption
  <2>2. \A j \in Items : item'[j] = IF j = i THEN row ELSE item[j]
    BY <1>2 DEF TypeOK
  <2>3. \A j \in Items : KindOf[j] = "interface" =>
          (item'[j] = No <=> item[j] = No) /\ (item[j] # No => item'[j].allowed = item[j].allowed)
    BY <1>2, <2>1, <2>2
  <2> QED
    BY <2>3, SameIsGiven
<1> QED
  BY <1>1, <1>2, OthersItems

\* A page that makes a desktop chooses among what may be given.
LEMMA DesktopGives ==
    ASSUME Assumption, OneNet, LimitInv, NEW c \in Clients, DesktopNext(c)
    PROVE  /\ UNCHANGED item
           /\ \E r \in Knowing :
                /\ Goes(c, r)
                /\ r.pc \in {"hardware", "iso"} => r.nets \subseteq MayGive(item, r.user)
                /\ r.pc = "inserts" => r.nets \subseteq MayGive(item, r.user) \cup {Default}
<1> USE DEF LimitInv
<1> DEFINE o == client[c]
           Good(r) == /\ Goes(c, r)
                      /\ r.pc \in {"hardware", "iso"} => r.nets \subseteq MayGive(item, r.user)
                      /\ r.pc = "inserts" => r.nets \subseteq MayGive(item, r.user) \cup {Default}
<1>1. UNCHANGED item
  BY DEF DesktopNext, OpensDesktop, LimitsHardware, HardwareFromIso, Inserts
<1>2. o \in Knowing
  BY KnowingClients
<1>3. \A u : MayGive(item, u) \subseteq Items
  BY DEF MayGive
<1>4. ASSUME NEW u \in Users, NEW op \in {"hardware", "iso"}, OpensDesktop(c, u, op)
      PROVE  \E r \in Knowing : Good(r)
  <2> DEFINE r == [Idle EXCEPT !.pc = op, !.user = u, !.nets = MayGive(item, u)]
  <2>1. r \in Knowing /\ r.pc = op /\ r.user = u /\ r.nets = MayGive(item, u)
    BY <1>3 DEF Idle, Knowing, Client
  <2>2. Goes(c, r)
    BY <1>4, AllowedIsGiven DEF OpensDesktop
  <2> HIDE DEF r
  <2> QED
    BY <2>1, <2>2
<1>5. ASSUME NEW s \in SUBSET (Items \cup {Default}), o.pc \in {"hardware", "iso"},
             s \subseteq MayGive(item, o.user) \cup {Default}, Goes(c, [o EXCEPT !.pc = "inserts", !.nets = s])
      PROVE  \E r \in Knowing : Good(r)
  <2> DEFINE r == [o EXCEPT !.pc = "inserts", !.nets = s]
  <2>1. r \in Knowing /\ r.pc = "inserts" /\ r.user = o.user /\ r.nets = s
    BY <1>2, <1>5 DEF Knowing, Client
  <2>2. Goes(c, r)
    BY <1>5
  <2> HIDE DEF r
  <2> QED
    BY <1>5, <2>1, <2>2
<1>6. ASSUME NEW nets \in SUBSET Items, NEW first \in Items, LimitsHardware(c, nets, first)
      PROVE  \E r \in Knowing : Good(r)
  <2>1. PICK s : s = IF first \in HardwareAllowed(o.user) THEN nets ELSE {Default}
    OBVIOUS
  <2>2. o.pc = "hardware" /\ Goes(c, [o EXCEPT !.pc = "inserts", !.nets = s])
    BY <1>6, <2>1 DEF LimitsHardware
  <2>3. nets = {first} \/ nets \subseteq MayGive(item, o.user)
    <3>1. CASE nets \in TemplateNets
      BY <1>6, <3>1 DEF LimitsHardware, OneNet
    <3>2. CASE nets \subseteq o.nets
      BY <2>2, <3>2 DEF NetsAreAllowed
    <3> QED
      BY <1>6, <3>1, <3>2 DEF LimitsHardware
  <2>4. s \subseteq MayGive(item, o.user) \cup {Default}
    BY <2>1, <2>3, AllowedIsGiven
  <2>5. s \in SUBSET (Items \cup {Default})
    BY <2>1
  <2> QED
    BY <1>5, <2>2, <2>4, <2>5
<1>7. ASSUME NEW n \in Items \cup {Default}, HardwareFromIso(c, n)
      PROVE  \E r \in Knowing : Good(r)
  <2>1. o.pc = "iso" /\ Goes(c, [o EXCEPT !.pc = "inserts", !.nets = {n}])
    BY <1>7 DEF HardwareFromIso
  <2>2. n \in o.nets \cup HardwareAllowed(o.user) \cup {Default}
    BY <1>7 DEF HardwareFromIso
  <2>3. n \in MayGive(item, o.user) \cup {Default}
    BY <2>1, <2>2, AllowedIsGiven DEF NetsAreAllowed
  <2>4. PICK s : s = {n}
    OBVIOUS
  <2>5. s \in SUBSET (Items \cup {Default}) /\ s \subseteq MayGive(item, o.user) \cup {Default}
    BY <2>3, <2>4
  <2> QED
    BY <1>5, <2>1, <2>4, <2>5
<1>8. ASSUME Inserts(c) PROVE \E r \in Knowing : Good(r)
  BY <1>8, IdleKnows DEF Inserts, Idle
<1> HIDE DEF Good
<1>9. \E r \in Knowing : Good(r)
  BY <1>4, <1>6, <1>7, <1>8 DEF DesktopNext
<1> USE DEF Good
<1> QED
  BY <1>1, <1>9

LEMMA LimitStep ==
    Assumption /\ OneClient /\ OneNet /\ "item_goes" \notin Ops /\ LimitInv /\ [Next]_vars => LimitInv'
<1> SUFFICES ASSUME Assumption, OneClient, OneNet, "item_goes" \notin Ops, LimitInv, [Next]_vars PROVE NetsAreAllowed'
  BY TypesStep DEF LimitInv
<1> USE DEF LimitInv
<1>1. CASE Others
  <2>1. UNCHANGED client /\ \A u : MayGive(item', u) = MayGive(item, u)
    BY <1>1, OthersGive
  <2> QED
    BY <2>1 DEF NetsAreAllowed
<1>2. CASE \E c \in Clients : DesktopNext(c)
  <2>1. PICK c \in Clients : DesktopNext(c)
    BY <1>2
  <2>2. PICK r \in Knowing :
          /\ Goes(c, r)
          /\ r.pc \in {"hardware", "iso"} => r.nets \subseteq MayGive(item, r.user)
          /\ r.pc = "inserts" => r.nets \subseteq MayGive(item, r.user) \cup {Default}
    BY <2>1, DesktopGives
  <2>3. UNCHANGED item
    BY <2>1, DesktopGives
  <2>4. \A d \in Clients : client'[d] = r
    BY <2>2 DEF Goes, OneClient, TypeOK
  <2> QED
    BY <2>2, <2>3, <2>4 DEF NetsAreAllowed
<1>3. CASE \E c \in Clients : FormNext(c)
  <2>1. PICK c \in Clients : FormNext(c)
    BY <1>3
  <2>2. PICK r \in Knowing : Goes(c, r) /\ r.pc \in {"idle", "form", "writes"}
    <3>1. CASE GivesUp(c) \/ WritesRow(c)
      BY <3>1, IdleKnows DEF GivesUp, WritesRow, Idle
    <3>2. CASE \E u \in Users, i \in Items : OpensForm(c, u, i)
      BY <3>2, OpensTypes
    <3>3. CASE \E k \in Kinds : Touches(c, k)
      BY <3>3, TouchesTypes
    <3>4. CASE ReadsRow(c)
      BY <3>4, ReadsTypes
    <3> QED
      BY <2>1, <3>1, <3>2, <3>3, <3>4 DEF FormNext
  <2>3. \A d \in Clients : client'[d] = r
    BY <2>2 DEF Goes, OneClient, TypeOK
  <2> QED
    BY <2>2, <2>3 DEF NetsAreAllowed
<1>4. CASE UNCHANGED vars
  BY <1>4 DEF vars, NetsAreAllowed
<1> QED
  BY <1>1, <1>2, <1>3, <1>4, NextIsOne

\* A desktop gets only interfaces that its user may use, or the default one, whatever the interfaces,
\* users and templates are, when templates have one interface and nobody changes them meanwhile.
THEOREM InterfacesAreLimited ==
    Assumption /\ OneClient /\ OneNet /\ "item_goes" \notin Ops /\ Spec => []HardwareIsLimited
<1> SUFFICES ASSUME Assumption, OneClient, OneNet, "item_goes" \notin Ops PROVE Spec => []HardwareIsLimited
  OBVIOUS
<1>1. Init => LimitInv
  BY InitTypes DEF LimitInv, NetsAreAllowed, Init, Idle
<1>2. LimitInv => HardwareIsLimited
  BY AllowedIsGiven DEF LimitInv, NetsAreAllowed, HardwareIsLimited
<1> QED
  BY <1>1, <1>2, LimitStep, PTL DEF Spec

----------------------------------------------------------------------------
(* The lists.                                                              *)

\* Nobody comes.
LEMMA NobodyComes == [Next]_vars => present' \subseteq present
BY DEF Next, vars, FormNext, DesktopNext, OpensForm, Touches, GivesUp, ReadsRow, WritesRow, OpensDesktop,
       LimitsHardware, HardwareFromIso, Inserts, TemplateFromDomain, ApiTemplate, TemplateUpdate, Ready,
       ItemGoes, RowGoes

\* An item that nobody asks to share is granted to whom it was.
LEMMA StaysGranted ==
    ASSUME Assumption, AccessInv, [Next]_vars, NEW i \in Items, Stays(i), NEW u \in Users \cap present',
           NEW k \in Kinds
    PROVE  Grants(item'[i].allowed, k, u) <=> Grants(item[i].allowed, k, u)
<1> USE DEF AccessInv
<1>1. CASE item'[i].allowed = item[i].allowed
  BY <1>1
<1>2. CASE \E c \in Clients : WritesRow(c) /\ client[c].item = i
  <2>1. PICK c \in Clients : WritesRow(c) /\ client[c].item = i
    BY <1>2
  <2>2. client[c].form \in Allowed /\ item[i] # No /\ item[i].allowed \in Allowed
    BY <2>1, RowsAreRows DEF TypeOK, WritesRow, Stays, SameItem
  <2>3. OwnsIdOrTag(client[c].user, i) /\ client[c].touched = {} /\ ~ NamesNobody(item[i].allowed, k)
    BY <2>1 DEF Stays, AskedToShare
  <2>4. Keeps(present, item[i].allowed[k], client[c].form[k])
    BY <2>1, <2>2, <2>3 DEF FormsKeep, WritesRow
  <2>5. Grants(item[i].allowed, k, u) <=> Grants(client[c].form, k, u)
    <3>1. u \in Users \cap present
      BY <2>1 DEF WritesRow
    <3> QED
      BY <2>2, <2>3, <2>4, <3>1, KeptIsGranted
  <2>6. item' = [item EXCEPT ![i] = [item[i] EXCEPT !.allowed = client[c].form]] /\ item[i] \in Row
    BY <2>1, <2>2, RowsAreRows DEF WritesRow
  <2>7. item'[i].allowed = client[c].form
    BY <2>6 DEF TypeOK, Row
  <2> QED
    BY <2>5, <2>7
<1>3. ASSUME NEW c \in Clients, WritesRow(c), client[c].item # i PROVE item'[i] = item[i]
  BY <1>3 DEF WritesRow, TypeOK
<1>4. ASSUME Others PROVE item'[i].allowed = item[i].allowed
  <2>1. item[i] # No /\ item'[i] # No /\ No \notin Row
    BY DEF Stays, SameItem, Assumption
  <2>2. CASE UNCHANGED item
    BY <2>2
  <2>3. ASSUME NEW j \in Items, NEW row \in Row \cup {No}, item' = [item EXCEPT ![j] = row],
               \/ item[j] = No
               \/ item[j] # No /\ row \in Row /\ row.allowed = item[j].allowed
               \/ row = No
        PROVE  item'[i].allowed = item[i].allowed
    <3>1. item'[i] = IF i = j THEN row ELSE item[i]
      BY <2>3 DEF TypeOK
    <3> QED
      BY <2>1, <2>3, <3>1
  <2> QED
    BY <1>4, <2>2, <2>3, OthersItems
<1>5. CASE \E c \in Clients : (FormNext(c) \/ DesktopNext(c)) /\ ~ WritesRow(c)
  <2>1. item' = item
    BY <1>5 DEF FormNext, DesktopNext, OpensForm, Touches, GivesUp, ReadsRow, OpensDesktop, LimitsHardware,
                HardwareFromIso, Inserts
  <2> QED
    BY <2>1
<1>6. CASE UNCHANGED vars
  BY <1>6 DEF vars
<1> QED
  BY <1>1, <1>2, <1>3, <1>4, <1>5, <1>6, NextIsOne

\* It is in the lists it was in.
LEMMA StaysOffered ==
    ASSUME Assumption, AccessInv, [Next]_vars, NEW i \in Items, Stays(i), NEW u \in Users \cap present'
    PROVE  /\ i \in Templates(u)' <=> i \in Templates(u)
           /\ AllowedTemplate(u, i)' <=> AllowedTemplate(u, i)
           /\ i \in PublicTemplates(u)' <=> i \in PublicTemplates(u)
           /\ i \in Media(u)' <=> i \in Media(u)
           /\ i \in AllowedTable(u)' <=> i \in AllowedTable(u)
           /\ i \in SelectMedia(u)' <=> i \in SelectMedia(u)
           /\ i \in AllTemplates(u)' => i \in AllTemplates(u)
           /\ i \in AllTemplates(u) /\ Owner[i] \in present' => i \in AllTemplates(u)'
<1>1. Matches(i, u)' <=> Matches(i, u)
  BY StaysGranted DEF Matches
<1>2. /\ item[i] # No /\ item'[i] # No
      /\ item'[i].enabled = item[i].enabled /\ item'[i].ready = item[i].ready
  BY DEF Stays, SameItem
<1>3. \A kinds : Is(i, kinds)' <=> Is(i, kinds)
  BY <1>2 DEF Is
<1>4. Enabled(i)' <=> Enabled(i)
  BY <1>2, <1>3 DEF Enabled
<1>5. i \in Templates(u)' <=> i \in Templates(u)
  BY <1>1, <1>3, <1>4 DEF Templates, Role, ManagerOf
<1>6. AllowedTemplate(u, i)' <=> AllowedTemplate(u, i)
  BY <1>1, <1>2 DEF AllowedTemplate, Role, ManagerOf
<1>7. i \in PublicTemplates(u)' <=> i \in PublicTemplates(u)
  BY <1>1, <1>3 DEF PublicTemplates
<1>8. i \in Media(u)' <=> i \in Media(u)
  BY <1>1, <1>3 DEF Media, Role, ManagerOf
<1>9. i \in AllowedTable(u)' <=> i \in AllowedTable(u)
  BY <1>1, <1>3 DEF AllowedTable
<1>10. i \in SelectMedia(u)' <=> i \in SelectMedia(u)
  BY <1>1, <1>2, <1>3 DEF SelectMedia, AllowedTerm, Role
<1>11. i \in AllTemplates(u) <=>
         /\ Enabled(i) /\ Owner[i] \in present /\ (Role(u) = "admin" \/ Owner[i] = u \/ Matches(i, u))
         /\ item[i].ready
         /\ \/ Role(u) = "admin" \/ Role(Owner[i]) = "admin" \/ SharesTemplates
            \/ Attribute[u].categories = Attribute[Owner[i]].categories
  BY DEF AllTemplates, AllowedDomains
<1>12. i \in AllTemplates(u)' <=>
         /\ Enabled(i)' /\ Owner[i] \in present' /\ (Role(u) = "admin" \/ Owner[i] = u \/ Matches(i, u)')
         /\ item'[i].ready
         /\ \/ Role(u) = "admin" \/ Role(Owner[i]) = "admin" \/ SharesTemplates
            \/ Attribute[u].categories = Attribute[Owner[i]].categories
  BY DEF AllTemplates, AllowedDomains, Role
<1>13. present' \subseteq present
  BY NobodyComes
<1> QED
  BY <1>1, <1>2, <1>4, <1>5, <1>6, <1>7, <1>8, <1>9, <1>10, <1>11, <1>12, <1>13

\* Whom templates and media are offered to, in every list of the API and the webapp, changes only by
\* what somebody asks for, whatever is saved and deleted meanwhile, with one form at a time.
THEOREM OffersStay == Assumption /\ OneClient /\ NoneMadeAnew /\ Spec => OffersKeep
<1> SUFFICES ASSUME Assumption, OneClient, NoneMadeAnew PROVE Spec => OffersKeep
  OBVIOUS
<1>1. AccessInv /\ [Next]_vars => [OffersStep]_<<present, item>>
  <2> SUFFICES ASSUME AccessInv, [Next]_vars, NEW u \in Users \cap present'
               PROVE  /\ \A o \in Offers(u)' \ Offers(u) : ~ Stays(o[2])
                      /\ \A o \in Offers(u) \ Offers(u)' : Stays(o[2]) => Owner[o[2]] \notin present'
    BY DEF OffersStep
  <2>1. ASSUME NEW o, o \in Offers(u)' \ Offers(u), Stays(o[2]) PROVE FALSE
    <3>1. o[2] \in Items
      BY <2>1 DEF Offers, Templates, AllTemplates, AllowedDomains, PublicTemplates, Media, AllowedTable, AllowedTerm,
                  SelectMedia
    <3>2. PICK i \in Items : i = o[2]
      BY <3>1
    <3>3. Stays(i)
      BY <2>1, <3>2
    <3> QED
      BY <2>1, <3>2, <3>3, StaysOffered DEF Offers
  <2>2. ASSUME NEW o, o \in Offers(u) \ Offers(u)', Stays(o[2]), Owner[o[2]] \in present' PROVE FALSE
    <3>1. o[2] \in Items
      BY <2>2 DEF Offers, Templates, AllTemplates, AllowedDomains, PublicTemplates, Media, AllowedTable, AllowedTerm,
                  SelectMedia
    <3>2. PICK i \in Items : i = o[2]
      BY <3>1
    <3>3. Stays(i)
      BY <2>2, <3>2
    <3> QED
      BY <2>2, <3>2, <3>3, StaysOffered DEF Offers
  <2> QED
    BY <2>1, <2>2
<1> QED
  BY <1>1, AccessInit, AccessStep, PTL DEF Spec, OffersKeep
=============================================================================
