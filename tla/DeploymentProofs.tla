-------------------------- MODULE DeploymentProofs --------------------------
(***************************************************************************)
(* Theorems about Deployments for every set of users, names, deployments   *)
(* and requests, every quota, and every bound.                             *)
(***************************************************************************)
EXTENDS Deployments, FiniteSetTheorems, TLAPS

----------------------------------------------------------------------------
(* What the variables hold, and what a request knows where it is.          *)

Client == [pc : {"idle", "row", "existing", "check", "insert", "write", "list", "delete", "deleted"},
           op : AllOps \cup {None}, dep : Deployments \cup {None}, name : Names \cup {None},
           todo : SUBSET (Users \cup Desktops), now : Users \cup Desktops \cup {None},
           skipped : BOOLEAN, missed : SUBSET Users]

Adding == {"row", "existing", "check", "insert"}
Deleting == {"list", "delete", "deleted"}
Knows(r) ==
    /\ r.pc \in Adding => r.op \in Additions /\ r.name \in Names
    /\ r.pc = "row" => r.dep \in Deployments /\ r.todo \subseteq Users
    /\ r.pc = "insert" => r.now \in Users
    /\ r.pc \in Deleting => r.op = "domain_delete_advanced" /\ r.dep \in Deployments
    /\ r.pc \in {"write", "deleted"} => r.now \in Desktops

KnowingClient == {r \in Client : Knows(r)}

Types ==
    /\ desktop \in [Desktops -> Row \cup {None}]
    /\ deployment \in [Deployments -> Deployed \cup {None}]
    /\ client \in [Clients -> KnowingClient]
    /\ saw \in [Clients -> BOOLEAN]

LEMMA TypesInit == Init => Types
<1>1. Idle \in KnowingClient
  BY DEF Idle, KnowingClient, Client, Knows, Adding, Deleting
<1> QED
  BY <1>1 DEF Init, Types

\* A request begins as what its first step knows.
LEMMA BeginsTypes ==
    ASSUME Types, NEW c \in Clients, NEW op, NEW r, [r EXCEPT !.op = op] \in KnowingClient,
           Begins(c, op, r), UNCHANGED <<desktop, deployment, saw>>
    PROVE  Types'
BY DEF Types, Begins

LEMMA BeginningTypes ==
    ASSUME Assumption, Types, NEW c \in Clients, RequestBegins(c)
    PROVE  Types'
<1>1. \A u \in Users, n \in Names, op \in Additions :
        [[Idle EXCEPT !.pc = "check", !.name = n, !.todo = {u}] EXCEPT !.op = op] \in KnowingClient
  BY DEF Idle, KnowingClient, Client, Knows, Adding, Deleting, Additions, ManyAdditions, AllOps, Requests
<1>2. ASSUME NEW users \in SUBSET Users, NEW n \in Names
      PROVE  [[Idle EXCEPT !.pc = "existing", !.name = n, !.todo = users] EXCEPT !.op = "domain_add_admin"]
                \in KnowingClient
  BY DEF Idle, KnowingClient, Client, Knows, Adding, Deleting, Additions, ManyAdditions, AllOps, Requests
<1>3. ASSUME NEW users \in SUBSET Users, NEW n \in Names, NEW p \in Deployments
      PROVE  [[Idle EXCEPT !.pc = "row", !.dep = p, !.name = n, !.todo = users] EXCEPT !.op = "domain_add_advanced"]
                \in KnowingClient
  BY DEF Idle, KnowingClient, Client, Knows, Adding, Deleting, Additions, ManyAdditions, AllOps, Requests
<1>4. ASSUME NEW users \in SUBSET Users, NEW n \in Names, NEW p \in Deployments
      PROVE  [[Idle EXCEPT !.pc = "existing", !.dep = p, !.name = n, !.todo = users]
                EXCEPT !.op = "domain_recreate_advanced"] \in KnowingClient
  BY DEF Idle, KnowingClient, Client, Knows, Adding, Deleting, Additions, ManyAdditions, AllOps, Requests
<1>5. ASSUME NEW p \in Deployments
      PROVE  [[Idle EXCEPT !.pc = "list", !.dep = p] EXCEPT !.op = "domain_delete_advanced"] \in KnowingClient
  BY DEF Idle, KnowingClient, Client, Knows, Adding, Deleting, AllOps, Requests
<1>6. ASSUME NEW d \in Desktops, NEW op \in StatusRequests \cup Forms
      PROVE  [[Idle EXCEPT !.pc = "write", !.now = d] EXCEPT !.op = op] \in KnowingClient
  BY DEF Idle, KnowingClient, Client, Knows, Adding, Deleting, AllOps, Requests, StatusRequests, Forms
<1>7. ASSUME NEW u \in Users, NEW n \in Names, AddBegins(c, u, n) PROVE Types'
  <2>1. {"domain_add", "auto_user"} \subseteq Additions
    BY DEF Additions
  <2> QED
    BY <1>1, <1>7, <2>1, BeginsTypes DEF AddBegins
<1>8. ASSUME NEW users \in SUBSET Users, NEW n \in Names, AdminAddBegins(c, users, n) PROVE Types'
  BY <1>2, <1>8, BeginsTypes DEF AdminAddBegins
<1>9. ASSUME NEW users \in SUBSET Users, NEW n \in Names, NEW p \in Deployments, AdvancedBegins(c, p, users, n)
      PROVE  Types'
  BY <1>3, <1>9, BeginsTypes DEF AdvancedBegins
<1>10. ASSUME NEW p \in Deployments, RecreateBegins(c, p) PROVE Types'
  <2>1. deployment[p] \in Deployed
    BY <1>10 DEF Types, RecreateBegins
  <2>2. deployment[p].name \in Names /\ deployment[p].users \in SUBSET Users
    BY <2>1 DEF Deployed
  <2> QED
    BY <1>4, <1>10, <2>2, BeginsTypes DEF RecreateBegins
<1>11. ASSUME NEW p \in Deployments, DeleteBegins(c, p) PROVE Types'
  BY <1>5, <1>11, BeginsTypes DEF DeleteBegins
<1>12. ASSUME NEW d \in Desktops, NEW op \in StatusRequests \cup Forms, NEW statuses, Asks(c, d, op, statuses)
       PROVE  Types'
  BY <1>6, <1>12, BeginsTypes DEF Asks
<1>13. {"Starting", "Deleting", "Shutting-down", "Stopping", "domain_edit", "domain_template_add"}
         = StatusRequests \cup Forms
  BY DEF StatusRequests, Forms
<1>14. ASSUME NEW d \in Desktops,
              \/ StartBegins(c, d) \/ DeletionBegins(c, d) \/ ShutDownBegins(c, d)
              \/ StopBegins(c, d) \/ EditOpens(c, d) \/ TemplateOpens(c, d)
       PROVE  Types'
  BY <1>12, <1>13, <1>14 DEF StartBegins, DeletionBegins, ShutDownBegins, StopBegins, EditOpens, TemplateOpens
<1> QED
  BY <1>7, <1>8, <1>9, <1>10, <1>11, <1>14 DEF RequestBegins

\* A row of the table is written.
LEMMA PutTypes ==
    ASSUME Types, NEW d \in Desktops, NEW new \in Row \cup {None}, Put(d, new)
    PROVE  /\ desktop' \in [Desktops -> Row \cup {None}]
           /\ saw' \in [Clients -> BOOLEAN]
BY DEF Types, Put

LEMMA RowEdited ==
    ASSUME Assumption, Types, NEW d \in Desktops, desktop[d] # None,
           NEW n \in Names, NEW status \in Statuses, NEW followed \in BOOLEAN
    PROVE  /\ desktop[d] \in Row
           /\ [desktop[d] EXCEPT !.status = status, !.followed = followed] \in Row
           /\ [desktop[d] EXCEPT !.name = n, !.status = status, !.followed = followed] \in Row
<1>1. desktop[d] \in Row
  BY DEF Types
<1> QED
  BY <1>1 DEF Row

LEMMA PutStatusTypes ==
    ASSUME Assumption, Types, NEW d \in Desktops, NEW status \in Statuses, PutStatus(d, status)
    PROVE  /\ desktop' \in [Desktops -> Row \cup {None}]
           /\ saw' \in [Clients -> BOOLEAN]
<1>1. CASE UNCHANGED <<desktop, saw>>
  BY <1>1 DEF Types
<1>2. CASE desktop[d] # None /\ ~UNCHANGED <<desktop, saw>>
  <2>1. Follows(desktop[d].status, status) \in BOOLEAN
    BY DEF Follows
  <2>2. desktop[d] \in Row
    BY <1>2 DEF Types
  <2>3. [desktop[d] EXCEPT !.status = status, !.followed = Follows(desktop[d].status, status)] \in Row
    BY <2>1, <2>2 DEF Row
  <2> QED
    BY <1>2, <2>3, PutTypes DEF PutStatus
<1> QED
  BY <1>1, <1>2 DEF PutStatus

LEMMA EngineTypes ==
    ASSUME Assumption, Types, NEW d \in Desktops, Engine(d) \/ GuestOff(d)
    PROVE  Types'
<1>1. desktop[d] # None /\ desktop[d] \in Row
  BY DEF Engine, GuestOff, Types
<1>2. \A status \in Statuses : [desktop[d] EXCEPT !.status = status, !.followed = FALSE] \in Row
  BY <1>1 DEF Row
<1>3. \A status : Outcomes(status) \subseteq Statuses
  BY DEF Outcomes, Statuses
<1>4. UNCHANGED <<deployment, client>>
  BY DEF Engine, GuestOff
<1>5. \E new \in Row \cup {None} : Put(d, new)
  <2>1. CASE Engine(d)
    BY <1>2, <1>3, <2>1 DEF Engine
  <2>2. CASE GuestOff(d)
    BY <1>2, <2>2 DEF GuestOff, Statuses
  <2> QED
    BY <2>1, <2>2
<1> QED
  BY <1>4, <1>5, PutTypes DEF Types

\* A request that goes on, or ends.
LEMMA ClientTypes ==
    ASSUME Types, NEW c \in Clients, NEW r \in KnowingClient \cup {Idle}, client' = [client EXCEPT ![c] = r]
    PROVE  client' \in [Clients -> KnowingClient]
<1>1. Idle \in KnowingClient
  BY DEF Idle, KnowingClient, Client, Knows, Adding, Deleting
<1> QED
  BY <1>1 DEF Types

LEMMA GoingOnTypes ==
    ASSUME Assumption, Types, NEW c \in Clients, RequestGoesOn(c)
    PROVE  Types'
<1>1. client[c] \in KnowingClient /\ client[c] \in Client /\ Knows(client[c])
  BY DEF Types, KnowingClient
<1>2. ASSUME \/ \E ok, missed : AnswersOf(c, ok, missed)
             \/ Dies(c)
      PROVE  client' \in [Clients -> KnowingClient]
  BY <1>2, ClientTypes DEF AnswersOf, Dies
<1>3. ASSUME NEW r \in KnowingClient, Goes(c, r)
      PROVE  client' \in [Clients -> KnowingClient]
  BY <1>3, ClientTypes DEF Goes
<1>4. CASE WritesRow(c)
  <2>1. [client[c] EXCEPT !.pc = "existing"] \in KnowingClient
    BY <1>1, <1>4 DEF WritesRow, KnowingClient, Client, Knows, Adding, Deleting
  <2>2. [name |-> client[c].name, users |-> client[c].todo] \in Deployed
    BY <1>1, <1>4 DEF WritesRow, Knows, Adding, Deployed
  <2> QED
    BY <1>3, <1>4, <2>1, <2>2 DEF WritesRow, Types
<1>5. CASE ReadsExisting(c)
  <2>1. ASSUME NEW existing \in BOOLEAN
        PROVE  [client[c] EXCEPT !.pc = "check", !.skipped = existing] \in KnowingClient
    BY <1>1, <1>5 DEF ReadsExisting, KnowingClient, Client, Knows, Adding, Deleting
  <2> QED
    BY <1>2, <1>3, <1>5, <2>1 DEF ReadsExisting, Answers, Types
<1>6. CASE AdditionEnds(c) \/ TimesOut(c)
  BY <1>2, <1>6 DEF AdditionEnds, TimesOut, Types
<1>7. ASSUME NEW u \in Users, ChecksQuota(c, u) PROVE Types'
  <2>1. [client[c] EXCEPT !.pc = "insert", !.now = u, !.todo = @ \ {u}] \in KnowingClient
    BY <1>1, <1>7 DEF ChecksQuota, KnowingClient, Client, Knows, Adding, Deleting
  <2>2. [client[c] EXCEPT !.todo = @ \ {u}, !.missed = @ \cup {u}] \in KnowingClient
    BY <1>1, <1>7 DEF ChecksQuota, KnowingClient, Client, Knows, Adding, Deleting
  <2> QED
    BY <1>3, <1>7, <2>1, <2>2 DEF ChecksQuota, Types
<1>8. CASE Inserts(c)
  <2>1. client[c].now \in Users /\ client[c].name \in Names /\ IdOf[client[c].name] \in Ids
    BY <1>1, <1>8 DEF Inserts, Knows, Adding, Assumption
  <2>2. <<client[c].now, IdOf[client[c].name]>> \in Desktops
    BY <2>1 DEF Desktops
  <2>3. [name |-> client[c].name, tag |-> client[c].dep, status |-> "Creating", followed |-> TRUE] \in Row
    BY <1>1, <2>1 DEF Row, Client, Statuses
  <2>4. [client[c] EXCEPT !.pc = "check", !.now = None] \in KnowingClient
    BY <1>1, <1>8 DEF Inserts, KnowingClient, Client, Knows, Adding, Deleting
  <2>5. [client[c] EXCEPT !.pc = "check", !.now = None, !.missed = @ \cup {client[c].now}] \in KnowingClient
    BY <1>1, <1>8, <2>1 DEF Inserts, KnowingClient, Client, Knows, Adding, Deleting
  <2> QED
    BY <1>3, <1>8, <2>2, <2>3, <2>4, <2>5, PutTypes DEF Inserts, Types
<1>9. CASE Lists(c)
  <2>1. Tagged(client[c].dep) \subseteq Desktops
    BY DEF Tagged
  <2>2. [client[c] EXCEPT !.pc = "delete", !.todo = Tagged(client[c].dep)] \in KnowingClient
    BY <1>1, <1>9, <2>1 DEF Lists, KnowingClient, Client, Knows, Adding, Deleting
  <2> QED
    BY <1>2, <1>3, <1>9, <2>2 DEF Lists, Answers, Types
<1>10. ASSUME NEW d \in Desktops, DeletesDesktop(c, d) PROVE Types'
  <2>1. [client[c] EXCEPT !.pc = "deleted", !.now = d, !.todo = @ \ {d}] \in KnowingClient
    BY <1>1, <1>10 DEF DeletesDesktop, KnowingClient, Client, Knows, Adding, Deleting
  <2>2. desktop' \in [Desktops -> Row \cup {None}]
    <3>1. CASE desktop[d] # None
      <4>1. Follows(desktop[d].status, "Deleting") \in BOOLEAN
        BY DEF Follows
      <4>2. desktop[d] \in Row
        BY <3>1 DEF Types
      <4>3. [desktop[d] EXCEPT !.status = "Deleting", !.followed = Follows(desktop[d].status, "Deleting")] \in Row
        BY <4>1, <4>2 DEF Row, Statuses
      <4> QED
        BY <1>10, <4>3 DEF DeletesDesktop, Types
    <3> QED
      BY <1>10, <3>1 DEF DeletesDesktop, Types
  <2> QED
    BY <1>3, <1>10, <2>1, <2>2 DEF DeletesDesktop, Types
<1>11. CASE DesktopIsDeleted(c)
  <2>1. [client[c] EXCEPT !.pc = "delete", !.now = None] \in KnowingClient
    BY <1>1, <1>11 DEF DesktopIsDeleted, KnowingClient, Client, Knows, Adding, Deleting
  <2> QED
    BY <1>3, <1>11, <2>1 DEF DesktopIsDeleted, Types
<1>12. CASE RemovesRow(c)
  BY <1>2, <1>12 DEF RemovesRow, Answers, Types
<1>13. CASE WritesStatus(c) \/ MakesTemplate(c)
  <2>1. client[c].now \in Desktops
    BY <1>1, <1>13 DEF WritesStatus, MakesTemplate, Knows
  <2>2. \E status \in Statuses : PutStatus(client[c].now, status)
    BY <1>13 DEF WritesStatus, MakesTemplate, StatusRequests, Statuses
  <2> QED
    BY <1>2, <1>13, <2>1, <2>2, PutStatusTypes DEF WritesStatus, MakesTemplate, Answers, Types
<1>14. CASE Edits(c)
  <2> DEFINE d == client[c].now
  <2>1. d \in Desktops
    BY <1>1, <1>14 DEF Edits, Knows
  <2>2. CASE desktop[d] # None
    <3>1. desktop[d] \in Row
      BY <2>1, <2>2 DEF Types
    <3>2. PICK n \in Names, f \in BOOLEAN :
            Put(d, [desktop[d] EXCEPT !.name = n, !.status = "Updating", !.followed = f])
      BY <1>14, <2>2 DEF Edits, Follows
    <3>3. [desktop[d] EXCEPT !.name = n, !.status = "Updating", !.followed = f] \in Row
      BY <3>1 DEF Row, Statuses
    <3> QED
      BY <1>2, <1>14, <2>1, <3>2, <3>3, PutTypes DEF Edits, Answers, Types
  <2> QED
    BY <1>2, <1>14, <2>2 DEF Edits, Answers, Types
<1> QED
  BY <1>4, <1>5, <1>6, <1>7, <1>8, <1>9, <1>10, <1>11, <1>12, <1>13, <1>14 DEF RequestGoesOn

LEMMA TypesStep == Assumption /\ Types /\ [Next]_vars => Types'
<1> SUFFICES ASSUME Assumption, Types, [Next]_vars PROVE Types'
  OBVIOUS
<1>1. CASE UNCHANGED vars
  BY <1>1 DEF vars, Types
<1> QED
  BY <1>1, BeginningTypes, GoingOnTypes, EngineTypes DEF Next

----------------------------------------------------------------------------
(* The invariant, of desktops that are made and deployments that are       *)
(* deleted one request at a time.  A desktop is made by a request that     *)
(* found the quota free and the row of the deployment there; the deletion  *)
(* of the row knows every desktop that still has its tag, and when one it  *)
(* waits for is told to be gone, it is.                                    *)

OneAtATime ==
    \A b, c \in Clients : client[b].op \in Exclusive /\ client[c].op \in Exclusive => b = c

InsertFits(c) == client[c].pc = "insert" => WithinQuota(client[c].now)

AdditionHasRow(c) ==
    client[c].pc \in Adding \ {"row"} /\ client[c].dep # None => deployment[client[c].dep] # None

Left(r) == IF r.pc = "deleted" THEN r.todo \cup {r.now} ELSE r.todo
DeletionCovers(c) ==
    client[c].pc \in {"delete", "deleted"} => Tagged(client[c].dep) \subseteq Left(client[c])

SeenIsGone(c) == client[c].pc = "deleted" /\ saw[c] => desktop[client[c].now] = None

ClientInv(c) == InsertFits(c) /\ AdditionHasRow(c) /\ DeletionCovers(c) /\ SeenIsGone(c)

DeploymentInv ==
    /\ Types
    /\ OneAtATime
    /\ \A c \in Clients : ClientInv(c)
    /\ TaggedHasDeployment /\ DeployedWithinQuota

\* No desktop is made, and none gets another tag.
NoneAppears ==
    \A d \in Desktops : desktop'[d] # None => desktop[d] # None /\ desktop'[d].tag = desktop[d].tag

LEMMA OfIsFinite ==
    ASSUME Assumption, NEW u \in Users
    PROVE  IsFiniteSet(Of(u))
<1> DEFINE all == {d \in Desktops : d[1] = u}
           id == [d \in all |-> d[2]]
<1>1. id \in Injection(all, Ids)
  BY DEF Desktops, Injection, IsInjective
<1>2. IsFiniteSet(all)
  BY <1>1, FS_Injection DEF Assumption
<1> QED
  BY <1>2, FS_Subset DEF Of

LEMMA FewerDesktops ==
    ASSUME Assumption, NoneAppears, NEW u \in Users
    PROVE  /\ Cardinality(Of(u))' <= Cardinality(Of(u))
           /\ WithinQuota(u) => WithinQuota(u)'
           /\ \A p : Tagged(p)' \subseteq Tagged(p)
<1>1. Of(u)' \subseteq Of(u)
  BY DEF NoneAppears, Of
<1>2. PICK S : S = Of(u)'
  OBVIOUS
<1>3. IsFiniteSet(S) /\ Cardinality(S) <= Cardinality(Of(u))
  BY <1>1, <1>2, OfIsFinite, FS_Subset
<1>4. Cardinality(S) \in Nat /\ Cardinality(Of(u)) \in Nat
  BY <1>3, OfIsFinite, FS_CardinalityType
<1>5. Cardinality(Of(u))' = Cardinality(S)
  BY <1>2
<1>6. Quota[u] \in Nat
  BY DEF Assumption
<1>7. \A p : Tagged(p)' \subseteq Tagged(p)
  BY DEF NoneAppears, Tagged
<1> QED
  BY <1>3, <1>4, <1>5, <1>6, <1>7 DEF WithinQuota

LEMMA InvInit == Assumption /\ Init => DeploymentInv
<1> SUFFICES ASSUME Assumption, Init PROVE DeploymentInv
  OBVIOUS
<1>1. \A c \in Clients : client[c] = Idle
  BY DEF Init
<1>2. \A c \in Clients : client[c].pc = "idle" /\ client[c].op = None
  BY <1>1 DEF Idle
<1>3. OneAtATime
  BY <1>2 DEF OneAtATime, Exclusive, Additions, ManyAdditions, Assumption, AllOps, Requests
<1>4. \A c \in Clients : ClientInv(c)
  BY <1>2 DEF ClientInv, InsertFits, AdditionHasRow, DeletionCovers, SeenIsGone, Adding
<1>5. TaggedHasDeployment
  BY DEF Init, TaggedHasDeployment
<1>6. ASSUME NEW u \in Users PROVE Cardinality(Of(u)) <= Quota[u]
  <2>1. Of(u) = {}
    BY DEF Init, Of
  <2> QED
    BY <2>1, FS_EmptySet DEF Assumption
<1> QED
  BY <1>3, <1>4, <1>5, <1>6, TypesInit DEF DeploymentInv, DeployedWithinQuota

----------------------------------------------------------------------------
(* What keeps the parts of the invariant.                                  *)

RowsStay == \A p \in Deployments : deployment[p] # None => deployment'[p] # None

\* Who asks something else, or nothing, knows nothing that could change.
LEMMA Unconcerned ==
    ASSUME NEW c, client'[c].pc \in {"idle", "write", "row", "list"}
    PROVE  ClientInv(c)'
BY DEF ClientInv, InsertFits, AdditionHasRow, DeletionCovers, SeenIsGone, Adding

\* A request that waits while others go on.
LEMMA WaitingKeeps ==
    ASSUME Assumption, Types, NoneAppears, NEW c \in Clients, ClientInv(c), client'[c] = client[c],
           RowsStay \/ client[c].pc \notin Adding,
           saw'[c] => saw[c] \/ (client[c].pc = "deleted" => desktop'[client[c].now] = None)
    PROVE  ClientInv(c)'
<1>1. client[c] \in Client /\ Knows(client[c])
  BY DEF Types, KnowingClient
<1>2. InsertFits(c)'
  BY <1>1, FewerDesktops DEF ClientInv, InsertFits, Knows
<1>3. AdditionHasRow(c)'
  BY <1>1 DEF ClientInv, AdditionHasRow, RowsStay, Client
<1>4. DeletionCovers(c)'
  BY FewerDesktops DEF ClientInv, DeletionCovers, NoneAppears, Tagged
<1>5. SeenIsGone(c)'
  BY <1>1 DEF ClientInv, SeenIsGone, NoneAppears, Knows
<1> QED
  BY <1>2, <1>3, <1>4, <1>5 DEF ClientInv

LEMMA TableKeeps ==
    ASSUME Assumption, Types, NoneAppears, RowsStay, TaggedHasDeployment, DeployedWithinQuota
    PROVE  TaggedHasDeployment' /\ DeployedWithinQuota'
<1>1. TaggedHasDeployment'
  <2> SUFFICES ASSUME NEW d \in Desktops, desktop'[d] # None, desktop'[d].tag # None
               PROVE  deployment'[desktop'[d].tag] # None
    BY DEF TaggedHasDeployment
  <2>1. desktop[d] \in Row /\ desktop'[d].tag = desktop[d].tag
    BY DEF Types, NoneAppears
  <2>2. desktop[d].tag \in Deployments
    BY <2>1 DEF Row
  <2> QED
    BY <2>1, <2>2 DEF TaggedHasDeployment, NoneAppears, RowsStay
<1>2. ASSUME NEW u \in Users PROVE Cardinality(Of(u))' <= Quota[u]
  <2>1. Cardinality(Of(u)) <= Quota[u] /\ Quota[u] \in Nat
    BY DEF DeployedWithinQuota, Assumption
  <2>2. Cardinality(Of(u)) \in Nat
    BY OfIsFinite, FS_CardinalityType
  <2>3. IsFiniteSet(Of(u)')
    <3>1. Of(u)' \subseteq Of(u)
      BY DEF NoneAppears, Of
    <3> QED
      BY <3>1, OfIsFinite, FS_Subset
  <2>4. Cardinality(Of(u))' \in Nat
    BY <2>3, FS_CardinalityType
  <2> QED
    BY <2>1, <2>2, <2>4, FewerDesktops
<1> QED
  BY <1>1, <1>2 DEF DeployedWithinQuota

LEMMA StillAlone ==
    ASSUME Assumption, Types, OneAtATime, NEW c \in Clients,
           \A b \in Clients : b # c => client'[b] = client[b],
           client'[c].op \in {client[c].op, None}
    PROVE  OneAtATime'
<1>1. None \notin Exclusive
  BY DEF Assumption, AllOps, Requests, Exclusive, Additions, ManyAdditions
<1> QED
  BY <1>1 DEF OneAtATime

----------------------------------------------------------------------------
(* The engine and the guests.                                              *)

LEMMA EngineKeeps ==
    ASSUME Assumption, DeploymentInv, NEW d \in Desktops, Engine(d) \/ GuestOff(d)
    PROVE  DeploymentInv'
<1>1. Types /\ Types'
  BY EngineTypes DEF DeploymentInv
<1>2. desktop[d] # None /\ desktop[d] \in Row /\ UNCHANGED <<deployment, client>>
  BY <1>1 DEF Engine, GuestOff, Types
<1>3. PICK new : Put(d, new) /\ (new # None => new.tag = desktop[d].tag)
  <2>1. \A status : [desktop[d] EXCEPT !.status = status, !.followed = FALSE].tag = desktop[d].tag
    BY <1>2 DEF Row
  <2> QED
    BY <2>1 DEF Engine, GuestOff
<1>4. NoneAppears
  BY <1>1, <1>2, <1>3 DEF NoneAppears, Put, Types
<1>5. RowsStay
  BY <1>2 DEF RowsStay
<1>6. ASSUME NEW c \in Clients PROVE ClientInv(c)'
  <2>1. saw'[c] => saw[c] \/ (client[c].pc = "deleted" => desktop'[client[c].now] = None)
    BY <1>1, <1>2, <1>3 DEF Put, Types
  <2> QED
    BY <1>1, <1>2, <1>4, <1>5, <2>1, WaitingKeeps DEF DeploymentInv
<1>7. OneAtATime'
  BY <1>2 DEF DeploymentInv, OneAtATime
<1> QED
  BY <1>1, <1>4, <1>5, <1>6, <1>7, TableKeeps DEF DeploymentInv

----------------------------------------------------------------------------
(* A request begins.                                                       *)

LEMMA BeginsKeeps ==
    ASSUME Assumption, Apart, DeploymentInv, Types', NEW c \in Clients, NEW op \in Requests, NEW r,
           Begins(c, op, r),
           client'[c].op = op, UNCHANGED <<desktop, deployment, saw>>,
           ClientInv(c)'
    PROVE  DeploymentInv'
<1>1. \A b \in Clients : b # c => client'[b] = client[b]
  BY DEF Begins, DeploymentInv, Types
<1>2. NoneAppears /\ RowsStay
  BY DEF NoneAppears, RowsStay
<1>3. \A b \in Clients : ClientInv(b)'
  BY <1>1, <1>2, WaitingKeeps DEF DeploymentInv
<1>4. OneAtATime'
  <2>1. op \in Exclusive => \A b \in Clients : client[b].op \notin Exclusive
    BY DEF Begins
  <2> QED
    BY <1>1, <2>1 DEF DeploymentInv, OneAtATime
<1> QED
  BY <1>2, <1>3, <1>4, TableKeeps DEF DeploymentInv

\* A request that begins to add has no deployment, or one that is there.
LEMMA BegunAddition ==
    ASSUME NEW c, client'[c].pc \in {"existing", "check"},
           client'[c].dep = None \/ deployment'[client'[c].dep] # None
    PROVE  ClientInv(c)'
BY DEF ClientInv, InsertFits, AdditionHasRow, DeletionCovers, SeenIsGone

LEMMA BeginningKeeps ==
    ASSUME Assumption, Apart, DeploymentInv, NEW c \in Clients, RequestBegins(c)
    PROVE  DeploymentInv'
<1>1. Types /\ Types'
  BY BeginningTypes DEF DeploymentInv
<1>2. \A op, r : Begins(c, op, r) => client'[c] = [r EXCEPT !.op = op]
  BY <1>1 DEF Begins, Types
<1>3. {"domain_add", "auto_user", "domain_add_admin", "domain_add_advanced", "domain_recreate_advanced",
       "domain_delete_advanced", "Starting", "Deleting", "Shutting-down", "Stopping", "domain_edit",
       "domain_template_add"} \subseteq Requests
  BY DEF Requests, Additions, ManyAdditions, StatusRequests, Forms
<1>4. ASSUME NEW u \in Users, NEW n \in Names, AddBegins(c, u, n) PROVE DeploymentInv'
  <2>1. PICK op \in {"domain_add", "auto_user"} :
            Begins(c, op, [Idle EXCEPT !.pc = "check", !.name = n, !.todo = {u}])
    BY <1>4 DEF AddBegins
  <2>2. client'[c] = [[Idle EXCEPT !.pc = "check", !.name = n, !.todo = {u}]
                       EXCEPT !.op = op]
    BY <1>2, <2>1
  <2>3. client'[c].op = op /\ client'[c].pc = "check" /\ client'[c].dep = None
    BY <2>2 DEF Idle
  <2>4. UNCHANGED <<desktop, deployment, saw>>
    BY <1>4 DEF AddBegins
  <2> QED
    BY <1>1, <1>3, <2>1, <2>3, <2>4, BegunAddition, BeginsKeeps
<1>5. ASSUME NEW users, NEW n \in Names, AdminAddBegins(c, users, n) PROVE DeploymentInv'
  <2>1. Begins(c, "domain_add_admin", [Idle EXCEPT !.pc = "existing", !.name = n, !.todo = users])
        /\ UNCHANGED <<desktop, deployment, saw>>
    BY <1>5 DEF AdminAddBegins
  <2>2. client'[c] = [[Idle EXCEPT !.pc = "existing", !.name = n, !.todo = users]
                       EXCEPT !.op = "domain_add_admin"]
    BY <1>2, <2>1
  <2>3. client'[c].op = "domain_add_admin" /\ client'[c].pc = "existing" /\ client'[c].dep = None
    BY <2>2 DEF Idle
  <2> QED
    BY <1>1, <1>3, <2>1, <2>3, BegunAddition, BeginsKeeps
<1>6. ASSUME NEW users, NEW n \in Names, NEW p \in Deployments, AdvancedBegins(c, p, users, n)
      PROVE  DeploymentInv'
  <2>1. Begins(c, "domain_add_advanced", [Idle EXCEPT !.pc = "row", !.dep = p, !.name = n, !.todo = users])
        /\ UNCHANGED <<desktop, deployment, saw>>
    BY <1>6 DEF AdvancedBegins
  <2>2. client'[c] = [[Idle EXCEPT !.pc = "row", !.dep = p, !.name = n, !.todo = users]
                       EXCEPT !.op = "domain_add_advanced"]
    BY <1>2, <2>1
  <2>3. client'[c].op = "domain_add_advanced" /\ client'[c].pc = "row"
    BY <2>2 DEF Idle
  <2> QED
    BY <1>1, <1>3, <2>1, <2>3, Unconcerned, BeginsKeeps
<1>7. ASSUME NEW p \in Deployments, RecreateBegins(c, p) PROVE DeploymentInv'
  <2>1. /\ Begins(c, "domain_recreate_advanced",
                  [Idle EXCEPT !.pc = "existing", !.dep = p, !.name = deployment[p].name, !.todo = deployment[p].users])
        /\ UNCHANGED <<desktop, deployment, saw>> /\ deployment[p] # None
    BY <1>7 DEF RecreateBegins
  <2>2. client'[c] = [[Idle EXCEPT !.pc = "existing", !.dep = p, !.name = deployment[p].name, !.todo = deployment[p].users]
                       EXCEPT !.op = "domain_recreate_advanced"]
    BY <1>2, <2>1
  <2>3. client'[c].op = "domain_recreate_advanced" /\ client'[c].pc = "existing" /\ client'[c].dep = p
    BY <2>2 DEF Idle
  <2> QED
    BY <1>1, <1>3, <2>1, <2>3, BegunAddition, BeginsKeeps
<1>8. ASSUME NEW p \in Deployments, DeleteBegins(c, p) PROVE DeploymentInv'
  <2>1. Begins(c, "domain_delete_advanced", [Idle EXCEPT !.pc = "list", !.dep = p])
        /\ UNCHANGED <<desktop, deployment, saw>>
    BY <1>8 DEF DeleteBegins
  <2>2. client'[c] = [[Idle EXCEPT !.pc = "list", !.dep = p]
                       EXCEPT !.op = "domain_delete_advanced"]
    BY <1>2, <2>1
  <2>3. client'[c].op = "domain_delete_advanced" /\ client'[c].pc = "list"
    BY <2>2 DEF Idle
  <2> QED
    BY <1>1, <1>3, <2>1, <2>3, Unconcerned, BeginsKeeps
<1>9. ASSUME NEW d \in Desktops, NEW op \in Requests, NEW statuses, Asks(c, d, op, statuses)
      PROVE  DeploymentInv'
  <2>1. Begins(c, op, [Idle EXCEPT !.pc = "write", !.now = d]) /\ UNCHANGED <<desktop, deployment, saw>>
    BY <1>9 DEF Asks
  <2>2. client'[c] = [[Idle EXCEPT !.pc = "write", !.now = d]
                       EXCEPT !.op = op]
    BY <1>2, <2>1
  <2>3. client'[c].op = op /\ client'[c].pc = "write"
    BY <2>2 DEF Idle
  <2> QED
    BY <1>1, <2>1, <2>3, Unconcerned, BeginsKeeps
<1>10. ASSUME NEW d \in Desktops,
              \/ StartBegins(c, d) \/ DeletionBegins(c, d) \/ ShutDownBegins(c, d)
              \/ StopBegins(c, d) \/ EditOpens(c, d) \/ TemplateOpens(c, d)
       PROVE  DeploymentInv'
  BY <1>3, <1>9, <1>10 DEF StartBegins, DeletionBegins, ShutDownBegins, StopBegins, EditOpens, TemplateOpens
<1> QED
  BY <1>4, <1>5, <1>6, <1>7, <1>8, <1>10 DEF RequestBegins

----------------------------------------------------------------------------
(* A request goes on.                                                      *)

\* One goes on or ends while no desktop is made and no row removed.
LEMMA GoingKeeps ==
    ASSUME Assumption, DeploymentInv, Types', NEW c \in Clients,
           \A b \in Clients : b # c => client'[b] = client[b],
           \A b \in Clients : b # c =>
                (saw'[b] => saw[b] \/ (client[b].pc = "deleted" => desktop'[client[b].now] = None)),
           client'[c].op \in {client[c].op, None},
           NoneAppears, RowsStay, ClientInv(c)'
    PROVE  DeploymentInv'
<1>1. \A b \in Clients : ClientInv(b)'
  BY WaitingKeeps DEF DeploymentInv
<1>2. OneAtATime'
  BY StillAlone DEF DeploymentInv
<1> QED
  BY <1>1, <1>2, TableKeeps DEF DeploymentInv

\* The tables and what others saw stay as they are.
LEMMA LookingKeeps ==
    ASSUME Assumption, DeploymentInv, Types', NEW c \in Clients, NEW r, client' = [client EXCEPT ![c] = r],
           r.op \in {client[c].op, None}, UNCHANGED <<desktop, saw>>, RowsStay, ClientInv(c)'
    PROVE  DeploymentInv'
<1>1. NoneAppears /\ client'[c] = r /\ \A b \in Clients : b # c => client'[b] = client[b]
  BY DEF NoneAppears, DeploymentInv, Types
<1> QED
  BY <1>1, GoingKeeps

\* A status is written by who ends with it.
LEMMA WritingKeeps ==
    ASSUME Assumption, DeploymentInv, Types', NEW c \in Clients, NEW d \in Desktops, NEW ok, Answers(c, ok),
           UNCHANGED deployment,
           \/ UNCHANGED <<desktop, saw>>
           \/ \E new : Put(d, new) /\ desktop[d] # None /\ new.tag = desktop[d].tag
    PROVE  DeploymentInv'
<1>1. Types /\ Idle.pc = "idle" /\ Idle.op = None
  BY DEF DeploymentInv, Idle
<1>2. client'[c] = Idle /\ \A b \in Clients : b # c => client'[b] = client[b]
  BY <1>1 DEF Answers, AnswersOf, Types
<1>3. NoneAppears
  BY <1>1 DEF NoneAppears, Put, Types
<1>4. RowsStay
  BY DEF RowsStay
<1>5. ASSUME NEW b \in Clients, saw'[b] PROVE saw[b] \/ (client[b].pc = "deleted" => desktop'[client[b].now] = None)
  BY <1>1, <1>5 DEF Put, Types
<1> QED
  BY <1>1, <1>2, <1>3, <1>4, <1>5, Unconcerned, GoingKeeps

\* A request that ends changes nothing else.
LEMMA EndingKeeps ==
    ASSUME Assumption, DeploymentInv, Types', NEW c \in Clients, client' = [client EXCEPT ![c] = Idle],
           UNCHANGED <<desktop, deployment, saw>>
    PROVE  DeploymentInv'
<1>1. Idle.op = None /\ Idle.pc = "idle"
  BY DEF Idle
<1>2. client'[c].pc = "idle"
  BY <1>1 DEF DeploymentInv, Types
<1>3. RowsStay /\ UNCHANGED <<desktop, saw>>
  BY DEF RowsStay
<1>4. ClientInv(c)'
  BY <1>2, Unconcerned
<1> QED
  BY <1>1, <1>3, <1>4, LookingKeeps

\* While one request makes desktops or deletes, no other does.
LEMMA OthersAside ==
    ASSUME Types, OneAtATime, NEW c \in Clients, client[c].op \in Exclusive,
           NEW b \in Clients, b # c
    PROVE  client[b].pc \in {"idle", "write"}
<1>1. client[b].op \notin Exclusive
  BY DEF OneAtATime
<1>2. client[b] \in Client /\ Knows(client[b])
  BY DEF Types, KnowingClient
<1>3. client[b].pc \in {"idle", "row", "existing", "check", "insert", "write", "list", "delete", "deleted"}
  BY <1>2 DEF Client
<1> QED
  BY <1>1, <1>2, <1>3 DEF Knows, Adding, Deleting, Exclusive

\* The desktop made is the one more that the quota allows, and what its tag
\* names is there.
LEMMA InsertionKeeps ==
    ASSUME Assumption, DeploymentInv, Types', NEW c \in Clients, Inserts(c),
           desktop[<<client[c].now, IdOf[client[c].name]>>] = None
    PROVE  DeploymentInv'
<1>u. PICK u : u = client[c].now
  OBVIOUS
<1> DEFINE d == <<u, IdOf[client[c].name]>>
           r == [client[c] EXCEPT !.pc = "check", !.now = None]
<1>1. Types /\ client[c] \in Client /\ Knows(client[c]) /\ client[c].pc = "insert"
  BY DEF DeploymentInv, Types, KnowingClient, Inserts
<1>2. u \in Users /\ client[c].name \in Names /\ client[c].op \in Additions
  BY <1>u, <1>1 DEF Knows, Adding
<1>3. d \in Desktops /\ d[1] = u
  BY <1>2 DEF Assumption, Desktops
<1>4. PICK new : new.tag = client[c].dep /\ new # None /\ Put(d, new) /\ UNCHANGED deployment
                 /\ client' = [client EXCEPT ![c] = r]
  <2> DEFINE made == [name |-> client[c].name, tag |-> client[c].dep, status |-> "Creating", followed |-> TRUE]
  <2>1. made \in Row
    BY <1>1, <1>2 DEF Row, Client, Statuses
  <2>2. made # None
    BY <2>1 DEF Assumption
  <2>3. Put(d, made) /\ UNCHANGED deployment /\ client' = [client EXCEPT ![c] = r]
    BY <1>u DEF Inserts, Goes
  <2>4. made.tag = client[c].dep
    OBVIOUS
  <2> QED
    BY <2>2, <2>3, <2>4
<1>5. client'[c] = r /\ \A b \in Clients : b # c => client'[b] = client[b]
  BY <1>1, <1>4 DEF Types
<1>6. r.pc = "check" /\ r.dep = client[c].dep /\ r.op = client[c].op
  BY <1>1 DEF Client
<1>7. desktop' = [desktop EXCEPT ![d] = new]
  BY <1>4 DEF Put
<1>8. client[c].dep # None => deployment[client[c].dep] # None
  BY <1>1 DEF DeploymentInv, ClientInv, AdditionHasRow, Adding
<1>9. ASSUME NEW b \in Clients PROVE ClientInv(b)'
  <2>1. CASE b = c
    BY <1>4, <1>5, <1>6, <1>8, <2>1 DEF ClientInv, InsertFits, AdditionHasRow, DeletionCovers, SeenIsGone
  <2>2. CASE b # c
    BY <1>1, <1>2, <1>5, <2>2, OthersAside, Unconcerned DEF DeploymentInv, Exclusive
  <2> QED
    BY <2>1, <2>2
<1>10. OneAtATime'
  BY <1>1, <1>5, <1>6, StillAlone DEF DeploymentInv
<1>11. ASSUME NEW e \in Desktops, desktop'[e] # None, desktop'[e].tag # None
       PROVE  deployment'[desktop'[e].tag] # None
  <2>1. CASE e = d
    BY <1>1, <1>3, <1>4, <1>7, <1>8, <1>11, <2>1 DEF Types
  <2>2. CASE e # d
    BY <1>1, <1>4, <1>7, <1>11, <2>2 DEF Types, DeploymentInv, TaggedHasDeployment
  <2> QED
    BY <2>1, <2>2
<1> HIDE DEF d
<1>12. Of(u)' = Of(u) \cup {d} /\ d \notin Of(u)
  <2>1. desktop[d] = None
    BY <1>u DEF d
  <2>2. \A e \in Desktops : desktop'[e] # None <=> desktop[e] # None \/ e = d
    BY <1>1, <1>3, <1>4, <1>7 DEF Types
  <2>3. Of(u)' = {e \in Desktops : e[1] = u /\ desktop'[e] # None}
    BY DEF Of
  <2> QED
    BY <1>3, <2>1, <2>2, <2>3 DEF Of
<1>13. ASSUME NEW v \in Users PROVE Cardinality(Of(v))' <= Quota[v]
  <2>1. CASE v = u
    <3>1. Cardinality(Of(u)) < Quota[u] /\ Quota[u] \in Nat
      BY <1>u, <1>1, <1>2 DEF DeploymentInv, ClientInv, InsertFits, WithinQuota, Assumption
    <3>2. IsFiniteSet(Of(u)) /\ Cardinality(Of(u)) \in Nat
      BY <1>2, OfIsFinite, FS_CardinalityType
    <3>3. Cardinality(Of(u) \cup {d}) = Cardinality(Of(u)) + 1
      BY <1>12, <3>2, FS_AddElement
    <3>4. Cardinality(Of(u))' = Cardinality(Of(u)) + 1
      BY <1>12, <3>3
    <3> QED
      BY <2>1, <3>1, <3>2, <3>4
  <2>2. CASE v # u
    <3>1. Of(v)' = Of(v)
      BY <1>1, <1>3, <1>7, <2>2 DEF Of, Types
    <3> QED
      BY <3>1 DEF DeploymentInv, DeployedWithinQuota
  <2> QED
    BY <2>1, <2>2
<1> QED
  BY <1>9, <1>10, <1>11, <1>13 DEF DeploymentInv, TaggedHasDeployment, DeployedWithinQuota

\* The row is removed when no desktop has its tag.
LEMMA RemovalKeeps ==
    ASSUME Assumption, DeploymentInv, Types', NEW c \in Clients, RemovesRow(c)
    PROVE  DeploymentInv'
<1> DEFINE p == client[c].dep
<1>1. Types /\ Knows(client[c]) /\ client[c].pc = "delete" /\ client[c].todo = {}
  BY DEF DeploymentInv, Types, KnowingClient, RemovesRow
<1>2. client[c].op \in Exclusive /\ p \in Deployments
  BY <1>1 DEF Knows, Deleting, Exclusive
<1>3. client' = [client EXCEPT ![c] = Idle] /\ deployment' = [deployment EXCEPT ![p] = None]
      /\ UNCHANGED <<desktop, saw>>
  BY DEF RemovesRow, Answers, AnswersOf
<1>4. Tagged(p) = {}
  BY <1>1 DEF DeploymentInv, ClientInv, DeletionCovers, Left
<1>5. client'[c].pc = "idle" /\ client'[c].op = None /\ \A b \in Clients : b # c => client'[b] = client[b]
  BY <1>1, <1>3 DEF Types, Idle
<1>6. ASSUME NEW b \in Clients PROVE ClientInv(b)'
  <2>1. client'[b].pc \in {"idle", "write"}
    BY <1>1, <1>2, <1>5, OthersAside DEF DeploymentInv
  <2> QED
    BY <2>1, Unconcerned
<1>7. OneAtATime'
  BY <1>1, <1>5, StillAlone DEF DeploymentInv
<1>8. ASSUME NEW e \in Desktops, desktop'[e] # None, desktop'[e].tag # None
       PROVE  deployment'[desktop'[e].tag] # None
  <2>1. desktop[e].tag # p /\ deployment[desktop[e].tag] # None
    BY <1>3, <1>4, <1>8 DEF DeploymentInv, TaggedHasDeployment, Tagged
  <2>2. desktop[e].tag \in Deployments
    BY <1>1, <1>3, <1>8 DEF Types, Row
  <2> QED
    BY <1>1, <1>3, <2>1, <2>2 DEF Types
<1>9. DeployedWithinQuota'
  BY <1>3 DEF DeploymentInv, DeployedWithinQuota, Of
<1> QED
  BY <1>6, <1>7, <1>8, <1>9 DEF DeploymentInv, TaggedHasDeployment

\* What a request does next keeps what it knows.
LEMMA GoingOnKeeps ==
    ASSUME Assumption, DeploymentInv, NEW c \in Clients, RequestGoesOn(c)
    PROVE  DeploymentInv'
<1>1. Types /\ client[c] \in Client /\ Knows(client[c]) /\ Types'
  BY GoingOnTypes DEF DeploymentInv, Types, KnowingClient
<1>2. ClientInv(c)
  BY DEF DeploymentInv
<1>3. ASSUME UNCHANGED deployment PROVE RowsStay
  BY <1>3 DEF RowsStay
<1>4. ASSUME NEW r, client' = [client EXCEPT ![c] = r], r.op = client[c].op, UNCHANGED <<desktop, deployment, saw>>,
             r.pc = "insert" => WithinQuota(r.now),
             r.pc \in Adding \ {"row"} /\ r.dep # None => deployment[r.dep] # None,
             r.pc = "delete" => Tagged(r.dep) \subseteq r.todo,
             r.pc # "deleted"
      PROVE  DeploymentInv'
  <2>1. client'[c] = r /\ UNCHANGED <<desktop, saw>> /\ RowsStay
    BY <1>1, <1>3, <1>4 DEF Types
  <2>2. InsertFits(c)'
    BY <1>4, <2>1 DEF InsertFits, WithinQuota, Of
  <2>3. DeletionCovers(c)'
    BY <1>4, <2>1 DEF DeletionCovers, Tagged, Left
  <2>4. ClientInv(c)'
    BY <1>4, <2>1, <2>2, <2>3 DEF ClientInv, AdditionHasRow, SeenIsGone, Adding
  <2> QED
    BY <1>1, <1>4, <2>1, <2>4, LookingKeeps
<1>5. CASE WritesRow(c)
  <2> DEFINE r == [client[c] EXCEPT !.pc = "existing"]
  <2>1. /\ deployment' = [deployment EXCEPT ![client[c].dep] = [name |-> client[c].name, users |-> client[c].todo]]
        /\ client' = [client EXCEPT ![c] = r] /\ client[c].pc = "row" /\ UNCHANGED <<desktop, saw>>
    BY <1>5 DEF WritesRow, Goes
  <2>2. client[c].dep \in Deployments /\ client[c].name \in Names /\ client[c].todo \subseteq Users
    BY <1>1, <2>1 DEF Knows, Adding
  <2>3. [name |-> client[c].name, users |-> client[c].todo] # None
    BY <2>2 DEF Assumption, Deployed
  <2>4. RowsStay /\ deployment'[client[c].dep] # None
    BY <1>1, <2>1, <2>2, <2>3 DEF RowsStay, Types
  <2>5. r.op = client[c].op /\ r.pc = "existing" /\ r.dep = client[c].dep
    BY <1>1 DEF Client
  <2>6. client'[c] = r
    BY <1>1, <2>1 DEF Types
  <2> HIDE DEF r
  <2>7. client'[c].pc = "existing" /\ deployment'[client'[c].dep] # None
    BY <2>4, <2>5, <2>6
  <2>8. ClientInv(c)'
    BY <2>7, BegunAddition
  <2> QED
    BY <1>1, <2>1, <2>4, <2>5, <2>8, LookingKeeps
<1>6. CASE ReadsExisting(c)
  <2>1. ASSUME NEW existing, Goes(c, [client[c] EXCEPT !.pc = "check", !.skipped = existing])
        PROVE  DeploymentInv'
    <3> DEFINE r == [client[c] EXCEPT !.pc = "check", !.skipped = existing]
    <3>1. r.op = client[c].op /\ r.pc = "check" /\ r.dep = client[c].dep
      BY <1>1 DEF Client
    <3>2. client[c].dep # None => deployment[client[c].dep] # None
      BY <1>2, <1>6 DEF ClientInv, AdditionHasRow, ReadsExisting, Adding
    <3>3. client' = [client EXCEPT ![c] = r] /\ UNCHANGED <<desktop, deployment, saw>>
      BY <1>6, <2>1 DEF ReadsExisting, Goes
    <3> HIDE DEF r
    <3> QED
      BY <1>4, <3>1, <3>2, <3>3
  <2> QED
    BY <1>1, <1>6, <2>1, EndingKeeps DEF ReadsExisting, Answers, AnswersOf
<1>7. CASE Inserts(c)
  <2>1. CASE desktop[<<client[c].now, IdOf[client[c].name]>>] = None
    BY <1>1, <1>7, <2>1, InsertionKeeps
  <2>2. CASE desktop[<<client[c].now, IdOf[client[c].name]>>] # None
    <3> DEFINE r == [client[c] EXCEPT !.pc = "check", !.now = None, !.missed = @ \cup {client[c].now}]
    <3>1. r.op = client[c].op /\ r.pc = "check" /\ r.dep = client[c].dep
      BY <1>1 DEF Client
    <3>2. client[c].dep # None => deployment[client[c].dep] # None
      BY <1>2, <1>7 DEF ClientInv, AdditionHasRow, Inserts, Adding
    <3>3. client' = [client EXCEPT ![c] = r] /\ UNCHANGED <<desktop, deployment, saw>>
      BY <1>7, <2>2 DEF Inserts, Goes
    <3> HIDE DEF r
    <3> QED
      BY <1>4, <3>1, <3>2, <3>3
  <2> QED
    BY <2>1, <2>2
<1>8. CASE AdditionEnds(c) \/ TimesOut(c)
  BY <1>1, <1>8, EndingKeeps DEF AdditionEnds, TimesOut, AnswersOf, Dies
<1>9. ASSUME NEW u \in Users, ChecksQuota(c, u) PROVE DeploymentInv'
  <2>1. client[c].dep # None => deployment[client[c].dep] # None
    BY <1>2, <1>9 DEF ClientInv, AdditionHasRow, ChecksQuota, Adding
  <2>2. PICK r : /\ client' = [client EXCEPT ![c] = r] /\ r.op = client[c].op /\ r.dep = client[c].dep
                 /\ r.pc = "check" \/ (r.pc = "insert" /\ r.now = u /\ WithinQuota(u))
    <3> DEFINE in == [client[c] EXCEPT !.pc = "insert", !.now = u, !.todo = @ \ {u}]
               out == [client[c] EXCEPT !.todo = @ \ {u}, !.missed = @ \cup {u}]
    <3>1. in.op = client[c].op /\ in.dep = client[c].dep /\ in.pc = "insert" /\ in.now = u
      BY <1>1 DEF Client
    <3>2. out.op = client[c].op /\ out.dep = client[c].dep /\ out.pc = "check"
      BY <1>1, <1>9 DEF Client, ChecksQuota
    <3>3. client' = [client EXCEPT ![c] = IF WithinQuota(u) THEN in ELSE out]
      BY <1>9 DEF ChecksQuota, Goes
    <3> HIDE DEF in, out
    <3>4. CASE WithinQuota(u)
      <4>1. client' = [client EXCEPT ![c] = in]
        BY <3>3, <3>4
      <4> QED
        BY <3>1, <3>4, <4>1
    <3>5. CASE ~WithinQuota(u)
      <4>1. client' = [client EXCEPT ![c] = out]
        BY <3>3, <3>5
      <4> QED
        BY <3>2, <4>1
    <3> QED
      BY <3>4, <3>5
  <2>3. UNCHANGED <<desktop, deployment, saw>>
    BY <1>9 DEF ChecksQuota
  <2> QED
    BY <1>4, <2>1, <2>2, <2>3
<1>10. CASE Lists(c)
  <2>1. ASSUME Goes(c, [client[c] EXCEPT !.pc = "delete", !.todo = Tagged(client[c].dep)]) PROVE DeploymentInv'
    <3> DEFINE r == [client[c] EXCEPT !.pc = "delete", !.todo = Tagged(client[c].dep)]
    <3>1. r.op = client[c].op /\ r.pc = "delete" /\ r.dep = client[c].dep /\ r.todo = Tagged(client[c].dep)
      BY <1>1 DEF Client
    <3>2. client' = [client EXCEPT ![c] = r] /\ UNCHANGED <<desktop, deployment, saw>>
      BY <1>10, <2>1 DEF Lists, Goes
    <3>3. "delete" \notin Adding
      BY DEF Adding
    <3> HIDE DEF r
    <3> QED
      BY <1>4, <3>1, <3>2, <3>3
  <2> QED
    BY <1>1, <1>10, <2>1, EndingKeeps DEF Lists, Answers, AnswersOf
<1>11. ASSUME NEW d \in Desktops, DeletesDesktop(c, d) PROVE DeploymentInv'
  <2> DEFINE r == [client[c] EXCEPT !.pc = "deleted", !.now = d, !.todo = @ \ {d}]
  <2>1. /\ client' = [client EXCEPT ![c] = r] /\ saw' = [saw EXCEPT ![c] = FALSE] /\ UNCHANGED deployment
        /\ client[c].pc = "delete" /\ d \in client[c].todo
    BY <1>11 DEF DeletesDesktop, Goes
  <2>2. r.op = client[c].op /\ r.pc = "deleted" /\ r.dep = client[c].dep /\ r.now = d
        /\ r.todo = client[c].todo \ {d}
    BY <1>1 DEF Client
  <2>3. client'[c] = r /\ ~saw'[c] /\ \A b \in Clients : b # c => client'[b] = client[b] /\ saw'[b] = saw[b]
    BY <1>1, <2>1 DEF Types
  <2> HIDE DEF r
  <2>4. NoneAppears
    <3>1. CASE desktop[d] = None \/ desktop[d].status = "Deleting"
      BY <1>11, <3>1 DEF DeletesDesktop, NoneAppears
    <3>2. CASE desktop[d] # None /\ desktop[d].status # "Deleting"
      <4>1. desktop[d] \in Row
        BY <1>1, <3>2 DEF Types
      <4>2. [desktop[d] EXCEPT !.status = "Deleting", !.followed = Follows(desktop[d].status, "Deleting")].tag
              = desktop[d].tag
        BY <4>1 DEF Row
      <4>3. desktop' = [desktop EXCEPT ![d] = [desktop[d] EXCEPT !.status = "Deleting",
                                                   !.followed = Follows(desktop[d].status, "Deleting")]]
        BY <1>11, <3>2 DEF DeletesDesktop
      <4> QED
        BY <1>1, <3>2, <4>2, <4>3 DEF NoneAppears, Types
    <3> QED
      BY <3>1, <3>2
  <2>5. Tagged(client[c].dep) \subseteq client[c].todo
    BY <1>2, <2>1 DEF ClientInv, DeletionCovers, Left
  <2>6. DeletionCovers(c)'
    <3>1. PICK p : p = client[c].dep
      OBVIOUS
    <3>2. Tagged(p)' \subseteq Tagged(p)
      BY <2>4 DEF NoneAppears, Tagged
    <3> QED
      BY <2>2, <2>3, <2>5, <3>1, <3>2 DEF DeletionCovers, Left
  <2>7. ClientInv(c)'
    BY <2>2, <2>3, <2>6 DEF ClientInv, InsertFits, AdditionHasRow, SeenIsGone, Adding
  <2>8. client'[c].op \in {client[c].op, None} /\ RowsStay
    BY <1>3, <2>1, <2>2, <2>3
  <2>9. \A b \in Clients : b # c =>
            (saw'[b] => saw[b] \/ (client[b].pc = "deleted" => desktop'[client[b].now] = None))
    BY <2>3
  <2> QED
    BY <1>1, <2>3, <2>4, <2>7, <2>8, <2>9, GoingKeeps
<1>12. CASE DesktopIsDeleted(c)
  <2> DEFINE r == [client[c] EXCEPT !.pc = "delete", !.now = None]
  <2>1. r.op = client[c].op /\ r.pc = "delete" /\ r.dep = client[c].dep /\ r.todo = client[c].todo
    BY <1>1 DEF Client
  <2>2. client' = [client EXCEPT ![c] = r] /\ UNCHANGED <<desktop, deployment, saw>>
        /\ client[c].pc = "deleted" /\ saw[c]
    BY <1>12 DEF DesktopIsDeleted, Goes
  <2>3. Tagged(client[c].dep) \subseteq client[c].todo \cup {client[c].now} /\ desktop[client[c].now] = None
    BY <1>2, <2>2 DEF ClientInv, DeletionCovers, SeenIsGone, Left
  <2>4. Tagged(client[c].dep) \subseteq client[c].todo
    BY <2>3 DEF Tagged
  <2>5. "delete" \notin Adding
    BY DEF Adding
  <2> HIDE DEF r
  <2> QED
    BY <1>4, <2>1, <2>2, <2>4, <2>5
<1>13. CASE RemovesRow(c)
  BY <1>1, <1>13, RemovalKeeps
<1>14. ASSUME NEW status, PutStatus(client[c].now, status), Answers(c, TRUE), UNCHANGED deployment,
              client[c].now \in Desktops
       PROVE  DeploymentInv'
  <2>1. PICK d \in Desktops : d = client[c].now
    BY <1>14
  <2>2. CASE UNCHANGED <<desktop, saw>>
    BY <1>1, <1>14, <2>1, <2>2, WritingKeeps
  <2>3. CASE ~UNCHANGED <<desktop, saw>>
    <3>1. desktop[d] # None /\ Put(d, [desktop[d] EXCEPT !.status = status,
                                                         !.followed = Follows(desktop[d].status, status)])
      BY <1>14, <2>1, <2>3 DEF PutStatus
    <3>2. desktop[d] \in Row
      BY <1>1, <3>1 DEF Types
    <3>3. [desktop[d] EXCEPT !.status = status, !.followed = Follows(desktop[d].status, status)].tag = desktop[d].tag
      BY <3>2 DEF Row
    <3> QED
      BY <1>1, <1>14, <3>1, <3>3, WritingKeeps
  <2> QED
    BY <2>2, <2>3
<1>15. CASE WritesStatus(c) \/ MakesTemplate(c)
  <2>1. client[c].now \in Desktops
    BY <1>1, <1>15 DEF WritesStatus, MakesTemplate, Knows
  <2> QED
    BY <1>14, <1>15, <2>1 DEF WritesStatus, MakesTemplate
<1>16. CASE Edits(c)
  <2>1. PICK d \in Desktops : d = client[c].now
    BY <1>1, <1>16 DEF Edits, Knows
  <2>2. CASE desktop[d] = None
    BY <1>1, <1>16, <2>1, <2>2, WritingKeeps DEF Edits
  <2>3. CASE desktop[d] # None
    <3>1. desktop[d] \in Row
      BY <1>1, <2>3 DEF Types
    <3>2. PICK n, f : Put(d, [desktop[d] EXCEPT !.name = n, !.status = "Updating", !.followed = f])
      BY <1>16, <2>1, <2>3 DEF Edits
    <3>3. [desktop[d] EXCEPT !.name = n, !.status = "Updating", !.followed = f].tag = desktop[d].tag
      BY <3>1 DEF Row
    <3>4. Answers(c, TRUE) /\ UNCHANGED deployment
      BY <1>16 DEF Edits
    <3> QED
      BY <1>1, <2>3, <3>2, <3>3, <3>4, WritingKeeps
  <2> QED
    BY <2>2, <2>3
<1> QED
  BY <1>5, <1>6, <1>7, <1>8, <1>9, <1>10, <1>11, <1>12, <1>13, <1>15, <1>16 DEF RequestGoesOn

LEMMA InvStep == Assumption /\ Apart /\ DeploymentInv /\ [Next]_vars => DeploymentInv'
<1> SUFFICES ASSUME Assumption, Apart, DeploymentInv, [Next]_vars PROVE DeploymentInv'
  OBVIOUS
<1>1. CASE UNCHANGED vars
  BY <1>1 DEF vars, DeploymentInv, Types, OneAtATime, ClientInv, InsertFits, AdditionHasRow, DeletionCovers,
              SeenIsGone, Left, WithinQuota, Of, Tagged, TaggedHasDeployment, DeployedWithinQuota
<1> QED
  BY <1>1, BeginningKeeps, GoingOnKeeps, EngineKeeps DEF Next

----------------------------------------------------------------------------
(* The theorems.                                                           *)

\* What the table of desktops and of deployments hold, and what a request
\* knows at each of its steps, stay what the code takes them for.
THEOREM DeploymentTypes == Assumption => (Spec => []Types)
<1>1. Types /\ [Next]_vars /\ Assumption => Types'
  BY TypesStep
<1> SUFFICES ASSUME Assumption PROVE Spec => []Types
  OBVIOUS
<1> QED
  BY <1>1, TypesInit, PTL DEF Spec

\* When desktops are made and deployments deleted by one request at a time, no
\* desktop has the id of a deployment that is gone: delete_deployment removes
\* the row when all of its desktops are deleted, whatever the engine, the
\* guests and the requests for single desktops do meanwhile.
THEOREM NoOrphanedDesktop == Assumption /\ Apart => (Spec => []TaggedHasDeployment)
<1> SUFFICES ASSUME Assumption, Apart PROVE Spec => []TaggedHasDeployment
  OBVIOUS
<1>1. DeploymentInv /\ [Next]_vars => DeploymentInv'
  BY InvStep
<1>2. Init => DeploymentInv
  BY InvInit
<1>3. DeploymentInv => TaggedHasDeployment
  BY DEF DeploymentInv
<1> QED
  BY <1>1, <1>2, <1>3, PTL DEF Spec

\* Then nobody has more desktops than the quota, however many a request makes
\* for many users: the quota is read again for each desktop.
THEOREM QuotaHolds == Assumption /\ Apart => (Spec => []DeployedWithinQuota)
<1> SUFFICES ASSUME Assumption, Apart PROVE Spec => []DeployedWithinQuota
  OBVIOUS
<1>1. DeploymentInv /\ [Next]_vars => DeploymentInv'
  BY InvStep
<1>2. Init => DeploymentInv
  BY InvInit
<1>3. DeploymentInv => DeployedWithinQuota
  BY DEF DeploymentInv
<1> QED
  BY <1>1, <1>2, <1>3, PTL DEF Spec
=============================================================================
