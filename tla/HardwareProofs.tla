--------------------------- MODULE HardwareProofs ---------------------------
(***************************************************************************)
(* Theorems about Hardware for every set of desktops, media and            *)
(* interfaces, and every bound, when the webapp serves one request at a    *)
(* time.                                                                   *)
(***************************************************************************)
EXTENDS Hardware, FiniteSetTheorems, TLAPS

----------------------------------------------------------------------------
(* What the variables hold, and what a request knows where it is.          *)

Client == [pc : {"idle", "update", "media", "medium", "stopped", "nets", "net", "stopping", "updating",
                 "insert", "take"},
           op : AllOps \cup {None}, id : Desktops \cup {None}, of : Media \cup Nets \cup {None},
           form : Form, todo : SUBSET Listed, now : Listed \cup {None}, asked : BOOLEAN]

Knows(r) ==
    /\ r.pc \in {"update", "insert"} => r.id \in Desktops
    /\ r.pc \in {"insert", "take", "media", "medium", "stopped"} => r.of \in Media
    /\ r.pc = "insert" => r.op \in {"domain_from_media", "domain_from_disk"}
    /\ r.pc \in {"stopped", "stopping", "updating"} => r.now \in Listed

KnowingClient == {r \in Client : Knows(r)}

Types ==
    /\ desktop \in [Desktops -> Row \cup {None}]
    /\ medium \in [Media -> {"Downloaded", "Deleting", None}]
    /\ net \subseteq Nets
    /\ client \in [Clients -> KnowingClient]
    /\ saw \in [Clients -> BOOLEAN]

LEMMA IdleKnows == Assumption => Idle \in KnowingClient /\ Idle.pc = "idle" /\ Idle.op = None
<1> SUFFICES ASSUME Assumption PROVE Idle \in KnowingClient /\ Idle.pc = "idle" /\ Idle.op = None
  OBVIOUS
<1>1. NoForm \in Form
  BY DEF NoForm, Form, Assumption
<1>2. Idle \in Client
  BY <1>1 DEF Idle, Client
<1>3. Knows(Idle)
  BY DEF Idle, Knows
<1> QED
  BY <1>2, <1>3 DEF Idle, KnowingClient

LEMMA TypesInit == Assumption /\ Init => Types
<1> SUFFICES ASSUME Assumption, Init PROVE Types
  OBVIOUS
<1>1. [status : {"Stopped"}, followed : {FALSE}, cpus : {0}, nets : {Nets}, isos : {{}, Media},
       xml : {Nets}, file : {None}] \subseteq Row
  <2>1. /\ {"Stopped"} \subseteq Statuses /\ {FALSE} \subseteq BOOLEAN /\ {0} \subseteq 0 .. MaxCpus
        /\ {Nets} \subseteq SUBSET Nets /\ {{}, Media} \subseteq SUBSET Media
    BY DEF Statuses, Assumption
  <2> QED
    BY <2>1 DEF Row
<1>2. desktop \in [Desktops -> Row \cup {None}]
  BY <1>1 DEF Init
<1> QED
  BY <1>2, IdleKnows DEF Init, Types

\* One row of a desktop is written, or none.
Writes(d) ==
    \/ UNCHANGED <<desktop, saw>>
    \/ desktop[d] # None /\ \E new \in Row : Put(d, new)

LEMMA WritesTypes ==
    ASSUME Types, NEW d \in Desktops, NEW new \in Row \cup {None}, Put(d, new)
    PROVE  desktop' \in [Desktops -> Row \cup {None}] /\ saw' \in [Clients -> BOOLEAN]
<1>1. \A c \in Clients : (saw[c] \/ Sees(c, d, new)) \in BOOLEAN
  BY DEF Types, Sees
<1> QED
  BY <1>1 DEF Types, Put

LEMMA RowStays ==
    ASSUME Types, NEW d \in Desktops, desktop[d] # None, NEW status \in Statuses
    PROVE  /\ desktop[d] \in Row
           /\ WithStatus(desktop[d], status) \in Row
           /\ WithStatus(desktop[d], status).nets = desktop[d].nets
           /\ WithStatus(desktop[d], status).isos = desktop[d].isos
           /\ WithStatus(desktop[d], status).file = desktop[d].file
           /\ WithStatus(desktop[d], status).status = status
           /\ \A f \in BOOLEAN : [desktop[d] EXCEPT !.status = status, !.followed = f] \in Row
<1>1. desktop[d] \in Row
  BY DEF Types
<1>2. Follows(desktop[d].status, status) \in BOOLEAN
  BY DEF Follows
<1> QED
  BY <1>1, <1>2 DEF WithStatus, Row

\* What the engine, users and guests do to a row: it goes, or stays but for
\* its status and its XML.
Plainly(d, new) ==
    \/ new = None
    \/ new \in Row /\ new.nets = desktop[d].nets /\ new.isos = desktop[d].isos /\ new.file = desktop[d].file

LEMMA OthersWrite ==
    ASSUME Assumption, Types, NEW d \in Desktops,
           Engine(d) \/ Starts(d) \/ ShutsDown(d) \/ DeletesDesktop(d) \/ GuestOff(d)
    PROVE  /\ desktop[d] # None /\ \E new : Put(d, new) /\ Plainly(d, new)
           /\ UNCHANGED <<medium, net, client>>
<1>1. desktop[d] # None /\ UNCHANGED <<medium, net, client>>
  BY DEF Engine, Starts, ShutsDown, DeletesDesktop, UserAsks, GuestOff
<1>2. desktop[d] \in Row
  BY <1>1 DEF Types
<1>3. ASSUME NEW status \in Statuses, Becomes(d, status) PROVE \E new : Put(d, new) /\ Plainly(d, new)
  <2>1. Plainly(d, [desktop[d] EXCEPT !.status = status, !.followed = FALSE])
    BY <1>2 DEF Plainly, Row
  <2> QED
    BY <1>3, <2>1 DEF Becomes
<1>4. ASSUME NEW status \in Statuses, Put(d, WithStatus(desktop[d], status))
      PROVE  \E new : Put(d, new) /\ Plainly(d, new)
  <2>1. Plainly(d, WithStatus(desktop[d], status))
    BY <1>1, RowStays DEF Plainly
  <2> QED
    BY <1>4, <2>1
<1>5. {"Stopped", "Failed", "Starting", "Started", "Shutting-down", "Deleting"} \subseteq Statuses
  BY DEF Statuses
<1>6. CASE Engine(d)
  <2>1. ASSUME XmlIsMade(d) PROVE \E new : Put(d, new) /\ Plainly(d, new)
    <3>1. Plainly(d, [desktop[d] EXCEPT !.status = "Stopped", !.followed = FALSE, !.xml = desktop[d].nets])
      BY <1>2, <1>5 DEF Plainly, Row
    <3> QED
      BY <1>3, <1>5, <2>1, <3>1 DEF XmlIsMade
  <2>2. Plainly(d, None)
    BY DEF Plainly
  <2> QED
    BY <1>3, <1>5, <1>6, <2>1, <2>2 DEF Engine
<1>7. CASE Starts(d) \/ ShutsDown(d) \/ DeletesDesktop(d)
  <2>1. PICK status \in {"Starting", "Shutting-down", "Deleting"} : Put(d, WithStatus(desktop[d], status))
    BY <1>7 DEF Starts, ShutsDown, DeletesDesktop, UserAsks
  <2>2. status \in Statuses
    BY <1>5
  <2> QED
    BY <1>1, <1>4, <2>1, <2>2
<1>8. CASE GuestOff(d)
  BY <1>3, <1>5, <1>8 DEF GuestOff
<1> QED
  BY <1>1, <1>6, <1>7, <1>8

\* A request that begins knows what its first step uses.
LEMMA BeginningTypes ==
    ASSUME Assumption, Types, NEW c \in Clients, RequestBegins(c)
    PROVE  /\ \E r \in KnowingClient : client' = [client EXCEPT ![c] = r]
           /\ UNCHANGED <<desktop, medium, net, saw>>
<1>1. Idle \in Client
  BY IdleKnows DEF KnowingClient
<1>2. ASSUME NEW op, NEW r, Begins(c, op, r), [r EXCEPT !.op = op] \in KnowingClient
      PROVE  /\ \E q \in KnowingClient : client' = [client EXCEPT ![c] = q]
             /\ UNCHANGED <<desktop, medium, net, saw>>
  BY <1>2 DEF Begins, tables
<1>3. ASSUME NEW d \in Desktops, NEW form \in Form, NEW op \in Edits, EditBegins(c, d, op, form)
      PROVE  /\ \E q \in KnowingClient : client' = [client EXCEPT ![c] = q]
             /\ UNCHANGED <<desktop, medium, net, saw>>
  <2>1. Limited(op, form) \in Form
    BY DEF Limited, Form, Assumption
  <2>2. [[Idle EXCEPT !.pc = "update", !.id = d, !.form = Limited(op, form)] EXCEPT !.op = op] \in KnowingClient
    BY <1>1, <2>1 DEF KnowingClient, Client, Knows, Edits, AllOps, Requests
  <2> QED
    BY <1>2, <1>3, <2>2 DEF EditBegins
<1>4. ASSUME NEW m \in Media, MediaDeleteBegins(c, m)
      PROVE  /\ \E q \in KnowingClient : client' = [client EXCEPT ![c] = q]
             /\ UNCHANGED <<desktop, medium, net, saw>>
  <2>1. [[Idle EXCEPT !.pc = "media", !.of = m] EXCEPT !.op = "media_delete"] \in KnowingClient
    BY <1>1 DEF KnowingClient, Client, Knows, AllOps, Requests
  <2> QED
    BY <1>2, <1>4, <2>1 DEF MediaDeleteBegins
<1>5. ASSUME NEW n \in Nets, InterfaceDeleteBegins(c, n)
      PROVE  /\ \E q \in KnowingClient : client' = [client EXCEPT ![c] = q]
             /\ UNCHANGED <<desktop, medium, net, saw>>
  <2>1. [[Idle EXCEPT !.pc = "nets", !.of = n] EXCEPT !.op = "interface_delete"] \in KnowingClient
    BY <1>1 DEF KnowingClient, Client, Knows, AllOps, Requests
  <2> QED
    BY <1>2, <1>5, <2>1 DEF InterfaceDeleteBegins
<1>6. ASSUME NEW d \in Desktops, NEW m \in Media, NEW op \in Requests, MediaAddBegins(c, d, m, op)
      PROVE  /\ \E q \in KnowingClient : client' = [client EXCEPT ![c] = q]
             /\ UNCHANGED <<desktop, medium, net, saw>>
  <2>1. op \in {"domain_from_media", "domain_from_disk"}
    BY <1>6 DEF MediaAddBegins
  <2>2. [[Idle EXCEPT !.pc = "insert", !.id = d, !.of = m] EXCEPT !.op = op] \in KnowingClient
    BY <1>1, <2>1 DEF KnowingClient, Client, Knows, AllOps, Requests
  <2> QED
    BY <1>2, <1>6, <2>2 DEF MediaAddBegins
<1> QED
  BY <1>3, <1>4, <1>5, <1>6 DEF RequestBegins

\* And so does one that goes on.
LEMMA GoingOnTypes ==
    ASSUME Assumption, Types, NEW c \in Clients, RequestGoesOn(c)
    PROVE  Types'
<1>1. client[c] \in Client /\ Knows(client[c])
  BY DEF Types, KnowingClient
<1>2. ASSUME \/ \E ok : Answers(c, ok)
             \/ Dies(c)
      PROVE  client' \in [Clients -> KnowingClient]
  BY <1>2, IdleKnows DEF Answers, Dies, Types
<1>3. ASSUME NEW r \in KnowingClient, Goes(c, r)
      PROVE  client' \in [Clients -> KnowingClient]
  BY <1>3 DEF Goes, Types
<1>4. ASSUME NEW d \in Desktops, NEW new, Update(d, new), desktop[d] # None => new \in Row
      PROVE  desktop' \in [Desktops -> Row \cup {None}] /\ saw' \in [Clients -> BOOLEAN]
  <2>1. CASE desktop[d] = None
    BY <1>4, <2>1 DEF Update, Types
  <2>2. CASE desktop[d] # None
    BY <1>4, <2>2, WritesTypes DEF Update
  <2> QED
    BY <2>1, <2>2
<1>5. CASE Updates(c)
  <2>1. client[c].id \in Desktops /\ client[c].form \in Form
    BY <1>1, <1>5 DEF Updates, Knows, Client
  <2>2. PICK d \in Desktops, form \in Form : d = client[c].id /\ form = client[c].form
    BY <2>1
  <2>3. ASSUME desktop[d] # None
        PROVE  [WithStatus(desktop[d], "Updating") EXCEPT !.cpus = form.cpus, !.nets = form.nets, !.isos = form.isos]
                  \in Row
    <3>1. WithStatus(desktop[d], "Updating") \in Row
      BY <2>3, RowStays DEF Statuses
    <3> QED
      BY <3>1 DEF Row, Form
  <2>4. desktop' \in [Desktops -> Row \cup {None}] /\ saw' \in [Clients -> BOOLEAN]
    <3>1. CASE UNCHANGED <<desktop, saw>>
      BY <3>1 DEF Types
    <3>2. CASE ~UNCHANGED <<desktop, saw>>
      <4>1. /\ desktop[d] # None
            /\ Put(d, [WithStatus(desktop[d], "Updating")
                        EXCEPT !.cpus = form.cpus, !.nets = form.nets, !.isos = form.isos])
        BY <1>5, <2>2, <3>2 DEF Updates
      <4> QED
        BY <2>3, <4>1, WritesTypes
    <3> QED
      BY <3>1, <3>2
  <2>5. client' \in [Clients -> KnowingClient] /\ UNCHANGED <<medium, net>>
    BY <1>2, <1>5 DEF Updates
  <2> QED
    BY <2>4, <2>5 DEF Types
<1>6. ASSUME NEW d \in Desktops, desktop[d] # None PROVE ListOf(d) \in Listed
  <2>1. desktop[d] \in Row
    BY <1>6 DEF Types
  <2> QED
    BY <2>1 DEF ListOf, Listed, Row
<1>7. CASE ListsMedia(c)
  <2>1. \A T \in SUBSET Listed : [client[c] EXCEPT !.pc = "medium", !.todo = T] \in KnowingClient
    BY <1>1, <1>7 DEF ListsMedia, KnowingClient, Client, Knows
  <2>2. {ListOf(d) : d \in {e \in Desktops : desktop[e] # None /\ client[c].of \in desktop[e].isos}} \in SUBSET Listed
    BY <1>6
  <2> QED
    BY <1>3, <1>7, <2>1, <2>2 DEF ListsMedia, tables, Types
<1>8. CASE ListsNets(c)
  <2>1. \A T \in SUBSET Listed : [client[c] EXCEPT !.pc = "net", !.todo = T] \in KnowingClient
    BY <1>1, <1>8 DEF ListsNets, KnowingClient, Client, Knows
  <2>2. {ListOf(d) : d \in {e \in Desktops : desktop[e] # None /\ client[c].of \in desktop[e].nets}} \in SUBSET Listed
    BY <1>6
  <2> QED
    BY <1>3, <1>8, <2>1, <2>2 DEF ListsNets, tables, Types
<1>9. ASSUME NEW e \in client[c].todo, SaysStopped(c, e) PROVE Types'
  <2>1. e \in Listed /\ client[c].todo \subseteq Listed
    BY <1>1 DEF Client
  <2>2. e.id \in Desktops
    BY <2>1 DEF Listed
  <2>3. [client[c] EXCEPT !.todo = @ \ {e}] \in KnowingClient
    BY <1>1, <1>9, <2>1 DEF SaysStopped, KnowingClient, Client, Knows
  <2>4. [client[c] EXCEPT !.pc = "stopped", !.now = e, !.todo = @ \ {e}] \in KnowingClient
    BY <1>1, <1>9, <2>1 DEF SaysStopped, KnowingClient, Client, Knows
  <2>5. client' \in [Clients -> KnowingClient]
    BY <1>3, <1>9, <2>3, <2>4 DEF SaysStopped
  <2>6. desktop' \in [Desktops -> Row \cup {None}] /\ saw' \in [Clients -> BOOLEAN]
    <3>1. CASE UNCHANGED <<desktop, saw>>
      BY <3>1 DEF Types
    <3>2. CASE Update(e.id, WithStatus(desktop[e.id], "Stopped"))
      BY <1>4, <2>2, <3>2, RowStays DEF Statuses
    <3> QED
      BY <1>9, <3>1, <3>2 DEF SaysStopped
  <2> QED
    BY <1>9, <2>5, <2>6 DEF SaysStopped, Types
<1>10. CASE TakesMediumOut(c)
  <2>1. client[c].now \in Listed /\ client[c].now.id \in Desktops /\ client[c].now.isos \subseteq Media
    BY <1>1, <1>10 DEF TakesMediumOut, Knows, Listed
  <2>2. PICK d \in Desktops : d = client[c].now.id
    BY <2>1
  <2>3. ASSUME desktop[d] # None
        PROVE  [WithStatus(desktop[d], "Updating") EXCEPT !.isos = client[c].now.isos \ {client[c].of}] \in Row
    <3>1. WithStatus(desktop[d], "Updating") \in Row
      BY <2>3, RowStays DEF Statuses
    <3> QED
      BY <2>1, <3>1 DEF Row
  <2>4. desktop' \in [Desktops -> Row \cup {None}] /\ saw' \in [Clients -> BOOLEAN]
    BY <1>4, <1>10, <2>2, <2>3 DEF TakesMediumOut
  <2>5. [client[c] EXCEPT !.pc = "medium", !.now = None] \in KnowingClient
    BY <1>1, <1>10 DEF TakesMediumOut, KnowingClient, Client, Knows
  <2> QED
    BY <1>3, <1>10, <2>4, <2>5 DEF TakesMediumOut, Types
<1>11. CASE MarksMedium(c)
  BY <1>2, <1>11 DEF MarksMedium, Types
<1>12. ASSUME NEW e \in client[c].todo, TakesNetOut(c, e) PROVE Types'
  <2>1. e \in Listed /\ client[c].todo \subseteq Listed
    BY <1>1 DEF Client
  <2>2. e.id \in Desktops /\ e.nets \subseteq Nets
    BY <2>1 DEF Listed
  <2>3. ASSUME desktop[e.id] # None PROVE [desktop[e.id] EXCEPT !.nets = e.nets \ {client[c].of}] \in Row
    <3>1. desktop[e.id] \in Row
      BY <2>2, <2>3 DEF Types
    <3> QED
      BY <2>2, <3>1 DEF Row
  <2>4. desktop' \in [Desktops -> Row \cup {None}] /\ saw' \in [Clients -> BOOLEAN]
    BY <1>4, <1>12, <2>2, <2>3 DEF TakesNetOut
  <2>5. \A p \in {"stopping", "updating", "net"} :
            [client[c] EXCEPT !.pc = p, !.now = e, !.asked = FALSE, !.todo = @ \ {e}] \in KnowingClient
    BY <1>1, <2>1 DEF KnowingClient, Client, Knows
  <2>6. PICK p \in {"stopping", "updating", "net"} :
            Goes(c, [client[c] EXCEPT !.pc = p, !.now = e, !.asked = FALSE, !.todo = @ \ {e}])
    BY <1>12 DEF TakesNetOut
  <2> QED
    BY <1>3, <1>12, <2>4, <2>5, <2>6 DEF TakesNetOut, Types
<1>13. CASE AsksDesktop(c)
  <2>1. client[c].now \in Listed /\ client[c].now.id \in Desktops
    BY <1>1, <1>13 DEF AsksDesktop, Knows, Listed
  <2>2. PICK d \in Desktops : d = client[c].now.id
    BY <2>1
  <2>3. PICK status \in Statuses :
            desktop' = IF desktop[d] = None THEN desktop ELSE [desktop EXCEPT ![d] = WithStatus(desktop[d], status)]
    BY <1>13, <2>2 DEF AsksDesktop, Statuses
  <2>4. desktop' \in [Desktops -> Row \cup {None}]
    BY <2>3, RowStays DEF Types
  <2>5. [client[c] EXCEPT !.asked = TRUE] \in KnowingClient
    BY <1>1 DEF KnowingClient, Client, Knows
  <2> QED
    BY <1>3, <1>13, <2>4, <2>5 DEF AsksDesktop, Types
<1>14. CASE SeesIt(c)
  <2>1. [client[c] EXCEPT !.pc = "updating", !.asked = FALSE] \in KnowingClient
    BY <1>1, <1>14 DEF SeesIt, KnowingClient, Client, Knows
  <2>2. [client[c] EXCEPT !.pc = "net", !.now = None] \in KnowingClient
    BY <1>1, <1>14 DEF SeesIt, KnowingClient, Client, Knows
  <2> QED
    BY <1>3, <1>14, <2>1, <2>2 DEF SeesIt, tables, Types
<1>15. CASE TimesOut(c)
  BY <1>2, <1>15 DEF TimesOut, tables, Types
<1>16. CASE RemovesNet(c)
  BY <1>2, <1>16 DEF RemovesNet, Types
<1>17. CASE InsertsDesktop(c)
  <2>1. client[c].id \in Desktops /\ client[c].of \in Media
    BY <1>1, <1>17 DEF InsertsDesktop, Knows
  <2>2. PICK d \in Desktops, m \in Media : d = client[c].id /\ m = client[c].of
    BY <2>1
  <2>3. \A isos \in SUBSET Media, file \in Media \cup {None} :
            [status |-> "CreatingDiskFromScratch", followed |-> TRUE, cpus |-> 0, nets |-> {}, isos |-> isos,
             xml |-> {}, file |-> file] \in Row
    BY DEF Row, Statuses, Assumption
  <2>4. [client[c] EXCEPT !.pc = "take"] \in KnowingClient
    BY <1>1, <1>17 DEF InsertsDesktop, KnowingClient, Client, Knows
  <2>5. client' \in [Clients -> KnowingClient]
    BY <1>2, <1>3, <1>17, <2>4 DEF InsertsDesktop
  <2>6. desktop' \in [Desktops -> Row \cup {None}] /\ saw' \in [Clients -> BOOLEAN]
    <3>1. CASE UNCHANGED <<desktop, saw>>
      BY <3>1 DEF Types
    <3>2. CASE ~UNCHANGED <<desktop, saw>>
      <4>1. PICK isos \in SUBSET Media, file \in Media \cup {None} :
                Put(d, [status |-> "CreatingDiskFromScratch", followed |-> TRUE, cpus |-> 0, nets |-> {},
                        isos |-> isos, xml |-> {}, file |-> file])
        BY <1>17, <2>2, <3>2 DEF InsertsDesktop
      <4> QED
        BY <2>3, <4>1, WritesTypes
    <3> QED
      BY <3>1, <3>2
  <2> QED
    BY <1>17, <2>5, <2>6 DEF InsertsDesktop, Types
<1>18. CASE TakesMedium(c)
  BY <1>2, <1>18 DEF TakesMedium, Types
<1> QED
  BY <1>5, <1>7, <1>8, <1>9, <1>10, <1>11, <1>12, <1>13, <1>14, <1>15, <1>16, <1>17, <1>18 DEF RequestGoesOn

LEMMA TypesStep == Assumption /\ Types /\ [Next]_vars => Types'
<1> SUFFICES ASSUME Assumption, Types, [Next]_vars PROVE Types'
  OBVIOUS
<1>1. CASE UNCHANGED vars
  BY <1>1 DEF vars, Types
<1>2. ASSUME NEW c \in Clients, RequestBegins(c) PROVE Types'
  BY <1>2, BeginningTypes DEF Types
<1>3. ASSUME NEW d \in Desktops,
             Engine(d) \/ Starts(d) \/ ShutsDown(d) \/ DeletesDesktop(d) \/ GuestOff(d)
      PROVE  Types'
  <2>1. PICK new : Put(d, new) /\ Plainly(d, new)
    BY <1>3, OthersWrite
  <2>2. new \in Row \cup {None}
    BY <2>1 DEF Plainly
  <2>3. UNCHANGED <<medium, net, client>>
    BY <1>3, OthersWrite
  <2> QED
    BY <2>1, <2>2, <2>3, WritesTypes DEF Types
<1>4. ASSUME NEW m \in Media, MediumGoes(m) PROVE Types'
  BY <1>4 DEF MediumGoes, Types
<1>5. CASE WebappRestarts
  BY <1>5, IdleKnows DEF WebappRestarts, tables, Types
<1> QED
  BY <1>1, <1>2, <1>3, <1>4, <1>5, GoingOnTypes DEF Next

----------------------------------------------------------------------------
(* What steps leave of a row.                                              *)

OneClient == \A b, c \in Clients : b = c

KeepsNets == \A d \in Desktops : desktop'[d] # None => desktop[d] # None /\ desktop'[d].nets = desktop[d].nets
KeepsIsos == \A d \in Desktops : desktop'[d] # None => desktop[d] # None /\ desktop'[d].isos = desktop[d].isos
KeepsFiles == \A d \in Desktops : desktop'[d] # None => desktop[d] # None /\ desktop'[d].file = desktop[d].file
KeepsAll == KeepsNets /\ KeepsIsos /\ KeepsFiles

\* No desktop gets a status that a start gives it.
NoneStarts ==
    \A d \in Desktops : desktop'[d] # None /\ desktop'[d].status \in {"Starting", "Started"}
                            => desktop[d] # None /\ desktop[d].status \in {"Starting", "Started"}

LEMMA NothingWritten == UNCHANGED desktop => KeepsAll /\ NoneStarts
BY DEF KeepsAll, KeepsNets, KeepsIsos, KeepsFiles, NoneStarts

LEMMA OneWritten ==
    ASSUME Types, NEW d \in Desktops, desktop[d] # None, NEW new, desktop' = [desktop EXCEPT ![d] = new]
    PROVE  /\ (new # None => new.nets = desktop[d].nets) => KeepsNets
           /\ (new # None => new.isos = desktop[d].isos) => KeepsIsos
           /\ (new # None => new.file = desktop[d].file) => KeepsFiles
           /\ desktop'[d] = new
<1>1. desktop'[d] = new /\ \A e \in Desktops : e # d => desktop'[e] = desktop[e]
  BY DEF Types
<1> QED
  BY <1>1 DEF KeepsNets, KeepsIsos, KeepsFiles

LEMMA OthersKeep ==
    ASSUME Assumption, Types, NEW d \in Desktops,
           Engine(d) \/ Starts(d) \/ ShutsDown(d) \/ DeletesDesktop(d) \/ GuestOff(d)
    PROVE  KeepsAll /\ UNCHANGED <<medium, net, client>>
<1>1. desktop[d] # None /\ UNCHANGED <<medium, net, client>>
  BY OthersWrite
<1>2. PICK new : Put(d, new) /\ Plainly(d, new)
  BY OthersWrite
<1> QED
  BY <1>1, <1>2, OneWritten DEF Put, Plainly, KeepsAll

\* The statuses that requests write, and the media they take out.
LEMMA StatusesKeep ==
    ASSUME Assumption, Types, NEW c \in Clients,
           (\E e \in client[c].todo : SaysStopped(c, e)) \/ AsksDesktop(c)
    PROVE  KeepsAll /\ NoneStarts
<1>1. client[c] \in Client /\ Knows(client[c])
  BY DEF Types, KnowingClient
<1>2. ASSUME NEW d \in Desktops, desktop[d] # None, NEW status \in {"Stopped", "Stopping", "Updating"},
             desktop' = [desktop EXCEPT ![d] = WithStatus(desktop[d], status)]
      PROVE  KeepsAll /\ NoneStarts
  <2>1. PICK new : new = WithStatus(desktop[d], status)
    OBVIOUS
  <2> status \in Statuses
    BY DEF Statuses
  <2>2. new.nets = desktop[d].nets /\ new.isos = desktop[d].isos /\ new.file = desktop[d].file
        /\ new.status = status
    BY <1>2, <2>1, RowStays
  <2>3. desktop' = [desktop EXCEPT ![d] = new]
    BY <1>2, <2>1
  <2>4. desktop'[d] = new /\ \A e \in Desktops : e # d => desktop'[e] = desktop[e]
    BY <2>3 DEF Types
  <2>5. NoneStarts
    BY <1>2, <2>2, <2>4 DEF NoneStarts
  <2> QED
    BY <1>2, <2>2, <2>3, <2>5, OneWritten DEF KeepsAll
<1>3. ASSUME NEW e \in client[c].todo, SaysStopped(c, e) PROVE KeepsAll /\ NoneStarts
  <2>1. e.id \in Desktops
    BY <1>1 DEF Client, Listed
  <2>2. CASE UNCHANGED desktop
    BY <2>2, NothingWritten
  <2>3. CASE desktop[e.id] # None /\ Put(e.id, WithStatus(desktop[e.id], "Stopped"))
    BY <1>2, <2>1, <2>3 DEF Put
  <2> QED
    BY <1>3, <2>2, <2>3 DEF SaysStopped, Update
<1>4. CASE AsksDesktop(c)
  <2>1. client[c].now.id \in Desktops
    BY <1>1, <1>4 DEF AsksDesktop, Knows, Listed
  <2>2. PICK d \in Desktops : d = client[c].now.id
    BY <2>1
  <2>3. PICK status \in {"Stopping", "Updating"} :
            desktop' = IF desktop[d] = None THEN desktop ELSE [desktop EXCEPT ![d] = WithStatus(desktop[d], status)]
    BY <1>4, <2>2 DEF AsksDesktop
  <2> QED
    BY <1>2, <2>3, NothingWritten
<1> QED
  BY <1>3, <1>4

LEMMA MediumOutKeeps ==
    ASSUME Assumption, Types, NEW c \in Clients, TakesMediumOut(c)
    PROVE  /\ KeepsNets /\ KeepsFiles
           /\ \E d \in Desktops :
                /\ d = client[c].now.id
                /\ \/ UNCHANGED desktop /\ desktop[d] = None
                   \/ \E new : /\ desktop[d] # None /\ desktop' = [desktop EXCEPT ![d] = new]
                               /\ new.isos = client[c].now.isos \ {client[c].of} /\ new.status = "Updating"
<1>1. client[c].now.id \in Desktops /\ client[c].now.isos \subseteq Media
  BY DEF Types, KnowingClient, TakesMediumOut, Knows, Listed
<1>2. PICK d \in Desktops : d = client[c].now.id
  BY <1>1
<1>3. CASE desktop[d] = None
  BY <1>2, <1>3, NothingWritten DEF TakesMediumOut, Update, KeepsAll
<1>4. CASE desktop[d] # None
  <2> DEFINE new == [WithStatus(desktop[d], "Updating") EXCEPT !.isos = client[c].now.isos \ {client[c].of}]
  <2>1. desktop' = [desktop EXCEPT ![d] = new]
    BY <1>2, <1>4 DEF TakesMediumOut, Update, Put
  <2>2. "Updating" \in Statuses
    BY DEF Statuses
  <2>3. WithStatus(desktop[d], "Updating") \in Row /\ WithStatus(desktop[d], "Updating").status = "Updating"
        /\ WithStatus(desktop[d], "Updating").nets = desktop[d].nets
        /\ WithStatus(desktop[d], "Updating").file = desktop[d].file
    BY <1>4, <2>2, RowStays
  <2>4. new.nets = desktop[d].nets /\ new.file = desktop[d].file /\ new.status = "Updating"
        /\ new.isos = client[c].now.isos \ {client[c].of}
    BY <2>3 DEF Row
  <2> HIDE DEF new
  <2> QED
    BY <1>2, <1>4, <2>1, <2>4, OneWritten
<1> QED
  BY <1>3, <1>4

----------------------------------------------------------------------------
(* Interfaces: a form is made of those there are, and the deletion of one  *)
(* knows every desktop that still has it.                                  *)

Removing == {"net", "stopping", "updating"}

NetsClient(c) ==
    /\ client[c].pc = "update" => client[c].form.nets \subseteq net
    /\ client[c].pc \in Removing =>
        /\ \A d \in Desktops : desktop[d] # None /\ client[c].of \in desktop[d].nets
                                                            => \E e \in client[c].todo : e.id = d
        /\ \A e \in client[c].todo : e.nets \subseteq net

NetsInv == Types /\ InterfaceGoneIsUnused /\ \A c \in Clients : NetsClient(c)

LEMMA NetsInit == Assumption /\ Init => NetsInv
<1> SUFFICES ASSUME Assumption, Init PROVE NetsInv
  OBVIOUS
<1>1. \A c \in Clients : client[c].pc = "idle"
  BY IdleKnows DEF Init
<1>2. InterfaceGoneIsUnused
  BY DEF Init, InterfaceGoneIsUnused
<1> QED
  BY <1>1, <1>2, TypesInit DEF NetsInv, NetsClient, Removing

\* Steps that put no interface into a desktop.
LEMMA NetsKept ==
    ASSUME NetsInv, Types', UNCHANGED net,
           \A d \in Desktops : desktop'[d] # None =>
                \/ desktop'[d].nets = {}
                \/ desktop[d] # None /\ desktop'[d].nets = desktop[d].nets,
           \A c \in Clients :
                \/ client'[c].pc \notin Removing \cup {"update"}
                \/ client'[c] = client[c]
                \/ /\ client[c].pc \in Removing /\ client'[c].pc \in Removing
                   /\ client'[c].todo = client[c].todo /\ client'[c].of = client[c].of
    PROVE  NetsInv'
<1>1. InterfaceGoneIsUnused'
  BY DEF NetsInv, InterfaceGoneIsUnused
<1>2. ASSUME NEW c \in Clients PROVE NetsClient(c)'
  <2>1. CASE client'[c].pc \notin Removing \cup {"update"}
    BY <2>1 DEF NetsClient
  <2>2. CASE client'[c] = client[c]
    BY <2>2 DEF NetsInv, NetsClient
  <2>3. CASE /\ client[c].pc \in Removing /\ client'[c].pc \in Removing
             /\ client'[c].todo = client[c].todo /\ client'[c].of = client[c].of
    BY <2>3 DEF NetsInv, NetsClient, Removing
  <2> QED
    BY <2>1, <2>2, <2>3
<1> QED
  BY <1>1, <1>2 DEF NetsInv

LEMMA NetsGoOn ==
    ASSUME Assumption, OneClient, NetsInv, NEW c \in Clients, RequestGoesOn(c)
    PROVE  NetsInv'
<1>1. Types /\ Types' /\ client[c] \in Client /\ Knows(client[c])
  BY GoingOnTypes DEF NetsInv, Types, KnowingClient
<1>2. NetsClient(c)
  BY DEF NetsInv
<1>3. Idle.pc = "idle" /\ "idle" \notin Removing \cup {"update"}
  BY IdleKnows DEF Removing
<1>4. \A b \in Clients : b = c
  BY DEF OneClient
<1>5. ASSUME KeepsNets, UNCHANGED net,
             \/ client'[c].pc \notin Removing \cup {"update"}
             \/ /\ client[c].pc \in Removing /\ client'[c].pc \in Removing
                /\ client'[c].todo = client[c].todo /\ client'[c].of = client[c].of
      PROVE  NetsInv'
  BY <1>1, <1>4, <1>5, NetsKept DEF KeepsNets
<1>6. ASSUME \/ \E ok : Answers(c, ok)
             \/ Dies(c)
      PROVE  client'[c].pc \notin Removing \cup {"update"}
  BY <1>1, <1>3, <1>6 DEF Answers, Dies, Types
<1>7. ASSUME NEW r, Goes(c, r) PROVE client'[c] = r
  BY <1>1, <1>7 DEF Goes, Types
<1>8. CASE Updates(c)
  <2>1. client'[c].pc \notin Removing \cup {"update"} /\ UNCHANGED net
    BY <1>6, <1>8 DEF Updates
  <2>2. CASE UNCHANGED desktop
    BY <1>5, <2>1, <2>2, NothingWritten DEF KeepsAll
  <2>3. CASE ~UNCHANGED desktop
    <3>1. PICK d : d = client[c].id
      OBVIOUS
    <3>2. d \in Desktops /\ client[c].form \in Form /\ client[c].form.nets \subseteq net
      BY <1>1, <1>2, <1>8, <3>1 DEF Updates, Knows, Client, NetsClient
    <3>3. PICK form : form = client[c].form
      OBVIOUS
    <3>4. desktop[d] # None
          /\ desktop' = [desktop EXCEPT ![d] = [WithStatus(desktop[d], "Updating")
                            EXCEPT !.cpus = form.cpus, !.nets = form.nets, !.isos = form.isos]]
      BY <1>8, <2>3, <3>1, <3>3 DEF Updates, Put
    <3>5. WithStatus(desktop[d], "Updating") \in Row
      BY <1>1, <3>2, <3>4, RowStays DEF Statuses
    <3>6. desktop'[d].nets = form.nets /\ \A e \in Desktops : e # d => desktop'[e] = desktop[e]
      BY <1>1, <3>2, <3>4, <3>5 DEF Types, Row
    <3>7. InterfaceGoneIsUnused'
      BY <2>1, <3>2, <3>3, <3>6 DEF NetsInv, InterfaceGoneIsUnused
    <3> QED
      BY <1>1, <1>4, <2>1, <3>7 DEF NetsInv, NetsClient
  <2> QED
    BY <2>2, <2>3
<1>9. CASE ListsMedia(c)
  <2>1. PICK T : Goes(c, [client[c] EXCEPT !.pc = "medium", !.todo = T]) /\ UNCHANGED <<desktop, net>>
    BY <1>9 DEF ListsMedia, tables
  <2>2. client'[c].pc = "medium"
    BY <1>1, <1>7, <2>1 DEF Client
  <2> QED
    BY <1>5, <2>1, <2>2, NothingWritten DEF KeepsAll, Removing
<1>10. ASSUME NEW e \in client[c].todo, SaysStopped(c, e) PROVE NetsInv'
  <2>1. client'[c].pc \in {"medium", "stopped"} /\ UNCHANGED net
    <3>1. [client[c] EXCEPT !.todo = @ \ {e}].pc = "medium"
          /\ [client[c] EXCEPT !.pc = "stopped", !.now = e, !.todo = @ \ {e}].pc = "stopped"
      BY <1>1, <1>10 DEF SaysStopped, Client
    <3> QED
      BY <1>7, <1>10, <3>1 DEF SaysStopped
  <2> QED
    BY <1>1, <1>5, <1>10, <2>1, StatusesKeep DEF KeepsAll, Removing
<1>11. CASE TakesMediumOut(c)
  <2>1. client'[c].pc = "medium" /\ UNCHANGED net
    <3>1. [client[c] EXCEPT !.pc = "medium", !.now = None].pc = "medium"
      BY <1>1 DEF Client
    <3> QED
      BY <1>7, <1>11, <3>1 DEF TakesMediumOut
  <2> QED
    BY <1>1, <1>5, <1>11, <2>1, MediumOutKeeps DEF Removing
<1>12. CASE MarksMedium(c) \/ TakesMedium(c) \/ TimesOut(c)
  BY <1>5, <1>6, <1>12, NothingWritten DEF MarksMedium, TakesMedium, TimesOut, tables, KeepsAll
<1>13. CASE ListsNets(c)
  <2> DEFINE T == {ListOf(d) : d \in {e \in Desktops : desktop[e] # None /\ client[c].of \in desktop[e].nets}}
  <2>1. Goes(c, [client[c] EXCEPT !.pc = "net", !.todo = T]) /\ UNCHANGED <<desktop, net>>
    BY <1>13 DEF ListsNets, tables
  <2>2. client'[c] = [client[c] EXCEPT !.pc = "net", !.todo = T]
    BY <1>7, <2>1
  <2>3. client'[c].pc = "net" /\ client'[c].todo = T /\ client'[c].of = client[c].of
    <3> HIDE DEF T
    <3> QED
      BY <1>1, <2>2 DEF Client
  <2>4. \A d \in Desktops : desktop[d] # None /\ client[c].of \in desktop[d].nets => \E e \in T : e.id = d
    <3> SUFFICES ASSUME NEW d \in Desktops, desktop[d] # None, client[c].of \in desktop[d].nets
                 PROVE  \E e \in T : e.id = d
      OBVIOUS
    <3>1. ListOf(d) \in T
      OBVIOUS
    <3>2. ListOf(d).id = d
      BY DEF ListOf
    <3> QED
      BY <3>1, <3>2
  <2>5. \A e \in T : e.nets \subseteq net
    BY DEF ListOf, NetsInv, InterfaceGoneIsUnused
  <2> HIDE DEF T
  <2>6. NetsClient(c)'
    BY <2>1, <2>3, <2>4, <2>5 DEF NetsClient
  <2>7. InterfaceGoneIsUnused'
    BY <2>1 DEF NetsInv, InterfaceGoneIsUnused
  <2> QED
    BY <1>1, <1>4, <2>6, <2>7 DEF NetsInv
<1>14. ASSUME NEW e \in client[c].todo, TakesNetOut(c, e) PROVE NetsInv'
  <2>1. e \in Listed /\ e.id \in Desktops
    BY <1>1 DEF Client, Listed
  <2>2. PICK p \in Removing : client'[c] = [client[c] EXCEPT !.pc = p, !.now = e, !.asked = FALSE, !.todo = @ \ {e}]
    BY <1>7, <1>14 DEF TakesNetOut, Removing
  <2>3. client'[c].pc \in Removing /\ client'[c].todo = client[c].todo \ {e} /\ client'[c].of = client[c].of
    BY <1>1, <2>2 DEF Client
  <2>4. UNCHANGED net /\ client[c].pc \in Removing
    BY <1>14 DEF TakesNetOut, Removing
  <2>5. e.nets \subseteq net /\ \A d \in Desktops : desktop[d] # None /\ client[c].of \in desktop[d].nets
                                                            => \E f \in client[c].todo : f.id = d
    BY <1>2, <2>4 DEF NetsClient
  <2>6. /\ \A d \in Desktops : d # e.id => desktop'[d] = desktop[d]
        /\ desktop'[e.id] = None \/ desktop'[e.id].nets = e.nets \ {client[c].of}
    <3>1. CASE desktop[e.id] = None
      BY <1>14, <3>1 DEF TakesNetOut, Update
    <3>2. CASE desktop[e.id] # None
      <4>1. desktop[e.id] \in Row
        BY <1>1, <2>1, <3>2 DEF Types
      <4>2. [desktop[e.id] EXCEPT !.nets = e.nets \ {client[c].of}].nets = e.nets \ {client[c].of}
        BY <4>1 DEF Row
      <4>3. desktop' = [desktop EXCEPT ![e.id] = [desktop[e.id] EXCEPT !.nets = e.nets \ {client[c].of}]]
        BY <1>14, <3>2 DEF TakesNetOut, Update, Put
      <4> QED
        BY <1>1, <2>1, <4>2, <4>3 DEF Types
    <3> QED
      BY <3>1, <3>2
  <2>7. InterfaceGoneIsUnused'
    BY <2>4, <2>5, <2>6 DEF NetsInv, InterfaceGoneIsUnused
  <2>8. \A d \in Desktops : desktop'[d] # None /\ client[c].of \in desktop'[d].nets
                                                            => \E f \in client[c].todo \ {e} : f.id = d
    BY <2>5, <2>6
  <2>9. NetsClient(c)'
    BY <1>2, <2>3, <2>4, <2>8 DEF NetsClient, Removing
  <2> QED
    BY <1>1, <1>4, <2>7, <2>9 DEF NetsInv
<1>15. CASE AsksDesktop(c)
  <2>1. client'[c] = [client[c] EXCEPT !.asked = TRUE] /\ UNCHANGED net /\ client[c].pc \in Removing
    BY <1>7, <1>15 DEF AsksDesktop, Removing
  <2>2. client'[c].pc \in Removing /\ client'[c].todo = client[c].todo /\ client'[c].of = client[c].of
    BY <1>1, <2>1 DEF Client
  <2> QED
    BY <1>1, <1>5, <1>15, <2>1, <2>2, StatusesKeep DEF KeepsAll
<1>16. CASE SeesIt(c)
  <2>1. client[c].pc \in Removing /\ UNCHANGED <<desktop, net>>
    BY <1>16 DEF SeesIt, Removing, tables
  <2>2. \/ client'[c] = [client[c] EXCEPT !.pc = "updating", !.asked = FALSE]
        \/ client'[c] = [client[c] EXCEPT !.pc = "net", !.now = None]
    BY <1>7, <1>16 DEF SeesIt
  <2>3. client'[c].pc \in Removing /\ client'[c].todo = client[c].todo /\ client'[c].of = client[c].of
    BY <1>1, <2>2 DEF Client, Removing
  <2> QED
    BY <1>5, <2>1, <2>3, NothingWritten DEF KeepsAll
<1>17. CASE RemovesNet(c)
  <2>1. client[c].pc \in Removing /\ client[c].todo = {} /\ UNCHANGED desktop /\ net' = net \ {client[c].of}
    BY <1>17 DEF RemovesNet, Removing
  <2>2. \A d \in Desktops : desktop[d] # None => client[c].of \notin desktop[d].nets
    BY <1>2, <2>1 DEF NetsClient
  <2>3. InterfaceGoneIsUnused'
    BY <2>1, <2>2 DEF NetsInv, InterfaceGoneIsUnused
  <2>4. NetsClient(c)'
    BY <1>6, <1>17 DEF RemovesNet, NetsClient
  <2> QED
    BY <1>1, <1>4, <2>3, <2>4 DEF NetsInv
<1>18. CASE InsertsDesktop(c)
  <2>1. PICK d : d = client[c].id
    OBVIOUS
  <2>2. d \in Desktops /\ UNCHANGED net
    BY <1>1, <1>18, <2>1 DEF InsertsDesktop, Knows
  <2>3. client'[c].pc \notin Removing \cup {"update"}
    <3>1. [client[c] EXCEPT !.pc = "take"].pc = "take"
      BY <1>1 DEF Client
    <3> QED
      BY <1>6, <1>7, <1>18, <3>1 DEF InsertsDesktop, Removing
  <2>4. \A e \in Desktops : desktop'[e] # None =>
            \/ desktop'[e].nets = {}
            \/ desktop[e] # None /\ desktop'[e].nets = desktop[e].nets
    <3>1. CASE UNCHANGED desktop
      BY <3>1
    <3>2. CASE ~UNCHANGED desktop
      <4>1. PICK isos, file : desktop' = [desktop EXCEPT ![d] =
                [status |-> "CreatingDiskFromScratch", followed |-> TRUE, cpus |-> 0, nets |-> {}, isos |-> isos,
                 xml |-> {}, file |-> file]]
        BY <1>18, <2>1, <3>2 DEF InsertsDesktop, Put
      <4> QED
        BY <1>1, <2>2, <4>1 DEF Types
    <3> QED
      BY <3>1, <3>2
  <2> QED
    BY <1>1, <1>4, <2>2, <2>3, <2>4, NetsKept
<1> QED
  BY <1>8, <1>9, <1>10, <1>11, <1>12, <1>13, <1>14, <1>15, <1>16, <1>17, <1>18 DEF RequestGoesOn

LEMMA NetsBegin ==
    ASSUME Assumption, OneClient, NetsInv, NEW c \in Clients, RequestBegins(c)
    PROVE  NetsInv'
<1>1. Types /\ Types' /\ Idle \in Client
  BY BeginningTypes, IdleKnows DEF NetsInv, Types, KnowingClient
<1>2. \A b \in Clients : b = c
  BY DEF OneClient
<1>3. UNCHANGED <<desktop, net>>
  BY <1>1, BeginningTypes
<1>4. ASSUME NEW op, NEW r, Begins(c, op, r) PROVE client'[c] = [r EXCEPT !.op = op]
  BY <1>1, <1>4 DEF Begins, Types
<1>5. ASSUME NetsClient(c)' PROVE NetsInv'
  <2>1. InterfaceGoneIsUnused'
    BY <1>3 DEF NetsInv, InterfaceGoneIsUnused
  <2> QED
    BY <1>1, <1>2, <1>5, <2>1 DEF NetsInv
<1>6. ASSUME NEW d \in Desktops, NEW form \in Form, NEW op \in Edits, EditBegins(c, d, op, form) PROVE NetsInv'
  <2>1. Limited(op, form).nets \subseteq net
    BY <1>6 DEF EditBegins, Limited, Form
  <2>2. client'[c] = [[Idle EXCEPT !.pc = "update", !.id = d, !.form = Limited(op, form)] EXCEPT !.op = op]
    BY <1>4, <1>6 DEF EditBegins
  <2>3. client'[c].pc = "update" /\ client'[c].form = Limited(op, form)
    BY <1>1, <2>2 DEF Client
  <2> QED
    BY <1>3, <1>5, <2>1, <2>3 DEF NetsClient, Removing
<1>7. ASSUME NEW m \in Media, MediaDeleteBegins(c, m) PROVE NetsInv'
  <2>1. client'[c] = [[Idle EXCEPT !.pc = "media", !.of = m] EXCEPT !.op = "media_delete"]
    BY <1>4, <1>7 DEF MediaDeleteBegins
  <2>2. client'[c].pc = "media"
    BY <1>1, <2>1 DEF Client
  <2> QED
    BY <1>5, <2>2 DEF NetsClient, Removing
<1>8. ASSUME NEW n \in Nets, InterfaceDeleteBegins(c, n) PROVE NetsInv'
  <2>1. client'[c] = [[Idle EXCEPT !.pc = "nets", !.of = n] EXCEPT !.op = "interface_delete"]
    BY <1>4, <1>8 DEF InterfaceDeleteBegins
  <2>2. client'[c].pc = "nets"
    BY <1>1, <2>1 DEF Client
  <2> QED
    BY <1>5, <2>2 DEF NetsClient, Removing
<1>9. ASSUME NEW d \in Desktops, NEW m \in Media, NEW op \in Requests, MediaAddBegins(c, d, m, op) PROVE NetsInv'
  <2>1. client'[c] = [[Idle EXCEPT !.pc = "insert", !.id = d, !.of = m] EXCEPT !.op = op]
    BY <1>4, <1>9 DEF MediaAddBegins
  <2>2. client'[c].pc = "insert"
    BY <1>1, <2>1 DEF Client
  <2> QED
    BY <1>5, <2>2 DEF NetsClient, Removing
<1> QED
  BY <1>6, <1>7, <1>8, <1>9 DEF RequestBegins

LEMMA NetsStep == Assumption /\ OneClient /\ NetsInv /\ [Next]_vars => NetsInv'
<1> SUFFICES ASSUME Assumption, OneClient, NetsInv, [Next]_vars PROVE NetsInv'
  OBVIOUS
<1>1. Types /\ Types'
  BY TypesStep DEF NetsInv
<1>2. CASE UNCHANGED vars
  BY <1>1, <1>2, NetsKept DEF vars
<1>3. ASSUME NEW d \in Desktops,
             Engine(d) \/ Starts(d) \/ ShutsDown(d) \/ DeletesDesktop(d) \/ GuestOff(d)
      PROVE  NetsInv'
  <2>1. KeepsNets /\ UNCHANGED <<net, client>>
    BY <1>1, <1>3, OthersKeep DEF KeepsAll
  <2> QED
    BY <1>1, <2>1, NetsKept DEF KeepsNets
<1>4. ASSUME NEW m \in Media, MediumGoes(m) PROVE NetsInv'
  BY <1>1, <1>4, NetsKept DEF MediumGoes
<1>5. CASE WebappRestarts
  <2>1. UNCHANGED <<desktop, net>> /\ \A c \in Clients : client'[c].pc \notin Removing \cup {"update"}
    BY <1>5, IdleKnows DEF WebappRestarts, tables, Removing
  <2> QED
    BY <1>1, <2>1, NetsKept
<1> QED
  BY <1>2, <1>3, <1>4, <1>5, NetsGoOn, NetsBegin DEF Next

----------------------------------------------------------------------------
(* Media: while nothing is started, a medium that is to be deleted is in   *)
(* no desktop.                                                             *)

There(isos) == \A m \in isos : medium[m] = "Downloaded"

MediaClient(c) ==
    /\ client[c].pc # "take" /\ client[c].op # "domain_from_disk"
    /\ client[c].pc = "update" => There(client[c].form.isos)
    /\ client[c].pc = "insert" => medium[client[c].of] = "Downloaded"
    /\ client[c].pc = "stopped" => There(client[c].now.isos)
    /\ client[c].pc \in {"medium", "stopped"} =>
        /\ \A e \in client[c].todo : e.status # "Started" /\ There(e.isos)
        /\ \A d \in Desktops : desktop[d] # None /\ client[c].of \in desktop[d].isos =>
             (\E e \in client[c].todo : e.id = d) \/ (client[c].pc = "stopped" /\ client[c].now.id = d)

MediaInv ==
    /\ Types
    /\ \A d \in Desktops : desktop[d] # None =>
            desktop[d].status \notin {"Starting", "Started"} /\ There(desktop[d].isos)
    /\ \A c \in Clients : MediaClient(c)

NothingStarts == "start" \notin Ops /\ "domain_from_disk" \notin Ops

LEMMA MediaInit == Assumption /\ Init => MediaInv
<1> SUFFICES ASSUME Assumption, Init PROVE MediaInv
  OBVIOUS
<1>1. \A c \in Clients : client[c].pc = "idle" /\ client[c].op = None
  BY IdleKnows DEF Init
<1>2. None # "domain_from_disk"
  BY DEF Assumption, AllOps, Requests
<1>3. \A d \in Desktops : desktop[d] # None => desktop[d].status = "Stopped" /\ desktop[d].isos \subseteq Media
  BY DEF Init
<1>4. \A c \in Clients : MediaClient(c)
  BY <1>1, <1>2 DEF MediaClient
<1> QED
  BY <1>3, <1>4, TypesInit DEF MediaInv, There, Init

LEMMA OthersStart ==
    ASSUME Assumption, Types, "start" \notin Ops, NEW d \in Desktops,
           Engine(d) \/ Starts(d) \/ ShutsDown(d) \/ DeletesDesktop(d) \/ GuestOff(d)
    PROVE  NoneStarts
<1>1. desktop[d] # None /\ desktop[d] \in Row
  BY OthersWrite DEF Types
<1>2. ASSUME NEW new, Put(d, new), new = None \/ new.status \notin {"Starting", "Started"}
      PROVE  NoneStarts
  BY <1>2 DEF Put, NoneStarts, Types
<1>3. ASSUME NEW status \in Statuses \ {"Starting", "Started"}, Becomes(d, status) PROVE NoneStarts
  <2>1. [desktop[d] EXCEPT !.status = status, !.followed = FALSE].status = status
    BY <1>1 DEF Row
  <2> QED
    BY <1>2, <1>3, <2>1 DEF Becomes
<1>4. ASSUME NEW status \in Statuses \ {"Starting", "Started"}, Put(d, WithStatus(desktop[d], status)) PROVE NoneStarts
  <2>1. WithStatus(desktop[d], status).status = status
    BY <1>1, RowStays
  <2> QED
    BY <1>2, <1>4, <2>1
<1>5. {"Stopped", "Failed", "Shutting-down", "Deleting"} \subseteq Statuses \ {"Starting", "Started"}
  BY DEF Statuses
<1>6. CASE Engine(d)
  <2>1. ASSUME XmlIsMade(d) PROVE NoneStarts
    <3>1. [desktop[d] EXCEPT !.status = "Stopped", !.followed = FALSE, !.xml = desktop[d].nets].status = "Stopped"
      BY <1>1 DEF Row
    <3> QED
      BY <1>2, <1>3, <1>5, <2>1, <3>1 DEF XmlIsMade
  <2>2. CASE desktop[d].status = "Starting"
    <3>1. ASSUME NEW new, Put(d, new) PROVE NoneStarts
      BY <1>1, <2>2, <3>1 DEF Put, NoneStarts, Types
    <3> QED
      BY <1>6, <2>2, <3>1 DEF Engine, Becomes
  <2>3. CASE desktop[d].status # "Starting"
    BY <1>2, <1>3, <1>5, <1>6, <2>1, <2>3 DEF Engine
  <2> QED
    BY <2>2, <2>3
<1>7. CASE Starts(d) \/ ShutsDown(d) \/ DeletesDesktop(d)
  <2>1. PICK status \in {"Shutting-down", "Deleting"} : Put(d, WithStatus(desktop[d], status))
    BY <1>7 DEF Starts, ShutsDown, DeletesDesktop, UserAsks, Does
  <2>2. status \in Statuses \ {"Starting", "Started"}
    BY <1>5
  <2> QED
    BY <1>4, <2>1, <2>2
<1>8. CASE GuestOff(d)
  BY <1>3, <1>5, <1>8 DEF GuestOff
<1> QED
  BY <1>6, <1>7, <1>8

\* Steps that put no medium into a desktop and mark none.
LEMMA MediaKept ==
    ASSUME MediaInv, Types', KeepsIsos, NoneStarts,
           \A m \in Media : medium[m] = "Downloaded" => medium'[m] = "Downloaded",
           \A c \in Clients :
                \/ /\ client'[c].pc \notin {"take", "update", "insert", "stopped", "medium"}
                   /\ client'[c].op # "domain_from_disk"
                \/ client'[c] = client[c]
    PROVE  MediaInv'
<1>1. \A d \in Desktops : desktop'[d] # None => desktop'[d].isos \subseteq Media
  BY DEF Types, Row
<1>2. \A d \in Desktops : desktop'[d] # None =>
            desktop'[d].status \notin {"Starting", "Started"} /\ There(desktop[d].isos)'
  <2> SUFFICES ASSUME NEW d \in Desktops, desktop'[d] # None
               PROVE  /\ desktop'[d].status \notin {"Starting", "Started"}
                      /\ \A m \in desktop'[d].isos : medium'[m] = "Downloaded"
    BY DEF There
  <2>1. /\ desktop[d] # None /\ desktop'[d].isos = desktop[d].isos
        /\ desktop'[d].status \in {"Starting", "Started"} => desktop[d].status \in {"Starting", "Started"}
    BY DEF KeepsIsos, NoneStarts
  <2>2. desktop[d].status \notin {"Starting", "Started"} /\ \A m \in desktop[d].isos : medium[m] = "Downloaded"
    BY <2>1 DEF MediaInv, There
  <2> QED
    BY <1>1, <2>1, <2>2
<1>3. ASSUME NEW c \in Clients PROVE MediaClient(c)'
  <2>1. CASE /\ client'[c].pc \notin {"take", "update", "insert", "stopped", "medium"}
             /\ client'[c].op # "domain_from_disk"
    BY <2>1 DEF MediaClient
  <2>2. CASE client'[c] = client[c]
    <3>1. client[c] \in Client /\ Knows(client[c]) /\ MediaClient(c)
      BY DEF MediaInv, Types, KnowingClient
    <3>2. /\ client[c].form.isos \subseteq Media
          /\ client[c].pc = "insert" => client[c].of \in Media
          /\ client[c].pc = "stopped" => client[c].now.isos \subseteq Media
          /\ \A e \in client[c].todo : e.isos \subseteq Media
      BY <3>1 DEF Client, Form, Listed, Knows
    <3>3. /\ client'[c].pc = "update" => There(client[c].form.isos)'
          /\ client'[c].pc = "insert" => medium'[client[c].of] = "Downloaded"
          /\ client'[c].pc = "stopped" => There(client[c].now.isos)'
      BY <2>2, <3>1, <3>2 DEF MediaClient, There
    <3>4. client[c].pc \in {"medium", "stopped"} => \A e \in client[c].todo : e.status # "Started" /\ There(e.isos)'
      BY <2>2, <3>1, <3>2 DEF MediaClient, There
    <3>5. client[c].pc \in {"medium", "stopped"} =>
            \A d \in Desktops : desktop'[d] # None /\ client[c].of \in desktop'[d].isos =>
             (\E e \in client[c].todo : e.id = d) \/ (client[c].pc = "stopped" /\ client[c].now.id = d)
      BY <3>1 DEF MediaClient, KeepsIsos
    <3> QED
      BY <2>2, <3>1, <3>3, <3>4, <3>5 DEF MediaClient, There
  <2> QED
    BY <2>1, <2>2
<1> QED
  BY <1>2, <1>3 DEF MediaInv, There

LEMMA NetOutKeeps ==
    ASSUME Assumption, Types, NEW c \in Clients, NEW e \in client[c].todo, TakesNetOut(c, e)
    PROVE  KeepsIsos /\ KeepsFiles /\ NoneStarts
<1>1. e.id \in Desktops
  BY DEF Types, KnowingClient, Client, Listed
<1>2. CASE desktop[e.id] = None
  BY <1>2, NothingWritten DEF TakesNetOut, Update, KeepsAll
<1>3. CASE desktop[e.id] # None
  <2>1. desktop[e.id] \in Row
    BY <1>1, <1>3 DEF Types
  <2>2. PICK new : new = [desktop[e.id] EXCEPT !.nets = e.nets \ {client[c].of}]
    OBVIOUS
  <2>3. new.isos = desktop[e.id].isos /\ new.file = desktop[e.id].file /\ new.status = desktop[e.id].status
    BY <2>1, <2>2 DEF Row
  <2>4. desktop' = [desktop EXCEPT ![e.id] = new]
    BY <1>3, <2>2 DEF TakesNetOut, Update, Put
  <2>5. desktop'[e.id] = new /\ \A d \in Desktops : d # e.id => desktop'[d] = desktop[d]
    BY <1>1, <2>4 DEF Types
  <2>6. NoneStarts
    BY <1>3, <2>3, <2>5 DEF NoneStarts
  <2> QED
    BY <1>1, <1>3, <2>3, <2>4, <2>6, OneWritten
<1> QED
  BY <1>2, <1>3

LEMMA MediaGoOn ==
    ASSUME Assumption, OneClient, MediaInv, NEW c \in Clients, RequestGoesOn(c)
    PROVE  MediaInv'
<1>1. Types /\ Types' /\ client[c] \in Client /\ Knows(client[c])
  BY GoingOnTypes DEF MediaInv, Types, KnowingClient
<1>2. MediaClient(c) /\ \A d \in Desktops : desktop[d] # None =>
            desktop[d].status \notin {"Starting", "Started"} /\ There(desktop[d].isos)
  BY DEF MediaInv
<1>3. Idle.pc = "idle" /\ Idle.op # "domain_from_disk"
  BY IdleKnows DEF Assumption, AllOps, Requests
<1>4. \A b \in Clients : b = c
  BY DEF OneClient
<1> DEFINE Quiet == /\ client'[c].pc \notin {"take", "update", "insert", "stopped", "medium"}
                    /\ client'[c].op # "domain_from_disk"
<1>5. ASSUME KeepsIsos, NoneStarts, UNCHANGED medium, Quiet PROVE MediaInv'
  BY <1>1, <1>4, <1>5, MediaKept
<1>6. ASSUME \/ \E ok : Answers(c, ok)
             \/ Dies(c)
      PROVE  client'[c] = Idle /\ Quiet
  BY <1>1, <1>3, <1>6 DEF Answers, Dies, Types
<1>7. ASSUME NEW r, Goes(c, r) PROVE client'[c] = r
  BY <1>1, <1>7 DEF Goes, Types
<1>8. CASE Updates(c)
  <2>1. client'[c] = Idle /\ Quiet /\ UNCHANGED medium
    BY <1>6, <1>8 DEF Updates
  <2>2. CASE UNCHANGED desktop
    BY <1>5, <2>1, <2>2, NothingWritten DEF KeepsAll
  <2>3. CASE ~UNCHANGED desktop
    <3>1. PICK d, form : d = client[c].id /\ form = client[c].form
      OBVIOUS
    <3>2. d \in Desktops /\ form \in Form /\ There(form.isos)
      BY <1>1, <1>2, <1>8, <3>1 DEF Updates, Knows, Client, MediaClient
    <3>3. desktop[d] # None
          /\ desktop' = [desktop EXCEPT ![d] = [WithStatus(desktop[d], "Updating")
                            EXCEPT !.cpus = form.cpus, !.nets = form.nets, !.isos = form.isos]]
      BY <1>8, <2>3, <3>1 DEF Updates, Put
    <3>4. WithStatus(desktop[d], "Updating") \in Row /\ WithStatus(desktop[d], "Updating").status = "Updating"
      BY <1>1, <3>2, <3>3, RowStays DEF Statuses
    <3>5. desktop'[d].isos = form.isos /\ desktop'[d].status = "Updating"
          /\ \A e \in Desktops : e # d => desktop'[e] = desktop[e]
      BY <1>1, <3>2, <3>3, <3>4 DEF Types, Row
    <3>6. \A e \in Desktops : desktop'[e] # None =>
            desktop'[e].status \notin {"Starting", "Started"} /\ There(desktop[e].isos)'
      BY <1>2, <2>1, <3>2, <3>5 DEF There
    <3>7. MediaClient(c)'
      BY <2>1 DEF MediaClient
    <3> QED
      BY <1>1, <1>4, <3>6, <3>7 DEF MediaInv
  <2> QED
    BY <2>2, <2>3
<1>9. CASE ListsMedia(c)
  <2> DEFINE T == {ListOf(d) : d \in {e \in Desktops : desktop[e] # None /\ client[c].of \in desktop[e].isos}}
  <2>1. Goes(c, [client[c] EXCEPT !.pc = "medium", !.todo = T]) /\ UNCHANGED <<desktop, medium>>
    BY <1>9 DEF ListsMedia, tables
  <2>2. client'[c] = [client[c] EXCEPT !.pc = "medium", !.todo = T]
    BY <1>7, <2>1
  <2>3. client'[c].pc = "medium" /\ client'[c].todo = T /\ client'[c].of = client[c].of
        /\ client'[c].op = client[c].op
    <3> HIDE DEF T
    <3> QED
      BY <1>1, <2>2 DEF Client
  <2>4. \A d \in Desktops : desktop[d] # None /\ client[c].of \in desktop[d].isos => \E e \in T : e.id = d
    <3> SUFFICES ASSUME NEW d \in Desktops, desktop[d] # None, client[c].of \in desktop[d].isos
                 PROVE  \E e \in T : e.id = d
      OBVIOUS
    <3>1. ListOf(d) \in T
      OBVIOUS
    <3>2. ListOf(d).id = d
      BY DEF ListOf
    <3> QED
      BY <3>1, <3>2
  <2>5. \A e \in T : e.status # "Started" /\ There(e.isos)
    BY <1>2 DEF ListOf
  <2> HIDE DEF T
  <2>6. \A e \in T : There(e.isos)'
    BY <2>1, <2>5 DEF There
  <2>7. MediaClient(c)'
    BY <1>2, <2>1, <2>3, <2>4, <2>5, <2>6 DEF MediaClient
  <2>8. \A d \in Desktops : desktop'[d] # None =>
            desktop'[d].status \notin {"Starting", "Started"} /\ There(desktop[d].isos)'
    BY <1>2, <2>1 DEF There
  <2> QED
    BY <1>1, <1>4, <2>7, <2>8 DEF MediaInv
<1>10. ASSUME NEW e \in client[c].todo, SaysStopped(c, e) PROVE MediaInv'
  <2>1. client[c].pc = "medium" /\ e.status # "Started" /\ There(e.isos) /\ UNCHANGED medium
    BY <1>2, <1>10 DEF SaysStopped, MediaClient
  <2>2. client'[c] = [client[c] EXCEPT !.pc = "stopped", !.now = e, !.todo = @ \ {e}]
    BY <1>7, <1>10, <2>1 DEF SaysStopped
  <2>3. client'[c].pc = "stopped" /\ client'[c].now = e /\ client'[c].todo = client[c].todo \ {e}
        /\ client'[c].of = client[c].of /\ client'[c].op = client[c].op
    BY <1>1, <2>2 DEF Client
  <2>4. KeepsIsos /\ NoneStarts
    BY <1>1, <1>10, StatusesKeep DEF KeepsAll
  <2>5. There(e.isos)' /\ \A f \in client[c].todo : f.status # "Started" /\ There(f.isos)'
    BY <1>2, <2>1 DEF MediaClient, There
  <2>6. \A d \in Desktops : desktop'[d] # None /\ client[c].of \in desktop'[d].isos =>
             (\E f \in client[c].todo \ {e} : f.id = d) \/ e.id = d
    BY <1>2, <2>1, <2>4 DEF MediaClient, KeepsIsos
  <2>7. MediaClient(c)'
    BY <1>2, <2>3, <2>5, <2>6 DEF MediaClient
  <2>8. \A d \in Desktops : desktop'[d] # None =>
            desktop'[d].status \notin {"Starting", "Started"} /\ There(desktop[d].isos)'
    BY <1>2, <2>1, <2>4 DEF There, KeepsIsos, NoneStarts
  <2> QED
    BY <1>1, <1>4, <2>7, <2>8 DEF MediaInv
<1>11. CASE TakesMediumOut(c)
  <2>1. client[c].pc = "stopped" /\ UNCHANGED medium
    BY <1>11 DEF TakesMediumOut
  <2>2. client'[c] = [client[c] EXCEPT !.pc = "medium", !.now = None]
    BY <1>7, <1>11 DEF TakesMediumOut
  <2>3. client'[c].pc = "medium" /\ client'[c].todo = client[c].todo
        /\ client'[c].of = client[c].of /\ client'[c].op = client[c].op
    BY <1>1, <2>2 DEF Client
  <2>4. PICK d \in Desktops :
                /\ d = client[c].now.id
                /\ \/ UNCHANGED desktop /\ desktop[d] = None
                   \/ \E new : /\ desktop[d] # None /\ desktop' = [desktop EXCEPT ![d] = new]
                               /\ new.isos = client[c].now.isos \ {client[c].of} /\ new.status = "Updating"
    BY <1>1, <1>11, MediumOutKeeps
  <2>5. /\ \A e \in Desktops : e # d => desktop'[e] = desktop[e]
        /\ desktop'[d] # None => desktop'[d].isos = client[c].now.isos \ {client[c].of} /\ desktop'[d].status = "Updating"
    BY <1>1, <2>4 DEF Types
  <2>6. There(client[c].now.isos) /\ \A e \in client[c].todo : e.status # "Started" /\ There(e.isos)
    BY <1>2, <2>1 DEF MediaClient
  <2>7. \A e \in Desktops : desktop'[e] # None =>
            desktop'[e].status \notin {"Starting", "Started"} /\ There(desktop[e].isos)'
    BY <1>2, <2>1, <2>5, <2>6 DEF There
  <2>8. \A e \in Desktops : desktop'[e] # None /\ client[c].of \in desktop'[e].isos =>
             \E f \in client[c].todo : f.id = e
    BY <1>2, <2>1, <2>4, <2>5 DEF MediaClient
  <2>9. \A e \in client[c].todo : e.status # "Started" /\ There(e.isos)'
    BY <2>1, <2>6 DEF There
  <2>10. MediaClient(c)'
    BY <1>2, <2>3, <2>8, <2>9 DEF MediaClient
  <2> QED
    BY <1>1, <1>4, <2>7, <2>10 DEF MediaInv
<1>12. CASE MarksMedium(c)
  <2>1. client'[c] = Idle /\ Quiet /\ UNCHANGED desktop
    BY <1>6, <1>12 DEF MarksMedium
  <2>2. \A d \in Desktops : desktop[d] # None => client[c].of \notin desktop[d].isos
    BY <1>2, <1>12 DEF MarksMedium, MediaClient
  <2>3. \A m \in Media : m # client[c].of => medium'[m] = medium[m]
    BY <1>1, <1>12 DEF MarksMedium, Types
  <2>4. \A d \in Desktops : desktop[d] # None => desktop[d].isos \subseteq Media
    BY <1>1 DEF Types, Row
  <2>5. \A d \in Desktops : desktop'[d] # None =>
            desktop'[d].status \notin {"Starting", "Started"} /\ There(desktop[d].isos)'
    BY <1>2, <2>1, <2>2, <2>3, <2>4 DEF There
  <2>6. MediaClient(c)'
    BY <2>1 DEF MediaClient
  <2> QED
    BY <1>1, <1>4, <2>5, <2>6 DEF MediaInv
<1>13. CASE TimesOut(c) \/ RemovesNet(c)
  <2>1. Quiet /\ UNCHANGED <<desktop, medium>>
    BY <1>6, <1>13 DEF TimesOut, RemovesNet, tables
  <2> QED
    BY <1>5, <2>1, NothingWritten DEF KeepsAll
<1>14. CASE ListsNets(c)
  <2>1. PICK T : Goes(c, [client[c] EXCEPT !.pc = "net", !.todo = T]) /\ UNCHANGED <<desktop, medium>>
    BY <1>14 DEF ListsNets, tables
  <2>2. client'[c].pc = "net" /\ client'[c].op = client[c].op
    BY <1>1, <1>7, <2>1 DEF Client
  <2> QED
    BY <1>2, <1>5, <2>1, <2>2, NothingWritten DEF KeepsAll, MediaClient
<1>15. ASSUME NEW e \in client[c].todo, TakesNetOut(c, e) PROVE MediaInv'
  <2>1. PICK p \in Removing : client'[c] = [client[c] EXCEPT !.pc = p, !.now = e, !.asked = FALSE, !.todo = @ \ {e}]
    BY <1>7, <1>15 DEF TakesNetOut, Removing
  <2>2. client'[c].pc \in Removing /\ client'[c].op = client[c].op
    BY <1>1, <2>1 DEF Client
  <2>3. UNCHANGED medium
    BY <1>15 DEF TakesNetOut
  <2> QED
    BY <1>1, <1>2, <1>5, <1>15, <2>2, <2>3, NetOutKeeps DEF Removing, MediaClient
<1>16. CASE AsksDesktop(c)
  <2>1. client'[c] = [client[c] EXCEPT !.asked = TRUE] /\ UNCHANGED medium /\ client[c].pc \in Removing
    BY <1>7, <1>16 DEF AsksDesktop, Removing
  <2>2. client'[c].pc \in Removing /\ client'[c].op = client[c].op
    BY <1>1, <2>1 DEF Client
  <2> QED
    BY <1>1, <1>2, <1>5, <1>16, <2>1, <2>2, StatusesKeep DEF KeepsAll, Removing, MediaClient
<1>17. CASE SeesIt(c)
  <2>1. UNCHANGED <<desktop, medium>>
    BY <1>17 DEF SeesIt, tables
  <2>2. \/ client'[c] = [client[c] EXCEPT !.pc = "updating", !.asked = FALSE]
        \/ client'[c] = [client[c] EXCEPT !.pc = "net", !.now = None]
    BY <1>7, <1>17 DEF SeesIt
  <2>3. client'[c].pc \in Removing /\ client'[c].op = client[c].op
    BY <1>1, <2>2 DEF Client, Removing
  <2> QED
    BY <1>2, <1>5, <2>1, <2>3, NothingWritten DEF KeepsAll, Removing, MediaClient
<1>18. CASE InsertsDesktop(c)
  <2>1. client[c].op = "domain_from_media" /\ medium[client[c].of] = "Downloaded" /\ client[c].of \in Media
        /\ client[c].id \in Desktops /\ UNCHANGED medium
    BY <1>1, <1>2, <1>18 DEF InsertsDesktop, Knows, MediaClient
  <2>2. client'[c] = Idle /\ Quiet
    BY <1>6, <1>18, <2>1 DEF InsertsDesktop
  <2>3. CASE UNCHANGED desktop
    BY <1>5, <2>1, <2>2, <2>3, NothingWritten DEF KeepsAll
  <2>4. CASE ~UNCHANGED desktop
    <3>1. PICK d, m : d = client[c].id /\ m = client[c].of
      OBVIOUS
    <3>2. desktop' = [desktop EXCEPT ![d] =
                [status |-> "CreatingDiskFromScratch", followed |-> TRUE, cpus |-> 0, nets |-> {}, isos |-> {m},
                 xml |-> {}, file |-> None]]
      BY <1>18, <2>1, <2>4, <3>1 DEF InsertsDesktop, Put
    <3>3. desktop'[d].isos = {m} /\ desktop'[d].status = "CreatingDiskFromScratch"
          /\ \A e \in Desktops : e # d => desktop'[e] = desktop[e]
      BY <1>1, <2>1, <3>1, <3>2 DEF Types
    <3>4. \A e \in Desktops : desktop'[e] # None =>
            desktop'[e].status \notin {"Starting", "Started"} /\ There(desktop[e].isos)'
      BY <1>2, <2>1, <3>1, <3>3 DEF There
    <3>5. MediaClient(c)'
      BY <2>2 DEF MediaClient
    <3> QED
      BY <1>1, <1>4, <3>4, <3>5 DEF MediaInv
  <2> QED
    BY <2>3, <2>4
<1>19. CASE TakesMedium(c)
  BY <1>2, <1>19 DEF TakesMedium, MediaClient
<1> QED
  BY <1>8, <1>9, <1>10, <1>11, <1>12, <1>13, <1>14, <1>15, <1>16, <1>17, <1>18, <1>19 DEF RequestGoesOn

LEMMA MediaBegin ==
    ASSUME Assumption, OneClient, NothingStarts, MediaInv, NEW c \in Clients, RequestBegins(c)
    PROVE  MediaInv'
<1>1. Types /\ Types' /\ Idle \in Client
  BY BeginningTypes, IdleKnows DEF MediaInv, Types, KnowingClient
<1>2. \A b \in Clients : b = c
  BY DEF OneClient
<1>3. UNCHANGED <<desktop, medium>>
  BY <1>1, BeginningTypes
<1>4. ASSUME NEW op, NEW r, Begins(c, op, r)
      PROVE  client'[c] = [r EXCEPT !.op = op] /\ op \in Ops /\ op # "domain_from_disk"
  BY <1>1, <1>4 DEF Begins, Does, Types, NothingStarts
<1>5. ASSUME MediaClient(c)' PROVE MediaInv'
  <2>1. \A d \in Desktops : desktop'[d] # None =>
            desktop'[d].status \notin {"Starting", "Started"} /\ There(desktop[d].isos)'
    BY <1>3 DEF MediaInv, There
  <2> QED
    BY <1>1, <1>2, <1>5, <2>1 DEF MediaInv
<1>6. ASSUME NEW d \in Desktops, NEW form \in Form, NEW op \in Edits, EditBegins(c, d, op, form) PROVE MediaInv'
  <2>1. \A m \in Limited(op, form).isos : medium[m] = "Downloaded"
    BY <1>6 DEF EditBegins, Limited, Form
  <2>2. client'[c] = [[Idle EXCEPT !.pc = "update", !.id = d, !.form = Limited(op, form)] EXCEPT !.op = op]
        /\ op # "domain_from_disk"
    BY <1>4, <1>6 DEF EditBegins
  <2>3. client'[c].pc = "update" /\ client'[c].form = Limited(op, form) /\ client'[c].op # "domain_from_disk"
    BY <1>1, <2>2 DEF Client
  <2> QED
    BY <1>3, <1>5, <2>1, <2>3 DEF MediaClient, There
<1>7. ASSUME NEW m \in Media, MediaDeleteBegins(c, m) PROVE MediaInv'
  <2>1. client'[c] = [[Idle EXCEPT !.pc = "media", !.of = m] EXCEPT !.op = "media_delete"]
    BY <1>4, <1>7 DEF MediaDeleteBegins
  <2>2. client'[c].pc = "media" /\ client'[c].op = "media_delete"
    BY <1>1, <2>1 DEF Client
  <2> QED
    BY <1>5, <2>2 DEF MediaClient
<1>8. ASSUME NEW n \in Nets, InterfaceDeleteBegins(c, n) PROVE MediaInv'
  <2>1. client'[c] = [[Idle EXCEPT !.pc = "nets", !.of = n] EXCEPT !.op = "interface_delete"]
    BY <1>4, <1>8 DEF InterfaceDeleteBegins
  <2>2. client'[c].pc = "nets" /\ client'[c].op = "interface_delete"
    BY <1>1, <2>1 DEF Client
  <2> QED
    BY <1>5, <2>2 DEF MediaClient
<1>9. ASSUME NEW d \in Desktops, NEW m \in Media, NEW op \in Requests, MediaAddBegins(c, d, m, op) PROVE MediaInv'
  <2>1. client'[c] = [[Idle EXCEPT !.pc = "insert", !.id = d, !.of = m] EXCEPT !.op = op]
        /\ op # "domain_from_disk" /\ medium[m] = "Downloaded"
    BY <1>4, <1>9 DEF MediaAddBegins
  <2>2. client'[c].pc = "insert" /\ client'[c].op # "domain_from_disk" /\ client'[c].of = m
    BY <1>1, <2>1 DEF Client
  <2> QED
    BY <1>3, <1>5, <2>1, <2>2 DEF MediaClient
<1> QED
  BY <1>6, <1>7, <1>8, <1>9 DEF RequestBegins

LEMMA MediaStep == Assumption /\ OneClient /\ NothingStarts /\ MediaInv /\ [Next]_vars => MediaInv'
<1> SUFFICES ASSUME Assumption, OneClient, NothingStarts, MediaInv, [Next]_vars PROVE MediaInv'
  OBVIOUS
<1>1. Types /\ Types'
  BY TypesStep DEF MediaInv
<1>2. CASE UNCHANGED vars
  BY <1>1, <1>2, MediaKept, NothingWritten DEF vars, KeepsAll
<1>3. ASSUME NEW d \in Desktops,
             Engine(d) \/ Starts(d) \/ ShutsDown(d) \/ DeletesDesktop(d) \/ GuestOff(d)
      PROVE  MediaInv'
  <2>1. KeepsIsos /\ NoneStarts /\ UNCHANGED <<medium, client>>
    BY <1>1, <1>3, OthersKeep, OthersStart DEF KeepsAll, NothingStarts
  <2> QED
    BY <1>1, <2>1, MediaKept
<1>4. ASSUME NEW m \in Media, MediumGoes(m) PROVE MediaInv'
  <2>1. \A n \in Media : medium[n] = "Downloaded" => medium'[n] = "Downloaded"
    BY <1>1, <1>4 DEF MediumGoes, Types
  <2>2. UNCHANGED <<desktop, client>>
    BY <1>4 DEF MediumGoes
  <2> QED
    BY <1>1, <2>1, <2>2, MediaKept, NothingWritten DEF KeepsAll
<1>5. CASE WebappRestarts
  <2>1. UNCHANGED <<desktop, medium>> /\ \A c \in Clients : client'[c].pc = "idle" /\ client'[c].op = None
    BY <1>5, IdleKnows DEF WebappRestarts, tables
  <2>2. None # "domain_from_disk"
    BY DEF Assumption, AllOps, Requests
  <2> QED
    BY <1>1, <2>1, <2>2, MediaKept, NothingWritten DEF KeepsAll
<1> QED
  BY <1>2, <1>3, <1>4, <1>5, MediaGoOn, MediaBegin DEF Next

----------------------------------------------------------------------------
(* Files: what a desktop took is no medium any more, or is about to be     *)
(* none.                                                                   *)

Taking(m) == \E c \in Clients : client[c].pc = "take" /\ client[c].of = m

FilesApart ==
    \A d, e \in Desktops : desktop[d] # None /\ desktop[e] # None /\ desktop[d].file # None
                           /\ desktop[d].file = desktop[e].file => d = e

FilesTaken ==
    \A d \in Desktops : desktop[d] # None /\ desktop[d].file # None =>
        medium[desktop[d].file] = None \/ Taking(desktop[d].file)

FilesInv == Types /\ FilesApart /\ FilesTaken

LEMMA FilesInit == Assumption /\ Init => FilesInv
BY TypesInit DEF Init, FilesInv, FilesApart, FilesTaken

\* Steps that give no desktop a file.
LEMMA FilesKept ==
    ASSUME FilesInv, Types',
           \A d \in Desktops : desktop'[d] # None =>
                \/ desktop'[d].file = None
                \/ desktop[d] # None /\ desktop'[d].file = desktop[d].file,
           \A m \in Media : medium[m] = None \/ Taking(m) => medium'[m] = None \/ Taking(m)'
    PROVE  FilesInv'
<1>1. FilesApart'
  BY DEF FilesInv, FilesApart
<1>2. ASSUME NEW d \in Desktops, desktop'[d] # None, desktop'[d].file # None
      PROVE  medium'[desktop'[d].file] = None \/ Taking(desktop[d].file)'
  <2>1. PICK m : m = desktop'[d].file
    OBVIOUS
  <2>2. m \in Media /\ desktop[d] # None /\ m = desktop[d].file
    BY <1>2, <2>1 DEF Types, Row
  <2>3. medium[m] = None \/ Taking(m)
    BY <1>2, <2>1, <2>2 DEF FilesInv, FilesTaken
  <2>4. medium'[m] = None \/ Taking(m)'
    BY <2>2, <2>3
  <2> QED
    BY <2>1, <2>4 DEF Taking
<1>3. FilesTaken'
  BY <1>2 DEF FilesTaken
<1> QED
  BY <1>1, <1>3 DEF FilesInv

LEMMA FilesGoOn ==
    ASSUME Assumption, OneClient, FilesInv, NEW c \in Clients, RequestGoesOn(c)
    PROVE  FilesInv'
<1>1. Types /\ Types' /\ client[c] \in Client /\ Knows(client[c])
  BY GoingOnTypes DEF FilesInv, Types, KnowingClient
<1>2. \A b \in Clients : b = c
  BY DEF OneClient
<1>3. ASSUME KeepsFiles, \A m \in Media : medium[m] = None => medium'[m] = None, client[c].pc # "take"
      PROVE  FilesInv'
  BY <1>1, <1>2, <1>3, FilesKept DEF KeepsFiles, Taking
<1>4. CASE Updates(c)
  <2>1. UNCHANGED medium /\ client[c].pc # "take"
    BY <1>4 DEF Updates
  <2>2. CASE UNCHANGED desktop
    BY <1>3, <2>1, <2>2, NothingWritten DEF KeepsAll
  <2>3. CASE ~UNCHANGED desktop
    <3>1. PICK d, form : d = client[c].id /\ form = client[c].form
      OBVIOUS
    <3>2. d \in Desktops
      BY <1>1, <1>4, <3>1 DEF Updates, Knows
    <3>3. PICK new : new = [WithStatus(desktop[d], "Updating")
                            EXCEPT !.cpus = form.cpus, !.nets = form.nets, !.isos = form.isos]
      OBVIOUS
    <3>4. desktop[d] # None /\ desktop' = [desktop EXCEPT ![d] = new]
      BY <1>4, <2>3, <3>1, <3>3 DEF Updates, Put
    <3>5. WithStatus(desktop[d], "Updating") \in Row /\ WithStatus(desktop[d], "Updating").file = desktop[d].file
      BY <1>1, <3>2, <3>4, RowStays DEF Statuses
    <3>6. new.file = desktop[d].file
      BY <3>3, <3>5 DEF Row
    <3> QED
      BY <1>1, <1>3, <2>1, <3>2, <3>4, <3>6, OneWritten
  <2> QED
    BY <2>2, <2>3
<1>5. CASE ListsMedia(c) \/ MarksMedium(c) \/ ListsNets(c) \/ SeesIt(c) \/ TimesOut(c) \/ RemovesNet(c)
  <2>1. UNCHANGED desktop /\ client[c].pc # "take"
    BY <1>5 DEF ListsMedia, MarksMedium, ListsNets, SeesIt, TimesOut, RemovesNet, tables
  <2>2. \A m \in Media : medium[m] = None => medium'[m] = None
    BY <1>1, <1>5 DEF ListsMedia, MarksMedium, ListsNets, SeesIt, TimesOut, RemovesNet, tables, Types
  <2> QED
    BY <1>3, <2>1, <2>2, NothingWritten DEF KeepsAll
<1>6. ASSUME (\E e \in client[c].todo : SaysStopped(c, e)) \/ AsksDesktop(c) PROVE FilesInv'
  <2>1. UNCHANGED medium /\ client[c].pc # "take"
    BY <1>6 DEF SaysStopped, AsksDesktop
  <2> QED
    BY <1>1, <1>3, <1>6, <2>1, StatusesKeep DEF KeepsAll
<1>7. CASE TakesMediumOut(c)
  <2>1. UNCHANGED medium /\ client[c].pc # "take"
    BY <1>7 DEF TakesMediumOut
  <2> QED
    BY <1>1, <1>3, <1>7, <2>1, MediumOutKeeps
<1>8. ASSUME NEW e \in client[c].todo, TakesNetOut(c, e) PROVE FilesInv'
  <2>1. UNCHANGED medium /\ client[c].pc # "take"
    BY <1>8 DEF TakesNetOut
  <2> QED
    BY <1>1, <1>3, <1>8, <2>1, NetOutKeeps
<1>9. CASE InsertsDesktop(c)
  <2>1. client[c].pc = "insert" /\ UNCHANGED medium /\ client[c].id \in Desktops /\ client[c].of \in Media
    BY <1>1, <1>9 DEF InsertsDesktop, Knows
  <2>2. CASE UNCHANGED desktop
    BY <1>3, <2>1, <2>2, NothingWritten DEF KeepsAll
  <2>3. CASE ~UNCHANGED desktop
    <3>1. PICK d, m : d = client[c].id /\ m = client[c].of
      OBVIOUS
    <3>2. desktop[d] = None /\ medium[m] # None
      BY <1>9, <2>3, <3>1 DEF InsertsDesktop
    <3>3. CASE client[c].op # "domain_from_disk"
      <4>1. desktop' = [desktop EXCEPT ![d] =
                [status |-> "CreatingDiskFromScratch", followed |-> TRUE, cpus |-> 0, nets |-> {}, isos |-> {m},
                 xml |-> {}, file |-> None]]
        BY <1>9, <2>3, <3>1, <3>3 DEF InsertsDesktop, Put
      <4>2. desktop'[d].file = None /\ \A e \in Desktops : e # d => desktop'[e] = desktop[e]
        BY <1>1, <2>1, <3>1, <4>1 DEF Types
      <4>3. \A n \in Media : ~Taking(n)
        BY <1>2, <2>1 DEF Taking
      <4> QED
        BY <1>1, <2>1, <4>2, <4>3, FilesKept
    <3>4. CASE client[c].op = "domain_from_disk"
      <4>1. desktop' = [desktop EXCEPT ![d] =
                [status |-> "CreatingDiskFromScratch", followed |-> TRUE, cpus |-> 0, nets |-> {}, isos |-> {},
                 xml |-> {}, file |-> m]]
        BY <1>9, <2>3, <3>1, <3>4 DEF InsertsDesktop, Put
      <4>2. desktop'[d].file = m /\ \A e \in Desktops : e # d => desktop'[e] = desktop[e]
        BY <1>1, <2>1, <3>1, <4>1 DEF Types
      <4>3. \A e \in Desktops : desktop[e] # None => desktop[e].file = None \/ medium[desktop[e].file] = None
        BY <1>2, <2>1 DEF FilesInv, FilesTaken, Taking
      <4>4. \A e \in Desktops : desktop[e] # None => desktop[e].file # m
        <5>1. m # None
          BY <2>1, <3>1 DEF Assumption
        <5> QED
          BY <3>2, <4>3, <5>1
      <4>5. FilesApart'
        BY <4>2, <4>4 DEF FilesInv, FilesApart
      <4>6. client'[c] = [client[c] EXCEPT !.pc = "take"]
        BY <1>1, <1>9, <2>1, <2>3, <3>4 DEF InsertsDesktop, Goes, Types
      <4>7. client'[c].pc = "take" /\ client'[c].of = m
        BY <1>1, <3>1, <4>6 DEF Client
      <4>8. Taking(desktop[d].file)'
        BY <4>2, <4>7 DEF Taking
      <4>9. FilesTaken'
        BY <2>1, <4>2, <4>3, <4>8 DEF FilesTaken
      <4> QED
        BY <1>1, <4>5, <4>9 DEF FilesInv
    <3> QED
      BY <3>3, <3>4
  <2> QED
    BY <2>2, <2>3
<1>10. CASE TakesMedium(c)
  <2>1. client[c].of \in Media /\ UNCHANGED desktop
    BY <1>1, <1>10 DEF TakesMedium, Knows
  <2>2. \A m \in Media : medium[m] = None \/ m = client[c].of => medium'[m] = None
    BY <1>1, <1>10 DEF TakesMedium, Types
  <2>3. \A m \in Media : medium[m] = None \/ Taking(m) => medium'[m] = None
    BY <1>2, <2>2 DEF Taking
  <2> QED
    BY <1>1, <2>1, <2>3, FilesKept
<1> QED
  BY <1>4, <1>5, <1>6, <1>7, <1>8, <1>9, <1>10 DEF RequestGoesOn

LEMMA FilesStep == Assumption /\ OneClient /\ "webapp_restarts" \notin Ops /\ FilesInv /\ [Next]_vars => FilesInv'
<1> SUFFICES ASSUME Assumption, OneClient, "webapp_restarts" \notin Ops, FilesInv, [Next]_vars PROVE FilesInv'
  OBVIOUS
<1>1. Types /\ Types'
  BY TypesStep DEF FilesInv
<1>2. CASE UNCHANGED vars
  BY <1>1, <1>2, FilesKept DEF vars, Taking
<1>3. ASSUME NEW d \in Desktops,
             Engine(d) \/ Starts(d) \/ ShutsDown(d) \/ DeletesDesktop(d) \/ GuestOff(d)
      PROVE  FilesInv'
  <2>1. KeepsFiles /\ UNCHANGED <<medium, client>>
    BY <1>1, <1>3, OthersKeep DEF KeepsAll
  <2> QED
    BY <1>1, <2>1, FilesKept DEF KeepsFiles, Taking
<1>4. ASSUME NEW m \in Media, MediumGoes(m) PROVE FilesInv'
  <2>1. \A n \in Media : medium[n] = None => medium'[n] = None
    BY <1>1, <1>4 DEF MediumGoes, Types
  <2>2. UNCHANGED <<desktop, client>>
    BY <1>4 DEF MediumGoes
  <2> QED
    BY <1>1, <2>1, <2>2, FilesKept DEF Taking
<1>5. CASE WebappRestarts
  BY <1>5 DEF WebappRestarts, Does
<1>6. ASSUME NEW c \in Clients, RequestBegins(c) PROVE FilesInv'
  <2>1. UNCHANGED <<desktop, medium>> /\ \A b \in Clients : client[b].pc # "take"
    <3>1. client[c].pc = "idle"
      BY <1>6 DEF RequestBegins, EditBegins, MediaDeleteBegins, InterfaceDeleteBegins, MediaAddBegins, Begins
    <3> QED
      BY <1>1, <1>6, <3>1, BeginningTypes DEF OneClient
  <2> QED
    BY <1>1, <2>1, FilesKept DEF Taking
<1> QED
  BY <1>2, <1>3, <1>4, <1>5, <1>6, FilesGoOn DEF Next

LEMMA FilesOwned == Assumption /\ FilesInv => FileHasOneOwner
<1> SUFFICES ASSUME Assumption, FilesInv, NEW m \in Media
             PROVE  LET of == {d \in Desktops : desktop[d] # None /\ desktop[d].file = m} IN
                        /\ Cardinality(of) <= 1
                        /\ of # {} /\ (\A c \in Clients : client[c].pc = "idle") => medium[m] = None
  BY DEF FileHasOneOwner
<1> DEFINE of == {d \in Desktops : desktop[d] # None /\ desktop[d].file = m}
<1>1. m # None
  BY DEF Assumption
<1>2. \A d, e \in of : d = e
  BY <1>1 DEF FilesInv, FilesApart
<1>3. Cardinality(of) <= 1
  <2>1. CASE of = {}
    BY <2>1, FS_EmptySet
  <2>2. ASSUME NEW d \in of PROVE Cardinality(of) <= 1
    <3>1. of = {d}
      BY <1>2
    <3> HIDE DEF of
    <3> QED
      BY <3>1, FS_Singleton
  <2> QED
    BY <2>1, <2>2
<1>4. of # {} /\ (\A c \in Clients : client[c].pc = "idle") => medium[m] = None
  BY <1>1 DEF FilesInv, FilesTaken, Taking
<1> QED
  BY <1>3, <1>4

----------------------------------------------------------------------------
(* The theorems.                                                           *)

\* Whatever is asked, by however many at once, the tables and the requests
\* hold what they may: every row that is written is one of a desktop.
THEOREM HardwareTypes == Assumption => (Spec => []Types)
<1> SUFFICES ASSUME Assumption PROVE Spec => []Types
  OBVIOUS
<1>1. Init => Types
  BY TypesInit
<1>2. Types /\ [Next]_vars => Types'
  BY TypesStep
<1> QED
  BY <1>1, <1>2, PTL DEF Spec

\* interface_delete keeps its promise when one request is served at a time:
\* no desktop that there is has an interface whose row is gone, whatever starts,
\* stops or times out, and wherever the webapp restarts.
THEOREM InterfacesInUseExist == Assumption /\ OneClient => (Spec => []InterfaceGoneIsUnused)
<1> SUFFICES ASSUME Assumption, OneClient PROVE Spec => []InterfaceGoneIsUnused
  OBVIOUS
<1>1. Init => NetsInv
  BY NetsInit
<1>2. NetsInv /\ [Next]_vars => NetsInv'
  BY NetsStep
<1>3. NetsInv => InterfaceGoneIsUnused
  BY DEF NetsInv
<1> QED
  BY <1>1, <1>2, <1>3, PTL DEF Spec

\* media_delete keeps its own one only while nothing is started, since it
\* leaves the desktops that run as they are, and no disk is made of a medium.
THEOREM MediaInUseExist == Assumption /\ OneClient /\ NothingStarts => (Spec => []MediaGoneIsUnused)
<1> SUFFICES ASSUME Assumption, OneClient, NothingStarts PROVE Spec => []MediaGoneIsUnused
  OBVIOUS
<1>1. Init => MediaInv
  BY MediaInit
<1>2. MediaInv /\ [Next]_vars => MediaInv'
  BY MediaStep
<1>3. MediaInv => MediaGoneIsUnused
  BY DEF MediaInv, There, MediaGoneIsUnused, Assumption
<1> QED
  BY <1>1, <1>2, <1>3, PTL DEF Spec

\* domain_from_disk gives the file of a medium to one desktop, and takes the
\* medium away, unless the webapp restarts between the two.
THEOREM FilesHaveOneOwner ==
    Assumption /\ OneClient /\ "webapp_restarts" \notin Ops => (Spec => []FileHasOneOwner)
<1> SUFFICES ASSUME Assumption, OneClient, "webapp_restarts" \notin Ops PROVE Spec => []FileHasOneOwner
  OBVIOUS
<1>1. Init => FilesInv
  BY FilesInit
<1>2. FilesInv /\ [Next]_vars => FilesInv'
  BY FilesStep
<1>3. FilesInv => FileHasOneOwner
  BY FilesOwned
<1> QED
  BY <1>1, <1>2, <1>3, PTL DEF Spec
=============================================================================
