------------------------------- MODULE Feeds -------------------------------
(***************************************************************************)
(* The threads that tell browsers what changes in the database, and the    *)
(* pages that follow them.                                                 *)
(*                                                                         *)
(* The webapp and the API each have a thread that reads the changefeed of  *)
(* the table "domains" and emits events to rooms.  A page joins its room,  *)
(* gets a list from the server and applies the events to it.  A changefeed *)
(* begins with no initial rows: what changes while it is closed, after a   *)
(* broken connection or an exception in the loop, is told to nobody.       *)
(*                                                                         *)
(* The desktops are those of one deployment, whose owner may hide them     *)
(* from their user.  The webapp has more threads like that, for media,     *)
(* resources, users, hypervisors and the configuration: a behaviour has    *)
(* one of them, and the rows are those of its table.  A third feed of the  *)
(* API keeps a copy of the table "secrets" in memory; that one does begin  *)
(* with the rows there are.                                                *)
(***************************************************************************)
EXTENDS Naturals, Sequences, FiniteSets, SequencesExt

CONSTANTS
    Followed,       \* tables that the thread of the webapp may follow
    Desktops,       \* desktops of the deployment, or rows of the other table
    Secrets,        \* keys of the table "secrets"
    None,           \* no row
    Pages,          \* pages that someone opens, a subset of Tables and Lists
    Ops,            \* what is written, a subset of AllOps
    Patient,        \* whether a write waits until the last one was told
    PagesFirst,     \* whether pages open at once, before anything is written
    MaxOps,         \* bound on the number of writes
    MaxBreaks       \* bound on the number of changefeeds that break

\* insert, insert_media: a new desktop, from a template or a medium; status:
\* the engine or a user changes it; toggle: the owner hides or shows a
\* desktop that does not run, toggle_started: one that does, toggle_busy: one
\* in a status that the API does not tell
AllOps == {"insert", "insert_media", "status", "toggle", "toggle_started", "toggle_busy",
           "delete", "secret"}

\* user, admins: tables of the webapp, where an event replaces or adds a line;
\* desktops, deployment, deployments: lists of the frontend, where an "add"
\* appends and an "update" needs the item
Tables == {"user", "admins"}
Lists == {"desktops", "deployment", "deployments"}

AllFollowed == {"domains", "media", "resources", "users", "hypervisors", "config"}

Assumption ==
    /\ Followed \subseteq AllFollowed
    /\ Pages \subseteq Tables \cup Lists
    /\ None \notin Desktops \cup Secrets
    /\ Ops \subseteq AllOps
    /\ Patient \in BOOLEAN /\ PagesFirst \in BOOLEAN
    /\ MaxOps \in Nat /\ MaxBreaks \in Nat

VARIABLES
    table,      \* the table that the thread of the webapp follows
    row,        \* the rows of that table
    secret,     \* the table "secrets"
    feed,       \* what each thread has yet to read
    open,       \* whether its changefeed is open
    missed,     \* ids of which it missed a change that nothing has repaired yet
    page,       \* "closed", "joining" or "open", for each page
    answer,     \* the list on its way to the page
    inbox,      \* the events on their way to the page
    shown,      \* what the page shows
    last,       \* last_deployment
    ram,        \* app.ram["secrets"]
    ops,        \* writes so far
    breaks      \* changefeeds broken so far

vars == <<table, row, secret, feed, open, missed, page, answer, inbox, shown, last, ram, ops, breaks>>
tables == <<table, row, secret>>
browsers == <<page, answer, inbox, shown>>
bounds == <<ops, breaks>>

Feeds == {"webapp", "api", "secrets"}

FeedOf(p) == IF p \in Tables THEN "webapp" ELSE "api"

\* The statuses that the API tells, and one that it does not
Listed == {"Creating", "Stopped", "Started"}
Statuses == Listed \cup {"CreatingDisk", "Deleting"}
Row == [id : Desktops, status : Statuses, visible : BOOLEAN]
Counts == [total : Nat, started : Nat]
Items == Row \cup Counts
Event == [do : {"data", "add", "update", "delete"}, item : Items]

TypeOK ==
    /\ table \in Followed
    /\ row \in [Desktops -> Row \cup {None}]
    /\ secret \in [Secrets -> {1, 2, None}]
    /\ \A f \in Feeds : \A k \in 1 .. Len(feed[f]) :
        LET c == feed[f][k] IN
        IF f = "secrets" THEN c.id \in Secrets /\ {c.old, c.new} \subseteq {1, 2, None}
        ELSE c.id \in Desktops /\ {c.old, c.new} \subseteq Row \cup {None}
    /\ open \in [Feeds -> BOOLEAN]
    /\ missed \in [Feeds -> SUBSET (Desktops \cup Secrets)]
    /\ page \in [Pages -> {"closed", "joining", "open"}]
    /\ \A p \in Pages :
        /\ \A k \in 1 .. Len(inbox[p]) :
            inbox[p][k].do \in {"data", "add", "update", "delete"} /\ inbox[p][k].item \in Items
        /\ \A k \in 1 .. Len(shown[p]) : shown[p][k] \in (IF p = "deployments" THEN Counts ELSE Row)
    /\ last \in Counts \cup {None}
    /\ ram \in [Secrets -> {1, 2, None}]
    /\ ops \in 0 .. MaxOps /\ breaks \in 0 .. MaxBreaks

----------------------------------------------------------------------------
(* What a page is to show.                                                 *)

There == {d \in Desktops : row[d] # None}
TheCounts == [total |-> Cardinality(There),
              started |-> Cardinality({d \in There : row[d].status = "Started"})]

\* The lists that the server answers: those of a user leave out what is hidden.
Visible(r) == r # None /\ r.visible

ListFor(p) ==
    IF p = "deployments" THEN <<TheCounts>>
    ELSE SetToSeq({row[d] : d \in {d \in There : p \in {"user", "desktops"} => Visible(row[d])}})

Init ==
    /\ table \in Followed
    /\ row = [d \in Desktops |-> None]
    /\ secret = [s \in Secrets |-> None]
    /\ feed = [f \in Feeds |-> <<>>]
    /\ open = [f \in Feeds |-> TRUE]
    /\ missed = [f \in Feeds |-> {}]
    /\ page = [p \in Pages |-> IF PagesFirst THEN "open" ELSE "closed"]
    /\ answer = [p \in Pages |-> None]
    /\ inbox = [p \in Pages |-> <<>>]
    /\ shown = [p \in Pages |-> IF PagesFirst THEN ListFor(p) ELSE <<>>]
    /\ last = None
    /\ ram = [s \in Secrets |-> None]
    /\ ops = 0 /\ breaks = 0

----------------------------------------------------------------------------
(* Writes.                                                                 *)

\* Nothing is on its way.
AllTold ==
    /\ \A f \in Feeds : open[f] /\ feed[f] = <<>>
    /\ \A p \in Pages : inbox[p] = <<>> /\ answer[p] = None /\ page[p] # "joining"

\* Changes go to the threads whose changefeed is open.
Change(id, old, new) == [id |-> id, old |-> old, new |-> new]

Writes(op, id, changes, fs) ==
    /\ op \in Ops /\ ops < MaxOps /\ ops' = ops + 1
    /\ Patient => AllTold
    /\ feed' = [f \in Feeds |-> IF f \in fs /\ open[f] THEN feed[f] \o changes ELSE feed[f]]
    /\ missed' = [f \in Feeds |-> IF f \in fs /\ ~open[f] THEN missed[f] \cup {id} ELSE missed[f]]
    /\ UNCHANGED <<table, open, browsers, last, ram, breaks>>

WritesRow(op, d, new) ==
    /\ row[d] # new
    /\ Writes(op, d, <<Change(d, row[d], new)>>, {"webapp", "api"})
    /\ row' = [row EXCEPT ![d] = new]
    /\ UNCHANGED secret

\* A desktop of a deployment is created hidden or not; its disk of a medium is
\* made before any status that the API tells.
InsertDomain(d) ==
    /\ row[d] = None
    /\ \/ \E v \in BOOLEAN :
            WritesRow("insert", d, [id |-> d, status |-> "Creating", visible |-> v])
       \/ WritesRow("insert_media", d, [id |-> d, status |-> "CreatingDisk", visible |-> TRUE])

ChangeStatus(d) ==
    /\ row[d] # None
    /\ \E s \in Statuses \ {"Creating"} :
        /\ row[d].status \in {"Creating", "CreatingDisk"} => s \in {"CreatingDisk", "Stopped"}
        /\ s = "CreatingDisk" => row[d].status = "Creating"
        /\ row[d].status # "Deleting"
        /\ s = "Deleting" => row[d].status = "Stopped"
        /\ WritesRow("status", d, [row[d] EXCEPT !.status = s])

\* toggle_visible: what runs is stopped before it is hidden.
ToggleVisible(d) ==
    /\ row[d] # None
    /\ LET hides == row[d].visible
           stopped == IF hides /\ row[d].status = "Started"
                      THEN [row[d] EXCEPT !.status = "Stopped"] ELSE row[d]
           toggled == [stopped EXCEPT !.visible = ~@]
       IN  /\ Writes(CASE row[d].status = "Started" -> "toggle_started"
                       [] row[d].status \in Listed \ {"Started"} -> "toggle"
                       [] OTHER -> "toggle_busy",
                     d,
                     (IF stopped # row[d] THEN <<Change(d, row[d], stopped)>> ELSE <<>>)
                         \o <<Change(d, stopped, toggled)>>,
                     {"webapp", "api"})
           /\ row' = [row EXCEPT ![d] = toggled]
    /\ UNCHANGED secret

RemoveDomain(d) ==
    /\ row[d] # None /\ row[d].status = "Deleting"
    /\ WritesRow("delete", d, None)

WriteSecret(s) ==
    \E v \in {1, 2, None} :
        /\ secret[s] # v
        /\ Writes("secret", s, <<Change(s, secret[s], v)>>, {"secrets"})
        /\ secret' = [secret EXCEPT ![s] = v]
        /\ UNCHANGED row

----------------------------------------------------------------------------
(* The threads.                                                            *)

\* socketio.emit: an event goes to those who have joined the room.
Emits(to) ==
    inbox' = [p \in Pages |-> IF page[p] # "closed" THEN inbox[p] \o to[p] ELSE inbox[p]]

Reads(f) ==
    /\ open[f] /\ feed[f] # <<>>
    /\ feed' = [feed EXCEPT ![f] = Tail(@)]
    /\ UNCHANGED <<tables, open, page, answer, shown, bounds>>

Data(c) == IF c.new = None THEN c.old ELSE c.new

\* A row that is hidden, and was not or was not there
BecomesHidden(c) == ~Data(c).visible /\ (c.old = None \/ c.old.visible)

WebEvent(c) == <<[do |-> IF c.new = None THEN "delete" ELSE "data", item |-> Data(c)]>>

\* DomainsThread: administrators get every change, the user of a desktop those
\* of what is visible.
DomainsThread(c, p) ==
    IF p = "admins" \/ Data(c).visible THEN WebEvent(c)
    ELSE IF BecomesHidden(c) THEN <<[do |-> "delete", item |-> Data(c)]>> ELSE <<>>

\* MediaThread follows an index of the statuses of downloads: what leaves it is
\* told as removed.
MediaThread(c, p) == WebEvent(c)
OutOfIndex == {"CreatingDisk"}
Seen(r) == IF table = "media" /\ r # None /\ r.status \in OutOfIndex THEN None ELSE r

\* These are for administrators only.
ResourcesThread(c, p) == IF p = "admins" THEN WebEvent(c) ELSE <<>>
UsersThread(c, p) == IF p = "admins" THEN WebEvent(c) ELSE <<>>
HypervisorsThread(c, p) == IF p = "admins" THEN WebEvent(c) ELSE <<>>
ConfigThread(c, p) == IF p = "admins" THEN WebEvent(c) ELSE <<>>

WebEvents(c, p) ==
    CASE p \notin Tables -> <<>>
      [] c.old = c.new -> <<>>
      [] OTHER -> CASE table = "domains" -> DomainsThread(c, p)
                    [] table = "media" -> MediaThread(c, p)
                    [] table = "resources" -> ResourcesThread(c, p)
                    [] table = "users" -> UsersThread(c, p)
                    [] table = "hypervisors" -> HypervisorsThread(c, p)
                    [] table = "config" -> ConfigThread(c, p)

\* A change of what is hidden is not told to its user, nor does the page take
\* in what runs and is unknown: neither makes up for a change that was missed.
Repairs(c) ==
    /\ c.old # c.new
    /\ table = "domains" => Data(c).visible /\ (c.new = None \/ c.new.status # "Started")

WebappTells ==
    LET read == Head(feed["webapp"])
        c == [read EXCEPT !.old = Seen(@), !.new = Seen(@)]
    IN  /\ Reads("webapp")
        /\ Emits([p \in Pages |-> WebEvents(c, p)])
        /\ missed' = [missed EXCEPT !["webapp"] = IF Repairs(c) THEN @ \ {c.id} ELSE @]
        /\ UNCHANGED <<last, ram>>

ApiEvent(c) ==
    <<[do |-> IF c.new = None THEN "delete" ELSE IF c.old = None THEN "add" ELSE "update",
       item |-> Data(c)]>>

\* Mutant: what comes from a status out of the list is not told.
ToldByOldStatus(c) == c.new = None \/ c.old = None \/ c.old.status \in Listed

\* What is not told: a status out of the list
Told(c) == c.new = None \/ c.new.status \in Listed

\* The counts are those of the moment, and told unless they were the last.
TellsDeployment == last # TheCounts

ApiTells ==
    LET c == Head(feed["api"])
        hides == IF BecomesHidden(c) THEN <<[do |-> "delete", item |-> Data(c)]>> ELSE <<>>
        counts == IF TellsDeployment THEN <<[do |-> "update", item |-> TheCounts]>> ELSE <<>>
    IN  /\ Reads("api")
        /\ Emits([p \in Pages |-> CASE ~Told(c) \/ p \in Tables -> <<>>
                                     [] p = "desktops" -> ApiEvent(c) \o hides
                                     [] p = "deployment" -> ApiEvent(c)
                                     [] p = "deployments" -> counts])
        /\ last' = (IF Told(c) THEN TheCounts ELSE last)
        /\ UNCHANGED <<missed, ram>>

\* SecretsThread
SecretTells ==
    LET c == Head(feed["secrets"]) IN
    /\ Reads("secrets")
    /\ ram' = [ram EXCEPT ![c.id] = c.new]
    /\ missed' = [missed EXCEPT !["secrets"] = @ \ {c.id}]
    /\ UNCHANGED <<inbox, last>>

\* The connection is lost, or one change raises an exception.
FeedBreaks(f) ==
    /\ breaks < MaxBreaks /\ breaks' = breaks + 1
    /\ open[f]
    /\ open' = [open EXCEPT ![f] = FALSE]
    /\ missed' = [missed EXCEPT ![f] = @ \cup {feed[f][k].id : k \in 1 .. Len(feed[f])}]
    /\ feed' = [feed EXCEPT ![f] = <<>>]
    /\ UNCHANGED <<tables, browsers, last, ram, ops>>

\* The thread reads the table again; that of secrets gets the rows there are.
FeedOpens(f) ==
    /\ ~open[f]
    /\ open' = [open EXCEPT ![f] = TRUE]
    /\ feed' = [feed EXCEPT ![f] =
         IF f = "secrets"
         THEN SetToSeq({[id |-> s, old |-> None, new |-> secret[s]] :
                        s \in {s \in Secrets : secret[s] # None}})
         ELSE <<>>]
    /\ UNCHANGED <<tables, missed, browsers, last, ram, bounds>>

----------------------------------------------------------------------------
(* The pages.                                                              *)

\* A page asks for its list and joins its room, and either may come first.
PageAsks(p) ==
    /\ page[p] # "open" /\ answer[p] = None
    /\ answer' = [answer EXCEPT ![p] = ListFor(p)]
    /\ UNCHANGED <<tables, feed, open, missed, page, inbox, shown, last, ram, bounds>>

PageJoins(p) ==
    /\ page[p] = "closed"
    /\ page' = [page EXCEPT ![p] = "joining"]
    /\ UNCHANGED <<tables, feed, open, missed, answer, inbox, shown, last, ram, bounds>>

PageLists(p) ==
    /\ page[p] = "joining" /\ answer[p] # None
    /\ page' = [page EXCEPT ![p] = "open"]
    /\ shown' = [shown EXCEPT ![p] = answer[p]]
    /\ answer' = [answer EXCEPT ![p] = None]
    /\ UNCHANGED <<tables, feed, open, missed, inbox, last, ram, bounds>>

SameItem(p, a, b) == p = "deployments" \/ a.id = b.id
Known(p, item) == \E k \in 1 .. Len(shown[p]) : SameItem(p, shown[p][k], item)
First(p, item) == CHOOSE k \in 1 .. Len(shown[p]) :
    SameItem(p, shown[p][k], item) /\ \A j \in 1 .. k - 1 : ~SameItem(p, shown[p][j], item)

Replaced(p, item) == [shown[p] EXCEPT ![First(p, item)] = item]
Without(p, item) ==
    IF Known(p, item)
    THEN SubSeq(shown[p], 1, First(p, item) - 1) \o SubSeq(shown[p], First(p, item) + 1, Len(shown[p]))
    ELSE shown[p]

\* dtUpdateInsert, but for a desktop that is Started the user's page looks at
\* its line first, which raises an exception when there is none.
Upserted(p, item) ==
    IF Known(p, item) THEN Replaced(p, item)
    ELSE IF p = "user" /\ table = "domains" /\ item.status = "Started" THEN shown[p] ELSE Append(shown[p], item)

\* add_desktop, update_desktop (which raises when the item is not there) and
\* remove_desktop
PageApplies(p) ==
    LET e == Head(inbox[p])
        added == Append(shown[p], e.item)
        updated == IF Known(p, e.item) THEN Replaced(p, e.item) ELSE shown[p]
    IN  /\ page[p] # "closed" /\ inbox[p] # <<>>
        /\ inbox' = [inbox EXCEPT ![p] = Tail(@)]
        /\ shown' = [shown EXCEPT ![p] = CASE e.do = "data" -> Upserted(p, e.item)
                                           [] e.do = "add" -> added
                                           [] e.do = "update" -> updated
                                           [] e.do = "delete" -> Without(p, e.item)]
        /\ UNCHANGED <<tables, feed, open, missed, page, answer, last, ram, bounds>>

----------------------------------------------------------------------------
Threads ==
    WebappTells \/ ApiTells \/ SecretTells \/ \E f \in Feeds : FeedOpens(f)
Browsers == \E p \in Pages : PageAsks(p) \/ PageJoins(p) \/ PageLists(p) \/ PageApplies(p)

Next ==
    \/ \E d \in Desktops :
        InsertDomain(d) \/ ChangeStatus(d) \/ ToggleVisible(d) \/ RemoveDomain(d)
    \/ \E s \in Secrets : WriteSecret(s)
    \/ Threads
    \/ \E f \in Feeds : FeedBreaks(f)
    \/ Browsers

Spec == Init /\ [][Next]_vars

----------------------------------------------------------------------------
(* Properties.                                                             *)

\* Nothing is on its way to the page.
Calm(p) ==
    /\ page[p] = "open" /\ inbox[p] = <<>>
    /\ open[FeedOf(p)] /\ feed[FeedOf(p)] = <<>>

ShownAs(p, d) == {shown[p][k] : k \in {k \in 1 .. Len(shown[p]) : shown[p][k].id = d}}
Times(p, d) == Cardinality({k \in 1 .. Len(shown[p]) : shown[p][k].id = d})

\* The pages of the webapp: what they show of a row is what the table has,
\* once, and a change that comes through repairs one that was missed.
TablesAreRight ==
    \A p \in Pages \cap Tables : Calm(p) => \A d \in Desktops \ missed["webapp"] :
        LET right == IF p = "user" /\ table = "domains" THEN Visible(row[d])
                     ELSE Seen(row[d]) # None
        IN  ShownAs(p, d) = (IF right THEN {row[d]} ELSE {}) /\ Times(p, d) <= 1

\* The lists of the frontend, as long as no change is missed: no desktop that
\* is gone or hidden, and none twice.
ListsForget ==
    \A p \in Pages \cap {"desktops", "deployment"} : Calm(p) => \A d \in Desktops \ missed["api"] :
        /\ Times(p, d) <= 1
        /\ (row[d] = None \/ (p = "desktops" /\ ~row[d].visible)) => Times(p, d) = 0

\* A desktop that stays visible is shown with its status, if the API tells it.
ListsAreRight ==
    \A p \in Pages \cap {"desktops", "deployment"} : Calm(p) => \A d \in There \ missed["api"] :
        Visible(row[d]) /\ row[d].status \in Listed => ShownAs(p, d) = {row[d]}

\* The counts of a deployment are those of its desktops.
CountsAreRight ==
    "deployments" \in Pages /\ Calm("deployments") /\ missed["api"] = {}
        /\ (\A d \in There : row[d].status \in Listed)
        => shown["deployments"] = <<TheCounts>>

\* The API knows every secret of the table as it is, whatever it missed while
\* its changefeed was closed.
SecretsAreKnown ==
    open["secrets"] /\ feed["secrets"] = <<>> => \A s \in Secrets : secret[s] \in {ram[s], None}

=============================================================================
