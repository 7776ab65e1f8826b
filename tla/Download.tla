----------------------------- MODULE Download -----------------------------
(***************************************************************************)
(* Downloads of media and of the disks of desktops.                        *)
(*                                                                         *)
(* DownloadChangesThread follows the tables "media" and "domains".  A row  *)
(* that becomes DownloadStarting gets a DownloadThread, which runs curl in *)
(* a hypervisor through ssh and writes Downloading, then Downloaded or     *)
(* DownloadFailed.  To abort, a request writes DownloadAborting: the thread*)
(* is told to stop, and the worker of some hypervisor is told to erase the *)
(* file, each in its own time.                                             *)
(*                                                                         *)
(* A file is identified by the item and by the directory of the pool it is *)
(* in: get_path_to_disk chooses a directory each time it is called.        *)
(***************************************************************************)
EXTENDS Naturals, Sequences, FiniteSets, SequencesExt

CONSTANTS
    Media,      \* ids of media
    Disks,      \* ids of desktops whose disk is downloaded
    Dirs,       \* directories of the pool
    Numbers,    \* numbers that tell DownloadThreads apart, in the order of their start
    Clients,    \* requests of users that are served at once
    Ops,        \* what requests do, a subset of AllOps
    Faults,     \* what may go wrong, a subset of AllFaults
    Patient,    \* whether requests wait for DownloadChangesThread to listen
    MaxOps,     \* bound on the number of requests
    MaxFaults   \* bound on the number of faults

AllOps == {"download", "retry", "abort", "delete", "admin_abort", "scan"}
AllFaults == {"url", "curl", "no_disk_hyp", "offline", "kill", "unregistered", "rm", "restart"}

Assumption ==
    /\ Media \cap Disks = {}
    /\ Numbers \subseteq Nat
    /\ Ops \subseteq AllOps
    /\ Faults \subseteq AllFaults
    /\ Patient \in BOOLEAN
    /\ MaxOps \in Nat
    /\ MaxFaults \in Nat

VARIABLES
    row,        \* status of each item and the directory its file is recorded in
    feed,       \* changes DownloadChangesThread has not handled yet
    changes,    \* DownloadChangesThread: "closed" before its feed opens, "open" or "dead"
    current,    \* download_threads: the thread it keeps for each file
    thread,     \* every DownloadThread that was started
    curl,       \* curl in the hypervisor, for each thread
    file,       \* what is on disk
    erasing,    \* actions delete_media on the queues of the workers
    online,     \* whether a hypervisor is Online
    client,     \* what a request is about to write
    ops,        \* requests so far
    faults      \* faults so far

vars == <<row, feed, changes, current, thread, curl, file, erasing, online, client, ops, faults>>

Items == Media \cup Disks
Files == Items \X Dirs
NoDir == "no directory"
NoThread == 0
NoWrite == [item |-> "none", status |-> "none", inserts |-> FALSE]

Statuses == {"none", "DownloadStarting", "Downloading", "DownloadAborting", "ResetDownloading",
             "DownloadFailed", "Downloaded", "Deleting", "Deleted", "FailedDeleted", "Updating"}

\* The statuses the changefeed selects, which differ for the two tables.
Watched(i) == {"DownloadStarting", "Downloading", "DownloadAborting", "ResetDownloading",
               "DownloadFailed", "Downloaded"}
              \cup (IF i \in Media THEN {"Deleting", "Deleted"} ELSE {})

Alive == {"waiting", "testing", "opened", "loop", "ended", "named"}
Threads == {n \in Numbers : thread[n].pc \in Alive}
CurlAlive == {"runs", "writes"}

TypeOK ==
    /\ row \in [Items -> [status: Statuses, dir: Dirs \cup {NoDir}]]
    /\ feed \in Seq([item: Items, old: Statuses, new: Statuses])
    /\ changes \in {"closed", "open", "dead"}
    /\ current \in [Files -> Numbers \cup {NoThread}]
    /\ thread \in [Numbers -> [item: Items \cup {"none"}, dir: Dirs \cup {NoDir},
                               pc: Alive \cup {"none", "done"}, stop: BOOLEAN]]
    /\ curl \in [Numbers -> {"no", "runs", "writes", "ok", "failed", "killed"}]
    /\ file \in [Files -> {"no", "partial", "full"}]
    /\ erasing \in Seq([item: Items, dir: Dirs, final: {"Deleted", "DownloadFailed"}])
    /\ online \in BOOLEAN
    /\ client \in [Clients -> [item: Items \cup {"none"}, status: Statuses, inserts: BOOLEAN]]
    /\ ops \in 0..MaxOps
    /\ faults \in 0..MaxFaults

NoThreads == [n \in Numbers |-> [item |-> "none", dir |-> NoDir, pc |-> "none", stop |-> FALSE]]

Init ==
    /\ row = [i \in Items |-> [status |-> "none", dir |-> NoDir]]
    /\ feed = <<>>
    /\ changes = "closed"
    /\ current = [f \in Files |-> NoThread]
    /\ thread = NoThreads
    /\ curl = [n \in Numbers |-> "no"]
    /\ file = [f \in Files |-> "no"]
    /\ erasing = <<>>
    /\ online = TRUE
    /\ client = [c \in Clients |-> NoWrite]
    /\ ops = 0
    /\ faults = 0

----------------------------------------------------------------------------
(* Writes and what the changefeed tells of them.                           *)

\* A status outside of the index is no status to the changefeed.
Seen(i, s) == IF s \in Watched(i) THEN s ELSE "none"

\* The changes of item i when its status becomes each of ss in turn.
ChangesOf(i, ss) ==
    LET from == [k \in 1..Len(ss) |-> IF k = 1 THEN row[i].status ELSE ss[k - 1]]
        told == [k \in 1..Len(ss) |-> [item |-> i, old |-> Seen(i, from[k]), new |-> Seen(i, ss[k])]]
    IN SelectSeq(told, LAMBDA c : c.old # c.new)

\* The row of item i takes the statuses ss, one after the other.
Writes(i, ss) ==
    /\ row' = [row EXCEPT ![i].status = Last(ss)]
    /\ feed' = IF changes = "open" THEN feed \o ChangesOf(i, ss) ELSE feed

\* An update of a row that left the table changes nothing.
Updates(i, s) ==
    IF row[i].status = "none" THEN UNCHANGED <<row, feed>> ELSE Writes(i, <<s>>)

Removes(i) ==
    /\ row' = [row EXCEPT ![i] = [status |-> "none", dir |-> NoDir]]
    /\ feed' = IF changes = "open" THEN feed \o ChangesOf(i, <<"none">>) ELSE feed

Fault(f) == f \in Faults /\ faults < MaxFaults /\ faults' = faults + 1

----------------------------------------------------------------------------
(* Requests: a status is read, and another one written later.              *)

Idle(c) ==
    /\ client[c] = NoWrite /\ ops < MaxOps /\ ops' = ops + 1
    /\ Patient => changes = "open"
Intends(c, i, s, inserts) == client' = [client EXCEPT ![c] = [item |-> i, status |-> s, inserts |-> inserts]]
requestVars == <<changes, current, thread, curl, file, erasing, online, faults>>

\* getNewKindId: an item of the updates server that the table has not, or
\* that failed, may be downloaded.
ReadAvailable(c, i) ==
    /\ "download" \in Ops /\ Idle(c)
    /\ row[i].status \in {"none", "DownloadFailed"}
    /\ Intends(c, i, "DownloadStarting", TRUE)
    /\ UNCHANGED <<row, feed>> /\ UNCHANGED requestVars

ReadFailed(c, i) ==
    /\ "retry" \in Ops /\ Idle(c)
    /\ row[i].status = "DownloadFailed"
    /\ Intends(c, i, "DownloadStarting", FALSE)
    /\ UNCHANGED <<row, feed>> /\ UNCHANGED requestVars

ReadDownloading(c, i) ==
    /\ "abort" \in Ops /\ Idle(c)
    /\ row[i].status = "Downloading"
    /\ Intends(c, i, "DownloadAborting", FALSE)
    /\ UNCHANGED <<row, feed>> /\ UNCHANGED requestVars

\* Any status of a medium will do: the test of the status is commented out.
ReadMedium(c, i) ==
    /\ "delete" \in Ops /\ Idle(c)
    /\ i \in Media /\ row[i].status # "none"
    /\ Intends(c, i, "Deleting", FALSE)
    /\ UNCHANGED <<row, feed>> /\ UNCHANGED requestVars

RequestWrites(c) ==
    /\ client[c] # NoWrite
    /\ IF client[c].inserts THEN Writes(client[c].item, <<client[c].status>>)
       ELSE Updates(client[c].item, client[c].status)
    /\ client' = [client EXCEPT ![c] = NoWrite]
    /\ UNCHANGED ops /\ UNCHANGED requestVars

\* The page of updates writes DownloadAborting whatever the status is.
AdminAborts(c, i) ==
    /\ "admin_abort" \in Ops /\ Idle(c)
    /\ row[i].status # "none"
    /\ Updates(i, "DownloadAborting")
    /\ UNCHANGED client /\ UNCHANGED requestVars

\* The files a scan of the storage finds and no row names become media; it
\* fails when some medium has no path.
ScanFinds(c, i, d) ==
    /\ "scan" \in Ops /\ Idle(c)
    /\ i \in Media /\ file[<<i, d>>] # "no" /\ row[i].status = "none"
    /\ \A m \in Media : row[m].status # "none" => row[m].dir # NoDir
    /\ row' = [row EXCEPT ![i] = [status |-> "Downloaded", dir |-> d]]
    /\ feed' = IF changes = "open" THEN feed \o ChangesOf(i, <<"Downloaded">>) ELSE feed
    /\ UNCHANGED client /\ UNCHANGED requestVars

RequestNext == \E c \in Clients :
    \/ RequestWrites(c)
    \/ \E i \in Items : \/ ReadAvailable(c, i) \/ ReadFailed(c, i) \/ ReadDownloading(c, i)
                        \/ ReadMedium(c, i) \/ AdminAborts(c, i)
    \/ \E i \in Items, d \in Dirs : ScanFinds(c, i, d)

----------------------------------------------------------------------------
(* DownloadChangesThread.                                                  *)

EraseOf(i, d, final) == [item |-> i, dir |-> d, final |-> final]

\* Before the feed opens, whatever was Downloading is reset: there is no
\* thread for it, so that it becomes DownloadFailed, and its file is erased.
\* The feed begins with the rows there are.
ChangesBegin ==
    /\ changes = "closed" /\ online
    /\ \E dir \in [Items -> Dirs] :
         LET reset == {i \in Items : row[i].status = "Downloading"}
             rows == [i \in Items |-> IF i \in reset THEN [row[i] EXCEPT !.status = "DownloadFailed"]
                                      ELSE row[i]]
             seen == {i \in Items : Seen(i, rows[i].status) # "none"}
         IN /\ row' = rows
            /\ erasing' = erasing \o
                 SetToSeq({EraseOf(i, dir[i], "DownloadFailed") : i \in reset})
            /\ feed' = SetToSeq({[item |-> i, old |-> "none", new |-> rows[i].status] : i \in seen})
    /\ changes' = "open"
    /\ UNCHANGED <<current, thread, curl, file, online, client, ops, faults>>

\* Mutant: a download that failed is not tried again.
StartsNew(c) == c.new = "DownloadStarting" /\ c.old = "none"
Starts(c) == c.new = "DownloadStarting" /\ c.old \in {"none", "DownloadFailed"}
Aborts(c) == c.old = "Downloading" /\ c.new \in {"DownloadAborting", "ResetDownloading"}
Erases(c) == c.item \in Media /\ c.old = "Downloaded" /\ c.new = "Deleting"
Drops(c) == c.item \in Media /\ <<c.old, c.new>> \in {<<"Deleting", "Deleted">>, <<"DownloadFailed", "Deleting">>}
Forgets(c) == c.old = "DownloadAborting" /\ c.new = "none"

OutcomeOf(c) == IF c.new = "ResetDownloading" THEN "DownloadFailed" ELSE "Deleted"

Handle(c) == changes = "open" /\ feed # <<>> /\ Head(feed) = c
changesVars == <<curl, file, online, client, ops>>

\* An earlier thread for the file is forgotten, and a new one starts.
StartDownload(c) ==
    /\ Handle(c) /\ Starts(c)
    /\ \E d \in Dirs, n \in Numbers :
         /\ thread[n].pc = "none" /\ \A m \in Numbers : m < n => thread[m].pc # "none"
         /\ thread' = [thread EXCEPT ![n] = [item |-> c.item, dir |-> d, pc |-> "waiting", stop |-> FALSE]]
         /\ current' = [current EXCEPT ![<<c.item, d>>] = n]
    /\ feed' = Tail(feed)
    /\ UNCHANGED <<row, changes, erasing, faults>> /\ UNCHANGED changesVars

\* Without a registration nothing is downloaded, and nothing is written.
StartUnregistered(c) ==
    /\ Handle(c) /\ Starts(c) /\ Fault("unregistered")
    /\ feed' = Tail(feed)
    /\ UNCHANGED <<row, changes, current, thread, erasing>> /\ UNCHANGED changesVars

\* abort_download: the directory is chosen anew.
AbortDownload(c) ==
    /\ Handle(c) /\ Aborts(c)
    /\ \E d \in Dirs :
         LET n == current[<<c.item, d>>]
             fails == n = NoThread /\ row[c.item].status # "none"
         IN /\ thread' = IF n = NoThread THEN thread ELSE [thread EXCEPT ![n].stop = TRUE]
            /\ row' = IF fails THEN [row EXCEPT ![c.item].status = "DownloadFailed"] ELSE row
            /\ feed' = Tail(feed) \o (IF fails THEN ChangesOf(c.item, <<"DownloadFailed">>) ELSE <<>>)
            /\ erasing' = IF online THEN Append(erasing, EraseOf(c.item, d, OutcomeOf(c))) ELSE erasing
    /\ UNCHANGED <<changes, current, faults>> /\ UNCHANGED changesVars

\* delete_media: an exception ends the thread when the row or its path is
\* missing, or no hypervisor is Online.
DeleteMedium(c) ==
    /\ Handle(c) /\ Erases(c)
    /\ IF online /\ row[c.item].dir # NoDir
       THEN erasing' = Append(erasing, EraseOf(c.item, row[c.item].dir, "Deleted")) /\ changes' = changes
       ELSE erasing' = erasing /\ changes' = "dead"
    /\ feed' = Tail(feed)
    /\ UNCHANGED <<row, current, thread, faults>> /\ UNCHANGED changesVars

RemoveMedium(c) ==
    /\ Handle(c) /\ Drops(c)
    /\ row' = [row EXCEPT ![c.item] = [status |-> "none", dir |-> NoDir]]
    /\ feed' = Tail(feed) \o ChangesOf(c.item, <<"none">>)
    /\ UNCHANGED <<changes, current, thread, erasing, faults>> /\ UNCHANGED changesVars

RemoveDownloadThread(c) ==
    /\ Handle(c) /\ Forgets(c)
    /\ \E d \in Dirs : current' = [current EXCEPT ![<<c.item, d>>] = NoThread]
    /\ feed' = Tail(feed)
    /\ UNCHANGED <<row, changes, thread, erasing, faults>> /\ UNCHANGED changesVars

IgnoreChange(c) ==
    /\ Handle(c)
    /\ ~Starts(c) /\ ~Aborts(c) /\ ~Erases(c) /\ ~Drops(c) /\ ~Forgets(c)
    /\ feed' = Tail(feed)
    /\ UNCHANGED <<row, changes, current, thread, erasing, faults>> /\ UNCHANGED changesVars

HandleChange == feed # <<>> /\ LET c == Head(feed) IN
    \/ StartDownload(c) \/ AbortDownload(c) \/ DeleteMedium(c) \/ RemoveMedium(c)
    \/ RemoveDownloadThread(c) \/ IgnoreChange(c)

----------------------------------------------------------------------------
(* DownloadThread n.                                                       *)

At(n, pc) == thread[n].pc = pc
Goes(n, pc) == thread' = [thread EXCEPT ![n].pc = pc]
FileOf(n) == <<thread[n].item, thread[n].dir>>
threadVars == <<changes, current, file, erasing, online, client, ops>>

FindsHypervisor(n) ==
    /\ At(n, "waiting") /\ Goes(n, "testing")
    /\ UNCHANGED <<row, feed, curl, faults>> /\ UNCHANGED threadVars

\* No thread for operations on disks came up in 10 seconds.
FindsNoHypervisor(n) ==
    /\ At(n, "waiting") /\ Fault("no_disk_hyp")
    /\ Updates(thread[n].item, "DownloadFailed")
    /\ Goes(n, "done")
    /\ UNCHANGED curl /\ UNCHANGED threadVars

UrlFails(n) ==
    /\ At(n, "testing") /\ Fault("url")
    /\ Updates(thread[n].item, "DownloadFailed")
    /\ Goes(n, "done")
    /\ UNCHANGED curl /\ UNCHANGED threadVars

OpensCurl(n) ==
    /\ At(n, "testing") /\ Goes(n, "opened")
    /\ curl' = [curl EXCEPT ![n] = "runs"]
    /\ UNCHANGED <<row, feed, faults>> /\ UNCHANGED threadVars

WritesDownloading(n) ==
    /\ At(n, "opened") /\ Goes(n, "loop")
    /\ Updates(thread[n].item, "Downloading")
    /\ UNCHANGED <<curl, faults>> /\ UNCHANGED threadVars

\* Mutant: curl is not killed.
StopsWithoutKill(n) ==
    /\ At(n, "loop") /\ thread[n].stop
    /\ Removes(thread[n].item)
    /\ Goes(n, "done")
    /\ UNCHANGED <<curl, faults>> /\ UNCHANGED threadVars

\* The loop sees stop: curl and ssh are killed and the row is removed.
StopsDownload(n) ==
    /\ At(n, "loop") /\ thread[n].stop
    /\ curl' = [curl EXCEPT ![n] = IF @ \in CurlAlive THEN "killed" ELSE @]
    /\ Removes(thread[n].item)
    /\ Goes(n, "done")
    /\ UNCHANGED faults /\ UNCHANGED threadVars

\* The command that kills curl takes more than 5 seconds: an exception.
CannotKill(n) ==
    /\ At(n, "loop") /\ thread[n].stop /\ Fault("kill")
    /\ Goes(n, "done")
    /\ UNCHANGED <<row, feed, curl>> /\ UNCHANGED threadVars

\* The output of curl ended before stop was seen.
SeesEnd(n) ==
    /\ At(n, "loop") /\ ~thread[n].stop /\ curl[n] \notin CurlAlive
    /\ Goes(n, "ended")
    /\ UNCHANGED <<row, feed, curl, faults>> /\ UNCHANGED threadVars

\* Told to stop between the last character and the end: nothing is written.
EndsStopped(n) ==
    /\ At(n, "ended") /\ thread[n].stop
    /\ Goes(n, "done")
    /\ UNCHANGED <<row, feed, curl, faults>> /\ UNCHANGED threadVars

\* At the end of the output rc is what poll() answers, which is None when ssh
\* has not ended yet: None is not 0, so that a download curl completed may be
\* told as failed too.
EndsFailed(n) ==
    /\ At(n, "ended") /\ ~thread[n].stop
    /\ Updates(thread[n].item, "DownloadFailed")
    /\ Goes(n, "done")
    /\ UNCHANGED <<curl, faults>> /\ UNCHANGED threadVars

\* The path is recorded first; for a desktop whose row is gone this raises.
WritesPath(n) ==
    /\ At(n, "ended") /\ ~thread[n].stop /\ curl[n] = "ok"
    /\ LET gone == row[thread[n].item].status = "none" IN
       /\ row' = IF gone THEN row ELSE [row EXCEPT ![thread[n].item].dir = thread[n].dir]
       /\ Goes(n, IF gone /\ thread[n].item \in Disks THEN "done" ELSE "named")
    /\ UNCHANGED <<feed, curl, faults>> /\ UNCHANGED threadVars

WritesDownloaded(n) ==
    /\ At(n, "named") /\ Goes(n, "done")
    /\ IF row[thread[n].item].status = "none" THEN UNCHANGED <<row, feed>>
       ELSE Writes(thread[n].item, IF thread[n].item \in Media THEN <<"Downloaded">>
                                   ELSE <<"Downloaded", "Updating">>)
    /\ UNCHANGED <<curl, faults>> /\ UNCHANGED threadVars

ThreadNext(n) ==
    \/ FindsHypervisor(n) \/ OpensCurl(n) \/ WritesDownloading(n) \/ StopsDownload(n) \/ SeesEnd(n)
    \/ EndsStopped(n) \/ EndsFailed(n) \/ WritesPath(n) \/ WritesDownloaded(n)

----------------------------------------------------------------------------
(* curl, the workers and the hypervisors.                                  *)

outsideVars == <<row, feed, changes, current, thread, client, ops>>

\* curl creates the file, or truncates the one there is.
CurlCreates(n) ==
    /\ curl[n] = "runs"
    /\ curl' = [curl EXCEPT ![n] = "writes"]
    /\ file' = [file EXCEPT ![FileOf(n)] = "partial"]
    /\ UNCHANGED <<erasing, online, faults>> /\ UNCHANGED outsideVars

\* A file that was erased while curl wrote it does not come back.
CurlEnds(n) ==
    /\ curl[n] = "writes"
    /\ curl' = [curl EXCEPT ![n] = "ok"]
    /\ file' = [file EXCEPT ![FileOf(n)] = IF @ = "partial" THEN "full" ELSE @]
    /\ UNCHANGED <<erasing, online, faults>> /\ UNCHANGED outsideVars

CurlFails(n) ==
    /\ curl[n] \in CurlAlive /\ Fault("curl")
    /\ curl' = [curl EXCEPT ![n] = "failed"]
    /\ UNCHANGED <<file, erasing, online>> /\ UNCHANGED outsideVars

\* The rows that name the file take the outcome.  Erasing what is not there
\* fails: its first command complains.
Erased(e, ok) ==
    LET named == {i \in {e.item} \cap Media : row[i].dir = e.dir /\ row[i].status # "none"}
        status == IF ok THEN e.final ELSE "FailedDeleted"
    IN IF named = {} \/ row[e.item].status = status THEN UNCHANGED <<row, feed>>
       ELSE Writes(e.item, <<status>>)

\* Mutant: the outcome of the commands is not looked at.
WorkerErasesBlindly ==
    /\ erasing # <<>>
    /\ LET e == Head(erasing) IN
       /\ Erased(e, TRUE)
       /\ file' = file
    /\ erasing' = Tail(erasing)
    /\ UNCHANGED <<changes, current, thread, curl, online, client, ops, faults>>

WorkerErases ==
    /\ erasing # <<>>
    /\ LET e == Head(erasing) IN
       /\ Erased(e, file[<<e.item, e.dir>>] # "no")
       /\ file' = [file EXCEPT ![<<e.item, e.dir>>] = "no"]
    /\ erasing' = Tail(erasing)
    /\ UNCHANGED <<changes, current, thread, curl, online, client, ops, faults>>

WorkerCannotErase ==
    /\ erasing # <<>> /\ Fault("rm")
    /\ Erased(Head(erasing), FALSE)
    /\ erasing' = Tail(erasing)
    /\ UNCHANGED <<changes, current, thread, curl, file, online, client, ops>>

HypervisorsLeave ==
    /\ online /\ Fault("offline")
    /\ online' = FALSE
    /\ UNCHANGED <<curl, file, erasing>> /\ UNCHANGED outsideVars

HypervisorsReturn ==
    /\ ~online
    /\ online' = TRUE
    /\ UNCHANGED <<curl, file, erasing, faults>> /\ UNCHANGED outsideVars

\* The threads, the queues and the changefeed end with the engine, and the
\* ssh commands with it; a worker that connects kills what curl is left.
EngineRestarts ==
    /\ Fault("restart")
    /\ feed' = <<>> /\ changes' = "closed" /\ erasing' = <<>>
    /\ current' = [f \in Files |-> NoThread]
    /\ thread' = [n \in Numbers |-> IF thread[n].pc \in Alive THEN [thread[n] EXCEPT !.pc = "done"] ELSE thread[n]]
    /\ curl' = [n \in Numbers |-> IF curl[n] \in CurlAlive THEN "killed" ELSE curl[n]]
    /\ UNCHANGED <<row, file, online, client, ops>>

Next ==
    \/ RequestNext \/ ChangesBegin \/ HandleChange
    \/ feed # <<>> /\ StartUnregistered(Head(feed))
    \/ \E n \in Threads : ThreadNext(n) \/ FindsNoHypervisor(n) \/ UrlFails(n) \/ CannotKill(n)
    \/ \E n \in Numbers : CurlCreates(n) \/ CurlEnds(n) \/ CurlFails(n)
    \/ WorkerErases \/ WorkerCannotErase \/ HypervisorsLeave \/ HypervisorsReturn \/ EngineRestarts

Spec == Init /\ [][Next]_vars

----------------------------------------------------------------------------
(* Properties.                                                             *)

\* A medium that is Downloaded has its whole file where the row says
\* (DownloadThread.run, launch_delete_media).
DownloadedHasFile ==
    \A i \in Media : row[i].status = "Downloaded" => row[i].dir # NoDir /\ file[<<i, row[i].dir>>] = "full"

\* Two curls never write one file: start_download forgets a thread that may
\* still run.
OneWriter ==
    \A m, n \in Numbers : m # n /\ curl[m] \in CurlAlive /\ curl[n] \in CurlAlive => FileOf(m) # FileOf(n)

\* No exception ends DownloadChangesThread, which nobody starts again.
ChangesAreFollowed == changes # "dead"

\* A medium whose path is recorded leaves the table only when the file there
\* was erased (launch_delete_media).  The file of a download that was told as
\* failed has no path in the table, and is left behind, full as it may be.
RemovesWithoutFile ==
    \A i \in Media :
        row[i].dir # NoDir /\ row'[i].status = "none" => file'[<<i, row[i].dir>>] # "full"
=============================================================================
