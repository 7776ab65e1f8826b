--------------------------- MODULE HypervisorRow ---------------------------
(***************************************************************************)
(* The row of one hypervisor in the table "hypervisors", and the functions *)
(* of the engine that rewrite it.  A row is a value, so everything here is *)
(* an operator on rows: the state machine that owns the table is           *)
(* Orchestrator.tla.                                                       *)
(*                                                                         *)
(* Only the fields the engine decides on are kept: enabled, status and the *)
(* status of the three kinds of thread.  status_time, detail, prev_status, *)
(* uri, viewer and info are written but never read back by these functions.*)
(***************************************************************************)

\* The kinds of thread the engine runs for a hypervisor; the keys of the
\* field thread_status.
Kinds == {"worker", "disk_operations", "long_operations"}

\* "none" is a key that is missing in thread_status: a row that was inserted
\* while the engine was running has no thread_status at all.
ThreadStatus == {"none", "Stopped", "Starting", "Started", "Stopping"}

HypStatus == {"Offline", "Error", "Deleting", "Online"}

HypRow == [present: BOOLEAN, enabled: BOOLEAN, status: HypStatus,
           ts: [Kinds -> ThreadStatus]]

\* The value of rtable.get(id) for an id that is not in the table.
NoRow == [present |-> FALSE, enabled |-> FALSE, status |-> "Offline",
          ts |-> [k \in Kinds |-> "none"]]

\* The threads a hypervisor with these capabilities must have.  The API
\* always writes both capabilities as booleans, so the tests "is True" and
\* "is False" of the code are complementary.
KindsOf(caps) ==
    (IF "hypervisor" \in caps THEN {"worker"} ELSE {}) \cup
    (IF "disk_operations" \in caps
        THEN {"disk_operations", "long_operations"} ELSE {})

\* Mutant: a status that is not one of the defined ones gets through.
UpdateHypStatusField(row, status) == [row EXCEPT !.status = "TryConnection"]

\* update_hyp_status.  It overwrites whatever status the row had.
UpdateHypStatus(row, status) == [row EXCEPT !.status = status]

\* update_hyp_thread_status for the status "Started": the hypervisor becomes
\* Online when this was the last of its threads to start.
ThreadStarted(row, caps, k) ==
    LET started == [row EXCEPT !.ts[k] = "Started"]
    IN  IF \A j \in KindsOf(caps) : started.ts[j] = "Started"
           THEN UpdateHypStatus(started, "Online")
           ELSE started

\* Mutant: the first thread of a hypervisor in Deleting that ends removes it.
ThreadNotStartedRemoves(row, caps, k, s) ==
    LET updated == [row EXCEPT !.ts[k] = s]
    IN  IF row.status = "Online" THEN UpdateHypStatus(updated, "Offline")
        ELSE IF row.status = "Deleting" THEN NoRow ELSE updated

\* Mutant: the status of the thread is not written.
ThreadNotStartedForgets(row, caps, k, s) ==
    IF row.status = "Online" THEN UpdateHypStatus(row, "Offline") ELSE row

\* Mutant: an Online hypervisor stays Online.
ThreadNotStartedStaysOnline(row, caps, k, s) == [row EXCEPT !.ts[k] = s]

\* update_hyp_thread_status for any other status: an Online hypervisor goes
\* Offline, and a hypervisor in Deleting is removed from the table when this
\* was the last of its threads to stop.
ThreadNotStarted(row, caps, k, s) ==
    LET updated == [row EXCEPT !.ts[k] = s]
    IN  IF row.status = "Online" THEN UpdateHypStatus(updated, "Offline")
        ELSE IF row.status = "Deleting" /\ \A j \in KindsOf(caps) : updated.ts[j] = "Stopped"
        THEN NoRow
        ELSE updated

\* What Engine.__init__ leaves of a row: hypervisors in Deleting are removed,
\* the others are Offline with all their threads Stopped.
RowAfterEngineStart(row) ==
    IF ~row.present \/ row.status = "Deleting" THEN NoRow
    ELSE [row EXCEPT !.status = "Offline", !.ts = [k \in Kinds |-> "Stopped"]]

\* The test of check_hyps_from_database and of start_hyper_threads.
StartableOffline(row) == row.status = "Offline"    \* mutant: Error is forgotten
Startable(row) == row.status \in {"Error", "Offline"}

\* thread_status.get(k, "Stopped") == "Stopped", the test of start_hyper_threads
MayLaunch(ts, k) == ts[k] \in {"none", "Stopped"}
=============================================================================
