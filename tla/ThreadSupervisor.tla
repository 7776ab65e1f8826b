------------------------- MODULE ThreadSupervisor -------------------------
(***************************************************************************)
(* What the orchestrator promises to the rest of the engine about the      *)
(* threads of the hypervisors: a slot (a kind of thread of a hypervisor)   *)
(* holds one thread at most, the slot of a thread that reported its death  *)
(* is emptied, and only an empty slot is filled.  A thread that an         *)
(* exception ended reports nothing, and its slot stays occupied until the  *)
(* next engine.                                                            *)
(***************************************************************************)
CONSTANT Keys       \* the slots

VARIABLE slot       \* what each slot holds

Init == slot = [k \in Keys |-> "empty"]

Move(K, from, to) ==
    /\ \A k \in K : slot[k] = from
    /\ slot' = [k \in Keys |-> IF k \in K THEN to ELSE slot[k]]

\* All the threads a hypervisor needs are launched at once, and one poll
\* looks at every hypervisor.
Launch == \E K \in SUBSET Keys : Move(K, "empty", "running")
Report == \E k \in Keys : Move({k}, "running", "reported")
Lose == \E k \in Keys : Move({k}, "running", "lost")
Collect == \E k \in Keys : Move({k}, "reported", "empty")
NewEngine == slot' = [k \in Keys |-> "empty"]

Next == Launch \/ Report \/ Lose \/ Collect \/ NewEngine

Spec == Init /\ [][Next]_slot
=============================================================================
