-------------------------- MODULE MCOrchestrator --------------------------
(* Instances of Orchestrator for TLC. *)
EXTENDS Orchestrator, TLC

CONSTANTS h1, h2

Both == {"hypervisor", "disk_operations"}

CapsBoth == [h \in Hyps |-> Both]
=============================================================================
