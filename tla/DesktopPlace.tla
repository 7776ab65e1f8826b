---------------------------- MODULE DesktopPlace ----------------------------
(***************************************************************************)
(* What the life cycle of desktops promises about the hypervisors: a       *)
(* desktop runs on one hypervisor at most, and its disk is erased when it  *)
(* runs nowhere, after which it never runs again.                          *)
(***************************************************************************)
CONSTANTS Desktops, Hyps

VARIABLES
    at,     \* the hypervisors each desktop runs on
    erased  \* desktops whose disk was erased

vars == <<at, erased>>

Init ==
    /\ at = [d \in Desktops |-> {}]
    /\ erased = {}

Starts(d, h) ==
    /\ at[d] = {} /\ d \notin erased
    /\ at' = [at EXCEPT ![d] = {h}]
    /\ UNCHANGED erased

\* One desktop ends, or all those of a hypervisor.
End(D) ==
    /\ at' = [d \in Desktops |-> IF d \in D THEN {} ELSE at[d]]
    /\ UNCHANGED erased

Erase(d) ==
    /\ at[d] = {}
    /\ erased' = erased \cup {d}
    /\ UNCHANGED at

Next ==
    \/ \E d \in Desktops : Erase(d) \/ \E h \in Hyps : Starts(d, h)
    \/ \E D \in SUBSET Desktops : End(D)

Spec == Init /\ [][Next]_vars
=============================================================================
