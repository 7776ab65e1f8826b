------------------------------ MODULE MCInitdb ------------------------------
(***************************************************************************)
(* Instances of Initdb for TLC, each for the properties that hold under    *)
(* what it lets happen.  One is chosen at the start.                       *)
(***************************************************************************)
EXTENDS Naturals

VARIABLES pc, todo, at, made, old, db, api, web, crashes, fails, scenario
vars == <<pc, todo, at, made, old, db, api, web, crashes, fails, scenario>>

Scenarios == [
    \* From every version, and from no database at all (25).
    upgrades |-> [starts |-> 0 .. 25, missing |-> {"remotevpn"}, crashes |-> 0, fails |-> 0],
    \* The first start is interrupted, or refused a write.
    fresh    |-> [starts |-> {25}, missing |-> {}, crashes |-> 1, fails |-> 0],
    denied   |-> [starts |-> {25}, missing |-> {}, crashes |-> 0, fails |-> 1],
    \* So is an upgrade.
    crashes  |-> [starts |-> {0, 13, 20}, missing |-> {"remotevpn"}, crashes |-> 1, fails |-> 0],
    refused  |-> [starts |-> {0, 13, 20}, missing |-> {"remotevpn"}, crashes |-> 0, fails |-> 1],
    \* Upgrades that can be done again, interrupted twice.
    again    |-> [starts |-> {21, 22, 23}, missing |-> {}, crashes |-> 2, fails |-> 1]]

In(s) == INSTANCE Initdb WITH
    MainHyp <- "isard-hypervisor", Hyps <- {"isard-hypervisor", "h2"}, Doms <- {"d1", "t1"}, Templates <- {"t1"},
    Tagged <- {"d1"}, Deps <- {"dep1"}, DepOf <- [d \in {"d1"} |-> "dep1"], Texts <- {"t1"},
    Admin <- "local-default-admin-admin",
    OtherUser <- "u1", AdminGone <- FALSE, Starts <- Scenarios[s].starts, Missing <- Scenarios[s].missing,
    MaxCrashes <- Scenarios[s].crashes, MaxFails <- Scenarios[s].fails

ASSUME \A s \in DOMAIN Scenarios : In(s)!Assumption

Init == \E s \in DOMAIN Scenarios : scenario = s /\ In(s)!Init
Next == \E s \in DOMAIN Scenarios : scenario = s /\ In(s)!Next /\ UNCHANGED scenario
Spec == Init /\ [][Next]_vars

\* start.py goes on, and docker starts again what ended.
Comes == {"upgrades", "again"}
FairSpec ==
    /\ Spec
    /\ WF_vars(\E s \in Comes : scenario = s /\ In(s)!StartSteps /\ UNCHANGED scenario)
    /\ WF_vars(\E s \in Comes : scenario = s /\ In(s)!ApiLooks /\ UNCHANGED scenario)
    /\ WF_vars(\E s \in Comes : scenario = s /\ In(s)!ApiRestarts /\ UNCHANGED scenario)
    /\ WF_vars(\E s \in Comes : scenario = s /\ In(s)!WebLooks /\ UNCHANGED scenario)
    /\ WF_vars(\E s \in Comes : scenario = s /\ In(s)!WebRestarts /\ UNCHANGED scenario)

\* What the writes and the database are made of.
TypeOK == \A s \in DOMAIN Scenarios : scenario = s => In(s)!TypeOK

\* Each property of the module, where it holds.
UpgradedWhole == scenario = "upgrades" => In("upgrades")!UpgradedWhole
ConfigComesLast == \A s \in {"fresh", "denied"} : scenario = s => In(s)!ConfigComesLast
ApiFindsSecrets == \A s \in {"fresh", "denied"} : scenario = s => In(s)!ApiFindsSecrets
RepairedAtNextStart == \A s \in {"crashes", "refused"} : scenario = s => In(s)!RepairedAtNextStart

\* What every release was to change is there, also what an interrupted or
\* refused upgrade left half done.
TablesAreWhole == TypeOK /\ UpgradedWhole /\ RepairedAtNextStart

\* The services that wait for one table find the others.
ServicesFindTables == ConfigComesLast /\ ApiFindsSecrets

\* The engine starts in the end, an upgrade that is interrupted can be done
\* again, and the API and the webapp find what they wait for.
ComesUp == <>[](scenario \in Comes => pc = "up" /\ api = "serves" /\ web = "serves")
=============================================================================
