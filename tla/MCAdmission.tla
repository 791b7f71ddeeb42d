----------------------------- MODULE MCAdmission -----------------------------
(***************************************************************************)
(* The admission gate for TLC.  `outage`: failing lookups, a stepped wall  *)
(* clock and a restart; `order`: three lookups that end in every order;    *)
(* `revoked`: one call, a store that goes back, clocks that disagree;      *)
(* `rollback`: three calls race the verifier's two locks.                  *)
(***************************************************************************)
EXTENDS Admission, TLC

CONSTANTS r1, r2, r3

VARIABLE scene

Outage == INSTANCE Admission WITH
            Requests <- {r1, r2}, AllowDegraded <- TRUE, Required <- TRUE, MaxAge <- 4,
            AssertionAge <- 4, Offsets <- {0, 3}, Behind <- 0, Faults <- {"step"},
            Presents <- {"bare", "unsound", "fresh", "stale"}, MaxClock <- 3, MaxRevision <- 1
Order == INSTANCE Admission WITH
           Requests <- {r1, r2, r3}, AllowDegraded <- TRUE, Required <- TRUE,
           Offsets <- {0}, Behind <- 0, Faults <- {}, MaxClock <- 4, MaxRevision <- 0,
           MaxRestarts <- 0
Rollback == INSTANCE Admission WITH
              Requests <- {r1, r2, r3}, MaxAge <- 1, Offsets <- {0}, Behind <- 0,
              Faults <- {"substrate"}, MaxClock <- 1, MaxRevision <- 2, MaxRestarts <- 0

ASSUME Outage!AdmissionAssumption /\ Order!AdmissionAssumption /\ Rollback!AdmissionAssumption

SceneInit ==
  \/ scene = "outage" /\ Outage!Init
  \/ scene = "order" /\ Order!Init
  \/ scene = "revoked" /\ Init
  \/ scene = "rollback" /\ Rollback!Init

SceneNext ==
  /\ \/ scene = "outage" /\ Outage!Next
     \/ scene = "order" /\ Order!Next
     \/ scene = "revoked" /\ Next
     \/ scene = "rollback" /\ Rollback!Next
  /\ UNCHANGED scene

SceneVars == <<vars, scene>>

SceneSpec == SceneInit /\ [][SceneNext]_SceneVars

(* The first two tasks run in the same scenes, by the same code.           *)
Interchangeable == Permutations({r1, r2})

(* Every scene's state has its type.                                       *)
TypesOK ==
  CASE scene = "outage" -> Outage!TypeOK
    [] scene = "order" -> Order!TypeOK
    [] scene = "revoked" -> TypeOK
    [] scene = "rollback" -> Rollback!TypeOK

(* The degraded window is not cut short: a call whose evidence is good is  *)
(* refused for an outage only when no lookup this process saw answered had *)
(* begun within P, in whatever order the answers came back.                *)
(* (DegradedWindow::record_read, exhausted)                                *)
WindowNotCutShort ==
  /\ []TypesOK
  /\ [][scene = "order" => Order!DegradedEntitledStep]_SceneVars
=============================================================================
