------------------------------- MODULE MCTrust ------------------------------
(***************************************************************************)
(* The trust plane for TLC.  `health`, the constants of the cfg: the epoch *)
(* poller alone; `push`: two keys in a cache of one, with flushes;         *)
(* `removed`: two threads and an edit of the file; `stale`: a file that    *)
(* cannot be read, a panic, a drop; `live`: what must eventually be;       *)
(* `anchors`: the trust anchors of two clients that share the directory of *)
(* their rollback floor.                                                   *)
(***************************************************************************)
EXTENDS TrustPlane, ClientAnchors, TLC

CONSTANTS k1, k2, t1, t2, a, b

VARIABLE scene

(* The second version retires the root, the third revokes it.              *)
ThreeExpire == <<1, 1, 2>>
ThirdRevokes == <<FALSE, FALSE, TRUE>>
SecondRetires == <<Unset, 0, Unset>>

Push == INSTANCE TrustPlane WITH
          Keys <- {k1, k2}, Threads <- {t1, t2}, Poll <- 1, ReadBudget <- 1, MaxAdvances <- 1,
          Faults <- {}
Removed == INSTANCE TrustPlane WITH
             Threads <- {t1, t2}, Poll <- 0, ReadBudget <- 0, MaxEdits <- 1, MaxAdvances <- 0,
             Faults <- {}
Stale == INSTANCE TrustPlane WITH
           Threads <- {t1}, Poll <- 0, ReadBudget <- 0, MaxEdits <- 1, MaxAdvances <- 0,
           Faults <- {"file", "drop", "panic"}
Live == INSTANCE TrustPlane WITH
          Threads <- {t1}, Poll <- 0, ReadBudget <- 0, MaxAdvances <- 0,
          Faults <- {"file", "drop"}

ASSUME /\ Push!TrustAssumption /\ Removed!TrustAssumption /\ Stale!TrustAssumption
       /\ Live!TrustAssumption

PlaneOnly == UNCHANGED <<scene, anchorVars>>
SceneVars == <<vars, scene, anchorVars>>

AnchorsIdle == AnchorInit /\ manifest = 1

SceneInit ==
  \/ /\ AnchorsIdle
     /\ \/ scene = "health" /\ Init
        \/ scene = "push" /\ Push!Init
        \/ scene = "removed" /\ Removed!Init
        \/ scene = "stale" /\ Stale!Init
        \/ scene = "live" /\ Live!Init
  \/ scene = "anchors" /\ AnchorInit /\ Init

SceneNext ==
  \/ /\ \/ scene = "health" /\ Next
        \/ scene = "push" /\ Push!Next
        \/ scene = "removed" /\ Removed!Next
        \/ scene = "stale" /\ Stale!Next
        \/ scene = "live" /\ Live!Next
     /\ PlaneOnly
  \/ scene = "anchors" /\ AnchorNext /\ UNCHANGED <<vars, scene>>

(* The reload worker and time are scheduled.                               *)
SceneSpec ==
  /\ SceneInit /\ [][SceneNext]_SceneVars
  /\ WF_SceneVars(scene = "live" /\ Live!Reloader /\ PlaneOnly)
  /\ WF_SceneVars(scene = "live" /\ Live!Tick /\ PlaneOnly)
  /\ WF_SceneVars(/\ scene = "live" /\ PlaneOnly
                  /\ Live!Clear(t1) \/ Live!Lookup(t1) \/ Live!Inner(t1) \/ Live!Store(t1))

(* Failing closed is not for ever: after the budget was spent verification *)
(* serves again once the file can be read for good, unless the plane is    *)
(* gone.  (mark_fresh against mark_stale_permanently)                      *)
VerificationComesBack == scene = "live" => Live!ComesBack
=============================================================================
