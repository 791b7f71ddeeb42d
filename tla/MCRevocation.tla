---------------------------- MODULE MCRevocation ----------------------------
(***************************************************************************)
(* Client revocation for TLC.  `chain`: a leaf under an intermediate, the  *)
(* root's list covering the intermediate and the intermediate's the leaf;  *)
(* `split`: one issuer whose list is split over two files; `live`: the     *)
(* same without connections, and what must eventually be.                  *)
(***************************************************************************)
EXTENDS ClientRevocation, TLC

CONSTANTS p1, p2, leaf, sub

VARIABLE scene

ChainPaths == p1 :> "root" @@ p2 :> "sub"
ChainOf == leaf :> <<leaf, sub>>
ChainIssuer == leaf :> "sub" @@ sub :> "root"
ChainFrom == leaf :> 0 @@ sub :> 0
ChainUntil == leaf :> 3 @@ sub :> 9

Split(conns, horizon) == INSTANCE ClientRevocation WITH
  IssuerAt <- p1 :> "root" @@ p2 :> "root", Chain <- leaf :> <<leaf>>,
  IssuerOf <- leaf :> "root", NotBefore <- leaf :> 0, NotAfter <- leaf :> 3,
  Ceiling <- Unset, Conns <- conns, MaxTime <- horizon

SceneInit ==
  \/ scene = "chain" /\ Init
  \/ scene = "split" /\ Split(Conns, 3)!Init
  \/ scene = "live" /\ Split({}, 3)!Init

SceneNext ==
  /\ \/ scene = "chain" /\ Next
     \/ scene = "split" /\ Split(Conns, 3)!Next
     \/ scene = "live" /\ Split({}, 3)!Next
  /\ UNCHANGED scene

SceneVars == <<vars, scene>>

(* The worker's thread is scheduled and its reads return.                  *)
SceneSpec ==
  /\ SceneInit /\ [][SceneNext]_SceneVars
  /\ WF_SceneVars(scene = "live" /\ Split({}, 3)!Work /\ UNCHANGED scene)

(* A listed certificate stops being admitted, or the operator is told that *)
(* the lists are not being kept up.  (ClientRevocationCurrency)            *)
RevocationArrives == scene = "live" => Split({}, 3)!ListedIsRefused
=============================================================================
