------------------------------- MODULE MCReply ------------------------------
(***************************************************************************)
(* What a reply rests on, for TLC: the dispatch to a backend of the inner  *)
(* plane, the record kept of it, and the key it is signed with.            *)
(* The three share no state: each scene runs one of them.                  *)
(*                                                                         *)
(* RetentionStore.  `crash`: two exchanges under two permits share a       *)
(* batch; `queue`: the same, a job to a batch, and no client leaves;       *)
(* `writer`: two compete for one permit, for what must eventually happen.  *)
(*                                                                         *)
(* DelegatedSigning.  `rotation`: no fault but outages, for what must      *)
(* eventually be (its safety is checked in MCSigner).                      *)
(*                                                                         *)
(* InnerPool.  `pool`: two backends, one failure ejects; `revival`: one    *)
(* backend that is to come back.                                           *)
(***************************************************************************)
EXTENDS InnerPool, RetentionStore

CONSTANTS x1, x2, d1, d2

VARIABLES
  scene,
  counter, seen_max, rootUp, outages, upFor, downFor, active, cfg_epoch, hold, snapshot, pc,
  timer, root_call, high_water, last_label, failures, halted, ex

signingVars == <<counter, seen_max, rootUp, outages, upFor, downFor, active, cfg_epoch, hold,
                 snapshot, pc, timer, root_call, high_water, last_label, failures, halted, ex>>

Singly == INSTANCE RetentionStore WITH MAX_WRITE_BATCH <- 1, MayCancel <- FALSE
Contended == INSTANCE RetentionStore WITH MAX_RESERVATIONS <- 1

Rotation == INSTANCE DelegatedSigning WITH
  ttl <- 5, overlap <- 3, ISSUANCE_ATTEMPTS_PER_OVERLAP <- 2, MIN_ISSUANCE_RETRY_SECS <- 1,
  ROTATION_BACKOFF_BASE_MS <- 2, ROTATION_BACKOFF_MAX_MS <- 4, ROTATION_BACKOFF_MIN_MS <- 2,
  Watch <- TRUE, MaxEpoch <- 2, MaxOutages <- 2, MaxCall <- 1, MaxAge <- 0, MaxPre <- 1,
  Faults <- {}, Exchange <- {1}, sig_ttl_secs <- 0, completion_bound <- 1

Pool == INSTANCE InnerPool WITH Backends <- 2, request_timeout <- 0, MaxFaults <- 1

ASSUME /\ Singly!RetentionAssumption /\ Contended!RetentionAssumption
       /\ Rotation!SigningAssumption /\ Pool!PoolAssumption

-----------------------------------------------------------------------------
SceneInit ==
  /\ scene \in {"crash", "queue", "writer", "rotation", "pool", "revival"}
  /\ Init /\ Rotation!SigningInit
  /\ IF scene = "pool" THEN Pool!PoolInit ELSE PoolInit

SceneVars == <<scene, vars, signingVars, poolVars>>

Retaining == UNCHANGED <<scene, signingVars, poolVars>>
InSigning == UNCHANGED <<scene, vars, poolVars>>
Inner     == UNCHANGED <<scene, vars, signingVars>>

SceneNext ==
  \/ scene = "crash"    /\ Next           /\ Retaining
  \/ scene = "queue"    /\ Singly!Next    /\ Retaining
  \/ scene = "writer"   /\ Contended!Next /\ Retaining
  \/ scene = "rotation" /\ Rotation!SigningNext  /\ InSigning
  \/ scene = "pool"     /\ Pool!PoolNext  /\ Inner
  \/ scene = "revival"  /\ PoolNext       /\ Inner

WriterSteps(A)   == scene = "writer" /\ A /\ Retaining
RotationSteps(A) == scene = "rotation" /\ A /\ InSigning
RevivalSteps(A)  == scene = "revival" /\ A /\ Inner

(* The runtime polls a woken future, and the OS schedules the store's      *)
(* writer and the rotation worker; the root and the backends come back and *)
(* time passes.  A behaviour stays in its scene, so that one condition may *)
(* stand for one of each.                                                  *)
SceneSpec ==
  /\ SceneInit /\ [][SceneNext]_SceneVars
  /\ WF_SceneVars(\/ WriterSteps(Contended!Writer)
                  \/ RotationSteps(Rotation!Rotor)
                  \/ RevivalSteps(Handler(d1)))
  /\ WF_SceneVars(\/ WriterSteps(Contended!Caller(x1))
                  \/ RotationSteps(Rotation!SigningTick)
                  \/ RevivalSteps(Handler(d2)))
  /\ WF_SceneVars(\/ WriterSteps(Contended!Caller(x2))
                  \/ RotationSteps(~rootUp /\ Rotation!RootChanges)
                  \/ RevivalSteps(BackendRecovers(0)))
  /\ WF_SceneVars(RevivalSteps(Tick))

-----------------------------------------------------------------------------
(* Nothing waits for good.  A future that awaits the store's writer is     *)
(* answered, whatever the disk does (settle, and the oneshot a dead writer *)
(* drops), and while no client leaves, 2K slots are enough for K permits,  *)
(* so that no completion is turned away (durability_bounds); signing comes *)
(* back after every outage, and the operator's last INCR is in force in    *)
(* the end (the rotation worker's loop); a pool whose backends answer      *)
(* again serves again, though clients leave in the middle of its trials    *)
(* (select_backend, ProbeGuard).                                           *)
NothingWaitsForGood ==
  /\ scene = "writer" => Contended!AwaitedIsAnswered
  /\ scene = "queue" => []Singly!CompleteNeverRefusedForCapacity
  /\ scene = "rotation" => Rotation!SigningComesBack /\ Rotation!AdvanceTakesEffect
  /\ scene = "revival" => PoolComesBack
=============================================================================
