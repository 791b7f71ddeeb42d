------------------------------ MODULE MCRuntime ------------------------------
(***************************************************************************)
(* The proxy's threads for TLC.  `halt`: a deployment from its build to    *)
(* its end with three workers and a flag the caller may clear; `ends`: the *)
(* same with a worker stuck in a call, and what must eventually be;        *)
(* `requests`, `handshakes` and `stops`: one core of the fleet; `audit`:   *)
(* the stderr audit stream, whose shorter queue `quiet` must empty.        *)
(***************************************************************************)
EXTENDS RuntimeTeardown, ServingCore, AuditStream, TLC

CONSTANTS reload, poller, rotor, c1, r1, r2, r3

VARIABLE scene

(* Two workers of one plane share a Halt, the third has its own.           *)
Three == reload :> "trust" @@ poller :> "trust" @@ rotor :> "signing"

(* Exported key, one thread; delegated custody with a derived and with     *)
(* stated depths, and the stated single thread that is refused.            *)
AllTopologies ==
  {[depth |-> 1, stated |-> TRUE, may_block |-> FALSE],
   [depth |-> 1, stated |-> FALSE, may_block |-> TRUE],
   [depth |-> 1, stated |-> TRUE, may_block |-> TRUE],
   [depth |-> 2, stated |-> TRUE, may_block |-> TRUE],
   [depth |-> 3, stated |-> TRUE, may_block |-> TRUE]}

Exported == {[depth |-> 2, stated |-> TRUE, may_block |-> FALSE]}

Ends == INSTANCE RuntimeTeardown WITH
          MaxResets <- 0, Workers <- {reload, rotor},
          PlaneOf <- reload :> "trust" @@ rotor :> "signing"

Core == INSTANCE ServingCore WITH
          Conns <- {c1}, Requests <- {r1, r2, r3}, Topologies <- Exported,
          max_body_bytes <- 1, BUFFERED_BODY_BUDGET_MULTIPLE <- 2
Stop == INSTANCE ServingCore WITH
          Conns <- {c1}, Requests <- {r1, r2}, Topologies <- Exported

Quiet == INSTANCE AuditStream WITH STDERR_AUDIT_QUEUE_DEPTH <- 1, MaxRecords <- 3

ASSUME /\ Ends!TeardownAssumption /\ Core!CoreAssumption /\ Stop!CoreAssumption
       /\ Quiet!AuditAssumption

SceneVars == <<vars, scene, coreVars, auditVars>>

(* The parts that a scene does not run stay as they begin.                 *)
CoreIdle == Stop!CoreInit
AuditIdle == AuditInit /\ ~ failed

SceneInit ==
  \/ scene = "halt" /\ Init /\ CoreIdle /\ AuditIdle
  \/ scene = "ends" /\ Ends!Init /\ CoreIdle /\ AuditIdle
  \/ scene = "requests" /\ Core!CoreInit /\ Init /\ AuditIdle
  \/ scene = "stops" /\ Stop!CoreInit /\ Init /\ AuditIdle
  \/ scene = "handshakes" /\ CoreInit /\ Init /\ AuditIdle
  \/ scene = "audit" /\ AuditInit /\ Init /\ CoreIdle
  \/ scene = "quiet" /\ Quiet!AuditInit /\ Init /\ CoreIdle

TeardownStays == UNCHANGED <<vars, scene, auditVars>>
OthersStay == UNCHANGED <<scene, coreVars, auditVars>>
StreamOnly == UNCHANGED <<vars, scene, coreVars>>

SceneNext ==
  \/ scene = "halt" /\ Next /\ OthersStay
  \/ scene = "ends" /\ Ends!Next /\ OthersStay
  \/ scene = "requests" /\ Core!CoreNext /\ TeardownStays
  \/ scene = "stops" /\ Stop!CoreNext /\ TeardownStays
  \/ scene = "handshakes" /\ CoreNext /\ TeardownStays
  \/ scene = "audit" /\ AuditNext /\ StreamOnly
  \/ scene = "quiet" /\ Quiet!AuditNext /\ StreamOnly

(* Every thread is scheduled and its naps and timers end; only the stuck   *)
(* worker's call may last for ever.                                        *)
SceneSpec ==
  /\ SceneInit /\ [][SceneNext]_SceneVars
  /\ WF_SceneVars(scene = "ends" /\ Ends!Main /\ OthersStay)
  /\ \A w \in {reload, rotor} : WF_SceneVars(scene = "ends" /\ Ends!Step(w) /\ OthersStay)
  /\ \A w \in {reload, rotor} \ Stuck :
       WF_SceneVars(scene = "ends" /\ Ends!Cycle(w) /\ OthersStay)
  /\ WF_SceneVars(scene = "stops" /\ Stop!Loop /\ TeardownStays)
  /\ WF_SceneVars(scene = "quiet" /\ Quiet!Writer /\ StreamOnly)
  /\ \A p \in Producers :
       WF_SceneVars(/\ scene = "quiet" /\ StreamOnly
                    /\ Quiet!TrySend(p) \/ Quiet!Refund(p) \/ Quiet!CountDrop(p))

----------------------------------------------------------------------------

(* Teardown ends with a worker stuck and the evidence queue held open,     *)
(* what it left running stops by itself; a core asked to stop does,        *)
(* whatever its requests do; and drops are reported, also on an audit      *)
(* stream that goes quiet.  (halt_and_reclaim, Halt, serve, drain,         *)
(* recv_timeout)                                                           *)
ThreadsMakeProgress ==
  /\ scene = "ends" => Ends!TeardownEnds /\ Ends!StragglersStop
  /\ scene = "stops" => Stop!Stops
  /\ scene = "quiet" => Quiet!DropsReported
=============================================================================
