----------------------------- MODULE MCExchange -----------------------------
(***************************************************************************)
(* The lifecycle machine for TLC, alone under any caller; the pipeline of  *)
(* a deployment without retention, with a continuation store and with      *)
(* none, for what must eventually happen; and the pipeline with a client   *)
(* before it.  Machine and pipeline share no state: each scene runs one.   *)
(***************************************************************************)
EXTENDS ExchangeMachine, ClientExchange

CONSTANTS x1, x2, alice, n1, n2, c1, c2, b1, b2

VARIABLE scene

(* One client: every request is its own. *)
OnlyAlice(S) == [s \in S |-> alice]

AliceServed == OnlyAlice(Exchange)

AliceCalls == OnlyAlice(Call)

Pipeline(wired) == INSTANCE Serving WITH
  Nonce <- {n1}, ContinuationsWired <- wired, RetentionConfigured <- FALSE,
  InnerReusesState <- TRUE

(* The client scene: two calls, each transmission of which may arrive      *)
(* twice, and one of them again after a refusal.  Calls, nonces, bodies    *)
(* and arrivals are interchangeable: they are taken in order.  A           *)
(* notification is sent alone.                                             *)
InOrder ==
  /\ call[c2] # None => call[c1] # None
  /\ call[c1] # None => tx[n1] # None /\ tx[n1].call = c1 /\ tx[n1].body = b1
  /\ call[c2] # None => tx[n1].kind = "call" /\ tx[call[c2]].kind = "call"
  /\ pc[x2] # "idle" => pc[x1] # "idle"

SceneInit == scene \in {"machine", "wired", "bare", "client"} /\ MachineInit /\ ClientInit

SceneNext ==
  \/ scene = "machine" /\ MachineNext /\ UNCHANGED <<scene, vars, clientVars>>
  \/ scene = "wired" /\ Pipeline(TRUE)!Next /\ UNCHANGED <<scene, machineVars, clientVars>>
  \/ scene = "bare" /\ Pipeline(FALSE)!Next /\ UNCHANGED <<scene, machineVars, clientVars>>
  \/ scene = "client" /\ ClientNext /\ InOrder' /\ UNCHANGED <<scene, machineVars>>

SceneVars == <<scene, machineVars, vars, clientVars>>

(* A runtime worker polls every admitted exchange until it is answered.    *)
SceneSpec ==
  /\ SceneInit /\ [][SceneNext]_SceneVars
  /\ \A x \in Exchange :
       /\ WF_SceneVars(scene = "wired" /\ Pipeline(TRUE)!Handle(x) /\ UNCHANGED <<scene, machineVars, clientVars>>)
       /\ WF_SceneVars(scene = "bare" /\ Pipeline(FALSE)!Handle(x) /\ UNCHANGED <<scene, machineVars, clientVars>>)

(* Every request the proxy takes on is answered or abandoned by its        *)
(* client, whatever the replay tier and the inner server do (handle); and  *)
(* a deployment without a continuation store answers none of them with an  *)
(* elicitation nobody could keep (record_open_leg's absent capability).    *)
AnsweredAndKept ==
  scene \in {"wired", "bare"} =>
    /\ EventuallyAnswered
    /\ [](scene = "bare" => ServedLegWasStored)
=============================================================================
