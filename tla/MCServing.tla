----------------------------- MODULE MCServing -----------------------------
(***************************************************************************)
(* The serving pipeline for TLC, in three scenes with everything           *)
(* configured.                                                             *)
(***************************************************************************)
EXTENDS Serving

CONSTANTS x1, x2, x3, x4, alice, bob, n1, n2, s1

(* The fourth exchange is another verified actor's. *)
TwoActors == [x \in Exchange |-> IF x = x4 THEN bob ELSE alice]

VARIABLE scene

(* The application may mint a requestState again. *)
Reusing == INSTANCE Serving WITH InnerReusesState <- TRUE, Nonce <- {n1, n2}

----------------------------------------------------------------------------
(* The state after x1 alone was served an elicitation with state s1 and    *)
(* every store call succeeded: where the answer legs start from.           *)
InitOpened ==
  /\ pc = [x \in Exchange |-> IF x = x1 THEN "done" ELSE "idle"]
  /\ req = [x \in Exchange |->
              IF x = x1 THEN [nonce |-> n1, kind |-> "call", answers |-> None] ELSE None]
  /\ progress = [x \in Exchange |->
       IF x = x1
       THEN [request |-> CompletedContinuationOpen, continuation |-> "NotInvolved",
             backend |-> "Dispatched", origin |-> "BackendReplied",
             openLeg |-> "Recorded", anomaly |-> "None"]
       ELSE NewProgress]
  /\ reply = [x \in Exchange |->
       IF x = x1 THEN [cause |-> "Success", execution |-> "PossiblyExecuted"] ELSE None]
  /\ peeked = [x \in Exchange |-> None]
  /\ opens = [x \in Exchange |-> IF x = x1 THEN s1 ELSE None]
  /\ outcome = [x \in Exchange |-> IF x = x1 THEN "Replied" ELSE None]
  /\ attempts = [x \in Exchange |-> 0]
  /\ cont = [k \in Key |-> IF k = <<ActorOf[x1], s1>> THEN x1 ELSE None]
  /\ nonces = {<<ActorOf[x1], n1>>}
  /\ marker = [x \in Exchange |-> "none"]
  /\ archived = IF RetentionConfigured THEN {x1} ELSE {}
  /\ sent = {x1}
  /\ executed = {x1}
  /\ spends = {}
  /\ stored = {x1}

(* "answers": two answers of one actor race for one approval.  "actors": an *)
(* answer of each actor does.  "pair": two exchanges from the beginning.    *)
SceneInit ==
  \/ scene \in {"answers", "actors"} /\ InitOpened
  \/ scene = "pair" /\ Init

Arrive(S) == \A x \in Exchange \ S : pc'[x] = pc[x]

SceneNext ==
  /\ UNCHANGED scene
  /\ \/ scene = "answers" /\ Next /\ Arrive({x2, x3})
     \/ scene = "actors" /\ Reusing!Next /\ Arrive({x2, x4})
     \/ scene = "pair" /\ Reusing!Next /\ Arrive({x1, x2})

SceneSpec == SceneInit /\ [][SceneNext]_<<scene, vars>>

(* The two answers where InnerReusesState is TRUE. *)
ReuseSpec == InitOpened /\ scene = "reuse" /\ [][Next /\ Arrive({x2, x3}) /\ UNCHANGED scene]_<<scene, vars>>
=============================================================================
