--------------------------- MODULE ClientExchange ---------------------------
(***************************************************************************)
(* A signing client and the serving boundary, over a network between them  *)
(* that loses, delays and repeats requests and hands any response ever     *)
(* given to any call that waits for one.  The boundary is Serving, every   *)
(* exchange of which is one arrival of some transmission; the client signs *)
(* a call (ClientProxy::handle), reads what comes back against what it     *)
(* signed, and tells its application, which issues a call again only when  *)
(* told that it was not executed.                                          *)
(*                                                                         *)
(* A transmission is its nonce: the signature base and so the request      *)
(* evidence differ whenever the nonce does.  A body is a member of Body;   *)
(* two calls may send the same bytes.  What a peer outside the route's pin *)
(* signs is arbitrary.  A response that is unsigned, altered or late is    *)
(* one that never verifies.                                                *)
(***************************************************************************)
EXTENDS Serving

CONSTANTS
  Call,        \* the calls of the applications
  Body,        \* request bodies
  CallerOf     \* the actor whose key signs the transmissions of a call

VARIABLES
  tx,      \* nonce -> the transmission signed with it
  call,    \* call -> the nonce of its latest transmission
  told     \* nonce -> what the application was told of that transmission

clientVars == <<tx, call, told>>

Transmission == [call : Call, body : Body, kind : Kind, answers : Exchange \cup {None}]

Heard(kind, bound, execution) == [kind |-> kind, bound |-> bound, execution |-> execution]

Outcomes == [kind : {"Completed", "InputRequired", "AcceptedNotification",
                     "VerifiedRejection", "Gateway"},
             bound : BOOLEAN,
             execution : {"Unstated", "NotExecuted", "PossiblyExecuted"}]

ASSUME ClientAssumption ==
  /\ CallerOf \in [Call -> Actor]
  /\ None \notin Request \cup Transmission \cup Outcomes

ClientTypeOK ==
  /\ TypeOK
  /\ tx \in [Nonce -> Transmission \cup {None}]
  /\ call \in [Call -> Nonce \cup {None}]
  /\ told \in [Nonce -> Outcomes \cup {None}]

ClientInit ==
  /\ Init
  /\ tx = [n \in Nonce |-> None]
  /\ call = [c \in Call |-> None]
  /\ told = [n \in Nonce |-> None]

----------------------------------------------------------------------------
(* What the boundary signs. *)

(* Mutant of retry_semantics: a plain refusal promises that nothing ran. *)
retry_semantics_promising(cause, execution) ==
  IF execution = "PossiblyExecuted" THEN "possibly_executed" ELSE "not_executed"

(* The contract a rejection body carries: hazards only, silence otherwise. *)
retry_semantics(cause, execution) ==
  IF execution \in {"ApprovalSpentNothingExecuted", "NothingExecutedRetentionUnresolved"}
  THEN "not_executed"
  ELSE IF cause = "EvidenceRetentionIndeterminate" \/ execution = "PossiblyExecuted"
  THEN "possibly_executed"
  ELSE "absent"

Refusals(S) == {x \in S : Refused(x)}

(* signed_rejection binds what verify_stage accepted; a preflight receipt  *)
(* names the bytes it received, and is about no transmission.              *)
Bound(x) == progress[x].request >= Verified

(* rejection_body under build_delegated_rejection or its preflight form. *)
Receipt(x) ==
  [issuer |-> "pinned", shape |-> "refusal", paused |-> FALSE,
   instance |-> IF Bound(x) THEN req[x].nonce ELSE None,
   received |-> IF Bound(x) THEN None ELSE tx[req[x].nonce].body,
   contract |-> retry_semantics(reply[x].cause, reply[x].execution)]

(* The signed reply, or the bodyless 202. *)
SignedReply(x) ==
  [issuer |-> "pinned", shape |-> IF reply[x].cause = "Accepted" THEN "ack" ELSE "reply",
   paused |-> opens[x] # None, instance |-> req[x].nonce, received |-> None,
   contract |-> "absent"]

(* A sibling of the server, whose credential chains to another trusted     *)
(* root and names this audience, and a stranger, whose credential does not *)
(* verify, may say anything of what they saw.                              *)
OthersResponses ==
  [issuer : {"sibling", "stranger"}, shape : {"reply", "ack", "refusal"},
   instance : {n \in Nonce : tx[n] # None} \cup {None}, received : Body,
   contract : {"absent", "not_executed"}, paused : {FALSE}]

Responses ==
  {Receipt(x) : x \in Refusals(Exchange)} \cup {SignedReply(x) : x \in {y \in Exchange : Served(y)}}
    \cup OthersResponses

----------------------------------------------------------------------------
(* What the client makes of a response to transmission n. *)

(* Mutant of check_expected_issuer: any trusted root answers for the route. *)
check_expected_issuer_any(r) == TRUE

check_expected_issuer(r) == r.issuer = "pinned"

(* The credential is signed by an anchor in force, for this audience, in   *)
(* an accepted epoch, inside its window, and nothing it names is revoked.  *)
verify_delegation_credential(r) == r.issuer \in {"pinned", "sibling"}

(* delegated_bound_response: the signature base covers the request's, and  *)
(* the evidence block names it.                                            *)
BoundVerifies(r, n) == verify_delegation_credential(r) /\ r.instance = n

(* delegated_unbound_response: no component of a request may be covered. *)
UnboundVerifies(r) == verify_delegation_credential(r) /\ r.instance = None

(* Mutant of AboutThisRequest: any receipt of the server answers any call. *)
AboutThisRequestUnchecked(r, n) == TRUE

(* check_unbound_receipt_is_about_this_request: a byte binding. *)
AboutThisRequest(r, n) == r.received = tx[n].body

(* Mutant of execution: silence is read as "it did not run". *)
execution_of_silence(contract) ==
  IF contract = "possibly_executed" THEN "PossiblyExecuted" ELSE "NotExecuted"

(* ExecutionContract::execution *)
execution(contract) ==
  CASE contract = "not_executed" -> "NotExecuted"
    [] contract = "possibly_executed" -> "PossiblyExecuted"
    [] OTHER -> "Unstated"

GatewayFailure == Heard("Gateway", FALSE, "Unstated")

(* verify_notification_ack: nothing but the signed bodyless 202 will do. *)
NotificationOutcome(r, n) ==
  IF r.shape = "ack" /\ BoundVerifies(r, n) /\ check_expected_issuer(r)
  THEN Heard("AcceptedNotification", TRUE, "Unstated")
  ELSE GatewayFailure

(* verify_delegated_response_under, then read_outcome: a success is bound; *)
(* a rejection is tried bound, then as a receipt for these bytes.          *)
ReplyOutcome(r, n) ==
  CASE r.shape = "reply" /\ BoundVerifies(r, n) /\ check_expected_issuer(r) ->
         Heard(IF r.paused THEN "InputRequired" ELSE "Completed", TRUE, "Unstated")
    [] r.shape = "refusal" /\ BoundVerifies(r, n) /\ check_expected_issuer(r) ->
         Heard("VerifiedRejection", TRUE, execution(r.contract))
    [] r.shape = "refusal" /\ UnboundVerifies(r) /\ check_expected_issuer(r)
         /\ AboutThisRequest(r, n) ->
         Heard("VerifiedRejection", FALSE, execution(r.contract))
    [] OTHER -> GatewayFailure

----------------------------------------------------------------------------
Waiting(c) == call[c] # None /\ told[call[c]] = None

(* A pause the client verified: the exchanges it may answer. *)
Elicitations ==
  {x \in Exchange : /\ pc[x] = "done" /\ reply[x].cause = "Success" /\ opens[x] # None
                    /\ told[req[x].nonce] # None /\ told[req[x].nonce].kind = "InputRequired"}

Transmit(c, n, t) ==
  /\ tx[n] = None
  /\ tx' = [tx EXCEPT ![n] = t]
  /\ call' = [call EXCEPT ![c] = n]
  /\ UNCHANGED <<told, vars>>

(* dispatch and sign_request: a fresh nonce signed over the call's body. *)
Send(c) ==
  /\ call[c] = None
  /\ \E n \in Nonce, b \in Body, kind \in Kind, o \in Elicitations \cup {None} :
       /\ kind = "notification" => o = None     \* reject_continuation_on_notification
       /\ Transmit(c, n, [call |-> c, body |-> b, kind |-> kind, answers |-> o])

(* The application issues a call again: only when told that it did not run. *)
SendAgain(c) ==
  /\ call[c] # None /\ ~Waiting(c)
  /\ told[call[c]].execution = "NotExecuted"
  /\ \E n \in Nonce : Transmit(c, n, tx[call[c]])

(* A copy of a transmission reaches some replica, now or much later, and   *)
(* the key that signed it resolves to its caller.                          *)
Arrive(x) ==
  /\ Receive(x)
  /\ LET t == tx[req'[x].nonce] IN
       /\ t # None /\ req'[x].kind = t.kind /\ req'[x].answers = t.answers
       /\ ActorOf[x] = CallerOf[t.call]
  /\ UNCHANGED clientVars

Tell(c, outcomes) ==
  /\ Waiting(c)
  /\ \E o \in outcomes : told' = [told EXCEPT ![call[c]] = o]
  /\ UNCHANGED <<tx, call, vars>>

(* handle: the round trip returns a response, some response. *)
Hear(c) ==
  Tell(c, {IF tx[call[c]].kind = "notification" THEN NotificationOutcome(r, call[c])
           ELSE ReplyOutcome(r, call[c]) : r \in Responses})

(* The round trip fails, or what it returns is unsigned or altered. *)
Fail(c) == Tell(c, {GatewayFailure})

BoundaryStep ==
  /\ \/ \E x \in Exchange : Handle(x) \/ Rescind(x) \/ InnerExecutes(x) \/ Abandon(x)
     \/ \E k \in Key : Expire(k)
  /\ UNCHANGED clientVars

ClientNext ==
  \/ \E c \in Call : Send(c) \/ SendAgain(c) \/ Hear(c) \/ Fail(c)
  \/ \E x \in Exchange : Arrive(x)
  \/ BoundaryStep

ClientSpec == ClientInit /\ [][ClientNext]_<<vars, clientVars>>

----------------------------------------------------------------------------
Copies(n) == {x \in Exchange : req[x] # None /\ req[x].nonce = n}

(* What the application is told is true of this very transmission, and of  *)
(* every copy of it, for ever: a completed call was executed, an accepted  *)
(* notification was dispatched, and one told NotExecuted is never run, not *)
(* by a late copy either (ReplayDetected).  A bound rejection was given to *)
(* this transmission, an unbound one to these bytes, and says nothing of   *)
(* the execution (verify_delegated_response).                              *)
ToldTheTruth ==
  \A n \in {m \in Nonce : told[m] # None} :
    /\ told[n].kind \in {"Completed", "InputRequired"} => Copies(n) \cap executed # {}
    /\ told[n].kind = "AcceptedNotification" => Copies(n) \cap sent # {}
    /\ told[n].execution = "NotExecuted" => told[n].bound /\ Copies(n) \cap executed = {}
    /\ told[n].kind = "VerifiedRejection" =>
         IF told[n].bound THEN Refusals(Copies(n)) # {}
         ELSE /\ told[n].execution = "Unstated"
              /\ \E m \in Nonce : tx[m] # None /\ tx[m].body = tx[n].body
                                  /\ Refusals(Copies(m)) # {}

(* The exchange is a copy of some transmission of the call. *)
CopyOf(c, x) == tx[req[x].nonce] # None /\ tx[req[x].nonce].call = c

(* An application that repeats a call only after NotExecuted has each call *)
(* run at most once, however often the network repeats its transmissions   *)
(* (the execution contract's purpose: ExecutionStatus, retry_semantics).   *)
RunsOnce ==
  \A c \in Call : \A x, y \in executed : CopyOf(c, x) /\ CopyOf(c, y) => x = y

(* A client is told the truth of each of its transmissions, whatever the   *)
(* network repeats, delays or mixes up, and an application that repeats a  *)
(* call only after NotExecuted has it run at most once                     *)
(* (verify_delegated_response, retry_semantics).                           *)
ClientToldTheTruth == ClientTypeOK /\ ToldTheTruth /\ RunsOnce
=============================================================================
