------------------------------ MODULE Serving ------------------------------
(***************************************************************************)
(* The serving pipeline of mcp-re-proxy: HttpProfileProxy::handle, run by  *)
(* many exchanges at once, on any replica, over the tiers the replicas     *)
(* share: the continuation store, the replay tier and the evidence store.  *)
(* Every `.await` of the handler is a boundary between two actions, every  *)
(* early return is a disjunct that refuses.                                *)
(*                                                                         *)
(* Abstractions.  Payloads, signatures and bodies are what the pipeline    *)
(* decides about them: a stage that can refuse may refuse.  The retained   *)
(* bases an open leg stores are identified by the exchange that produced   *)
(* them, so a signed continuation binds iff the entry read is the one the  *)
(* client answers.  A client answers a leg only after being served it: the *)
(* digests it signs are of bytes it has received.                          *)
(***************************************************************************)
EXTENDS ExchangeState

CONSTANTS
  Exchange,               \* the HTTP exchanges, on whichever replica
  Actor,                  \* resolved actors
  Nonce,                  \* request nonces a client may use, or use again
  ReqState,               \* requestState values the inner application mints
  ActorOf,                \* the actor the verifier resolves for an exchange
  ContinuationsWired,     \* a continuation store is configured
  RetentionConfigured,    \* an evidence store is configured
  InnerReusesState,       \* the inner application may mint a requestState twice
  None                    \* absence

ASSUME ServingAssumption ==
  /\ ActorOf \in [Exchange -> Actor]
  /\ ContinuationsWired \in BOOLEAN
  /\ RetentionConfigured \in BOOLEAN
  /\ InnerReusesState \in BOOLEAN
  /\ None \notin Exchange \cup ReqState \cup Nonce
  /\ None # "NothingExecutedRetentionUnresolved"

VARIABLES
  pc,          \* the stage of each exchange
  req,         \* what its request carries: nonce, kind, the exchange it answers
  progress,    \* its ExchangeProgress
  reply,       \* the response it is answered with
  peeked,      \* the bases its continuation read returned
  opens,       \* the requestState its backend reply elicits with
  outcome,     \* the DispatchedOutcome of its inner dispatch
  attempts,    \* creates already spent by record_open_leg
  cont,        \* the continuation store: key -> the exchange that opened it
  nonces,      \* the replay tier: admitted (actor, nonce) keys
  marker,      \* the evidence store's marker for each exchange
  archived,    \* exchanges whose completed record is in the evidence store
  sent,        \* history: exchanges handed to the inner plane
  executed,    \* history: exchanges the inner server acted on
  spends,      \* history: <<x, o>> when x removed the entry o opened
  stored       \* history: exchanges whose open leg the store established

serverVars == <<progress, peeked, opens, outcome, attempts>>
storeVars  == <<cont, nonces>>
diskVars   == <<marker, archived>>
worldVars  == <<sent, executed, spends, stored>>
vars == <<pc, req, reply, serverVars, storeVars, diskVars, worldVars>>

RECORD_ATTEMPTS == 3

Key == Actor \X ReqState

Kind == {"call", "notification"}

Request == [nonce : Nonce, kind : Kind, answers : Exchange \cup {None}]

Execution ==
  {"NothingExecuted", "NothingExecutedRetentionUnresolved",
   "ApprovalSpentNothingExecuted", "PossiblyExecuted"}

(* Success is the served reply or 202; a refusal carries its disposition. *)
Cause == {"Success", "Accepted", "ReplayDetected", "ReplayCacheUnavailable", "Rejected",
          "ContinuationBindingFailed", "ContinuationConflict", "SigningUnavailable",
          "InnerPlaneUnavailable", "EvidenceRetentionUnavailable", "UpstreamInvalid",
          "InnerDispatchIndeterminate", "InvariantViolation", "SigningFailed",
          "EvidenceRetentionIndeterminate"}

Reply == [cause : Cause, execution : Execution]

Stage ==
  {"idle", "verify", "bind", "admission", "peek", "replay", "snapshot", "retire",
   "prepare", "reserve", "commit", "dispatch", "await", "acknowledge", "observe",
   "read", "sign", "record", "serve", "retain", "settle", "done", "gone"}

Outcome == {"Replied", "InvalidUpstream", "Indeterminate"}

----------------------------------------------------------------------------
TypeOK ==
  /\ pc \in [Exchange -> Stage]
  /\ req \in [Exchange -> Request \cup {None}]
  /\ progress \in [Exchange -> Progress]
  /\ reply \in [Exchange -> Reply \cup {None}]
  /\ peeked \in [Exchange -> Exchange \cup {None}]
  /\ opens \in [Exchange -> ReqState \cup {None}]
  /\ outcome \in [Exchange -> Outcome \cup {None}]
  /\ attempts \in [Exchange -> 0 .. RECORD_ATTEMPTS]
  /\ cont \in [Key -> Exchange \cup {None}]
  /\ nonces \subseteq Actor \X Nonce
  /\ marker \in [Exchange -> {"none", "reserved", "pending"}]
  /\ archived \subseteq Exchange
  /\ sent \subseteq Exchange
  /\ executed \subseteq Exchange
  /\ spends \subseteq Exchange \X Exchange
  /\ stored \subseteq Exchange

Init ==
  /\ pc = [x \in Exchange |-> "idle"]
  /\ req = [x \in Exchange |-> None]
  /\ progress = [x \in Exchange |-> NewProgress]
  /\ reply = [x \in Exchange |-> None]
  /\ peeked = [x \in Exchange |-> None]
  /\ opens = [x \in Exchange |-> None]
  /\ outcome = [x \in Exchange |-> None]
  /\ attempts = [x \in Exchange |-> 0]
  /\ cont = [k \in Key |-> None]
  /\ nonces = {}
  /\ marker = [x \in Exchange |-> "none"]
  /\ archived = {}
  /\ sent = {}
  /\ executed = {}
  /\ spends = {}
  /\ stored = {}

----------------------------------------------------------------------------
(* Mutant of ContinuationKey: the key forgets who opened the leg. *)
ContinuationKeyUnscoped(x, state) == <<CHOOSE a \in Actor : TRUE, state>>

(* The key scopes the inner application's requestState to the actor the    *)
(* verifier resolved.                                                      *)
ContinuationKey(x, state) == <<ActorOf[x], state>>

Answers(x) == req[x].answers

AnswerKey(x) == ContinuationKey(x, opens[Answers(x)])

(* Mutant of Disposition: the machine's own verdict goes out untranslated. *)
DispositionUntranslated(p, refined) == RetrySemanticsOf(p)

(* disposition: what the refusal says of the call, from the progress tuple *)
(* and the refinement its owner attached.                                  *)
Disposition(p, refined) ==
  IF RetrySemanticsOf(p) = "NotRetrySafe" THEN "PossiblyExecuted"
  ELSE IF RetrySemanticsOf(p) = "RequiresNewElicitation" THEN "ApprovalSpentNothingExecuted"
  ELSE IF refined = None THEN "NothingExecuted"
  ELSE refined

To(x, stage) == pc' = [pc EXCEPT ![x] = stage]

Learn(x, p) == progress' = [progress EXCEPT ![x] = p]

(* refuse: the exchange is answered from where its progress stands. *)
RefuseAt(x, p, cause, refined, stage) ==
  /\ To(x, stage)
  /\ Learn(x, p)
  /\ reply' = [reply EXCEPT ![x] = [cause |-> cause, execution |-> Disposition(p, refined)]]

Refuse(x, p, cause) == RefuseAt(x, p, cause, None, "done")

(* refuse_retained: the refusal is minted, then offered to the evidence store. *)
RefuseRetained(x, p, cause) == RefuseAt(x, p, cause, None, "settle")

Pass(x, p, stage) == To(x, stage) /\ Learn(x, p) /\ UNCHANGED reply

Was(x, stage) == pc[x] = stage

----------------------------------------------------------------------------
(* A request arrives: possibly a replayed nonce, possibly the answer to a  *)
(* leg some exchange was served with.                                      *)
Receive(x) ==
  /\ Was(x, "idle")
  /\ \E n \in Nonce, kind \in Kind,
        o \in {None} \cup {y \in Exchange : pc[y] = "done" /\ reply[y].cause = "Success"
                                            /\ opens[y] # None} :
       req' = [req EXCEPT ![x] = [nonce |-> n, kind |-> kind, answers |-> o]]
  /\ To(x, "verify")
  /\ UNCHANGED <<reply, serverVars, storeVars, diskVars, worldVars>>

(* verify_stage. *)
Verify(x) ==
  /\ Was(x, "verify")
  /\ \/ Pass(x, Advance(progress[x], "SignatureVerified"), "bind")
     \/ Refuse(x, progress[x], "Rejected")
  /\ UNCHANGED <<req, peeked, opens, outcome, attempts, storeVars, diskVars, worldVars>>

(* validate_envelope, then transport_binding_stage. *)
BindTransport(x) ==
  /\ Was(x, "bind")
  /\ \/ Pass(x, Advance(progress[x], "TransportBindingChecked"), "admission")
     \/ Refuse(x, progress[x], "Rejected")
  /\ UNCHANGED <<req, peeked, opens, outcome, attempts, storeVars, diskVars, worldVars>>

(* admission_stage awaits the enforcer; authorization_stage follows it and *)
(* refuses after the admission was established.                            *)
CheckAdmission(x) ==
  LET admitted == Advance(progress[x], "AdmissionCurrencyChecked") IN
  /\ Was(x, "admission")
  /\ \/ Pass(x, admitted, "peek")
     \/ Refuse(x, progress[x], "Rejected")
     \/ Refuse(x, admitted, "Rejected")
  /\ UNCHANGED <<req, peeked, opens, outcome, attempts, storeVars, diskVars, worldVars>>

(* ContinuationPlane::prepare: a read without side effect. *)
PeekContinuation(x) ==
  LET prepared == Advance(progress[x], "ContinuationPrepared") IN
  /\ Was(x, "peek")
  /\ \/ /\ Answers(x) = None
        /\ Pass(x, prepared, "replay")
        /\ UNCHANGED peeked
     \/ /\ Answers(x) # None /\ ContinuationsWired
        /\ peeked' = [peeked EXCEPT ![x] = cont[AnswerKey(x)]]
        /\ Pass(x, IF cont[AnswerKey(x)] = None THEN prepared
                   ELSE ObserveContinuation(prepared, "Peeked"), "replay")
     \/ /\ Answers(x) # None      \* an outage, or no capability wired at all
        /\ Refuse(x, progress[x], "ReplayCacheUnavailable")
        /\ UNCHANGED peeked
  /\ UNCHANGED <<req, opens, outcome, attempts, storeVars, diskVars, worldVars>>

(* prepare_http_dispatch: the signed digests must match the bases read. *)
BindingVerifies(x) == peeked[x] = Answers(x)

ReplayKey(x) == <<ActorOf[x], req[x].nonce>>

(* Mutant of TierUnavailable: an outage of the replay tier fails open. *)
TierUnavailableAdmits(x) == Pass(x, Advance(progress[x], "ReplayAdmitted"), "snapshot")

TierUnavailable(x) == Refuse(x, progress[x], "ReplayCacheUnavailable")

(* replay_admission_stage: the binding first, the nonce burned strictly    *)
(* last, in one atomic check-and-insert whose answer may be lost.          *)
AdmitReplay(x) ==
  /\ Was(x, "replay")
  /\ \/ /\ ~BindingVerifies(x)
        /\ Refuse(x, progress[x], "ContinuationBindingFailed")
        /\ UNCHANGED nonces
     \/ /\ BindingVerifies(x) /\ ReplayKey(x) \notin nonces
        /\ nonces' = nonces \cup {ReplayKey(x)}
        /\ Pass(x, Advance(progress[x], "ReplayAdmitted"), "snapshot")
     \/ /\ BindingVerifies(x) /\ ReplayKey(x) \in nonces
        /\ Refuse(x, progress[x], "ReplayDetected")
        /\ UNCHANGED nonces
     \/ /\ BindingVerifies(x)
        /\ nonces' \in {nonces, nonces \cup {ReplayKey(x)}}
        /\ TierUnavailable(x)
  /\ UNCHANGED <<req, peeked, opens, outcome, attempts, cont, diskVars, worldVars>>

(* answerable_stage: no signing window, nothing to answer with. *)
SnapshotKey(x) ==
  /\ Was(x, "snapshot")
  /\ \/ Pass(x, Advance(progress[x], "DelegatedKeySnapshotted"), "retire")
     \/ Refuse(x, progress[x], "SigningUnavailable")
  /\ UNCHANGED <<req, peeked, opens, outcome, attempts, storeVars, diskVars, worldVars>>

(* The store's consume: removes whatever is live under the key. *)
Consume(x) ==
  /\ cont' = [cont EXCEPT ![AnswerKey(x)] = None]
  /\ spends' = spends \cup ({x} \X ({cont[AnswerKey(x)]} \ {None}))

(* Mutant of LostConsume: an unanswered consume is read as "nothing was spent". *)
LostConsumeForgotten(x) == progress[x]

(* What an unanswered consume leaves the exchange knowing: assume the worst. *)
LostConsume(x) == ObserveContinuation(progress[x], "Consumed")

(* Mutant of AlreadyAnswered: the leg that lost the race proceeds. *)
AlreadyAnsweredProceeds(x) == Pass(x, Advance(progress[x], "ContinuationRetired"), "prepare")

(* The entry is gone: another leg answered, or it expired. *)
AlreadyAnswered(x) == Refuse(x, progress[x], "ContinuationBindingFailed")

(* retire, then observe_retirement. *)
RetireContinuation(x) ==
  LET spent == ObserveContinuation(progress[x], "Consumed") IN
  /\ Was(x, "retire")
  /\ \/ /\ Answers(x) = None
        /\ Pass(x, Advance(progress[x], "ContinuationRetired"), "prepare")
        /\ UNCHANGED <<cont, spends>>
     \/ /\ Answers(x) # None /\ cont[AnswerKey(x)] # None
        /\ Consume(x)
        /\ Pass(x, Advance(spent, "ContinuationRetired"), "prepare")
     \/ /\ Answers(x) # None /\ cont[AnswerKey(x)] = None
        /\ AlreadyAnswered(x)
        /\ UNCHANGED <<cont, spends>>
     \/ /\ Answers(x) # None
        /\ Consume(x) \/ UNCHANGED <<cont, spends>>
        /\ Refuse(x, LostConsume(x), "ReplayCacheUnavailable")
  /\ UNCHANGED <<req, peeked, opens, outcome, attempts, nonces, diskVars, sent, executed, stored>>

----------------------------------------------------------------------------
(* commit_to_dispatch up to its first await: the forwarded body, the inner *)
(* plane's capability, the signing window against its completion bound.    *)
PrepareDispatch(x) ==
  LET forwarded == Advance(progress[x], "ForwardBodyPrepared")
      accepted  == Advance(forwarded, "InnerPlaneAccepted") IN
  /\ Was(x, "prepare")
  /\ \/ Pass(x, accepted, "reserve")
     \/ Refuse(x, progress[x], "Rejected")
     \/ Refuse(x, forwarded, "InnerPlaneUnavailable")
     \/ Refuse(x, accepted, "SigningUnavailable")
  /\ UNCHANGED <<req, peeked, opens, outcome, attempts, storeVars, diskVars, worldVars>>

(* Mutant of RefuseUnresolved: an unresolved store is reported as an ordinary outage. *)
RefuseUnresolvedPlainly(x) == Refuse(x, progress[x], "EvidenceRetentionUnavailable")

RefuseUnresolved(x) ==
  RefuseAt(x, progress[x], "EvidenceRetentionUnavailable",
           "NothingExecutedRetentionUnresolved", "done")

RefuseUnretained(x) == Refuse(x, progress[x], "EvidenceRetentionUnavailable")

(* Retention::reserve.  A store that answered leaves no marker when it     *)
(* refuses; one whose answer is lost, or that could not withdraw, may.     *)
ReserveRetention(x) ==
  /\ Was(x, "reserve")
  /\ \/ /\ ~RetentionConfigured
        /\ Pass(x, progress[x], "commit")
        /\ UNCHANGED marker
     \/ /\ RetentionConfigured
        /\ marker' = [marker EXCEPT ![x] = "reserved"]
        /\ Pass(x, progress[x], "commit")
     \/ /\ RetentionConfigured
        /\ RefuseUnretained(x)
        /\ UNCHANGED marker
     \/ /\ RetentionConfigured
        /\ \E left \in {"none", "reserved"} : marker' = [marker EXCEPT ![x] = left]
        /\ RefuseUnresolved(x)
  /\ UNCHANGED <<req, peeked, opens, outcome, attempts, storeVars, archived, worldVars>>

(* Retention::commit: the marker's rename is the execution threshold. *)
CommitRetention(x) ==
  LET committed == Advance(progress[x], "RetentionCommitted") IN
  /\ Was(x, "commit")
  /\ \/ /\ ~RetentionConfigured
        /\ Pass(x, committed, "dispatch")
        /\ UNCHANGED marker
     \/ /\ RetentionConfigured
        /\ marker' = [marker EXCEPT ![x] = "pending"]
        /\ Pass(x, committed, "dispatch")
     \/ /\ RetentionConfigured
        /\ RefuseUnretained(x)
        /\ UNCHANGED marker
     \/ /\ RetentionConfigured
        /\ \E left \in {"reserved", "pending"} : marker' = [marker EXCEPT ![x] = left]
        /\ RefuseUnresolved(x)
  /\ UNCHANGED <<req, peeked, opens, outcome, attempts, storeVars, archived, worldVars>>

(* A dropped ReservedBeforeDispatch queues its rescind: the reserved-stage *)
(* marker goes, now or never.                                              *)
Rescind(x) ==
  /\ pc[x] \in {"done", "gone"} /\ marker[x] = "reserved"
  /\ marker' = [marker EXCEPT ![x] = "none"]
  /\ UNCHANGED <<pc, req, reply, serverVars, storeVars, archived, worldVars>>

(* Mutant of Dispatch: the crossing is not reported to the exchange machine. *)
DispatchUnrecorded(x) ==
  /\ Was(x, "dispatch")
  /\ sent' = sent \cup {x}
  /\ Pass(x, progress[x], "await")
  /\ UNCHANGED <<req, peeked, opens, outcome, attempts, storeVars, diskVars, executed, spends, stored>>

(* BackendDispatched is recorded before the dispatch is awaited. *)
Dispatch(x) ==
  /\ Was(x, "dispatch")
  /\ sent' = sent \cup {x}
  /\ Pass(x, Advance(progress[x], "BackendDispatched"), "await")
  /\ UNCHANGED <<req, peeked, opens, outcome, attempts, storeVars, diskVars, executed, spends, stored>>

(* The inner server acts on what it was sent, possibly long after the      *)
(* proxy stopped waiting.                                                  *)
InnerExecutes(x) ==
  /\ x \in sent \ executed
  /\ executed' = executed \cup {x}
  /\ UNCHANGED <<pc, req, reply, serverVars, storeVars, diskVars, sent, spends, stored>>

Resume(x) == IF req[x].kind = "notification" THEN "acknowledge" ELSE "observe"

(* The dispatch returns: a reply, a reply that is not one, or nothing by   *)
(* the deadline.                                                           *)
DispatchReturns(x) ==
  /\ Was(x, "await")
  /\ \E o \in IF x \in executed THEN Outcome ELSE {"Indeterminate"} :
       outcome' = [outcome EXCEPT ![x] = o]
  /\ To(x, Resume(x))
  /\ UNCHANGED <<req, reply, progress, peeked, opens, attempts, storeVars, diskVars, worldVars>>

----------------------------------------------------------------------------
(* answer_notification_terminal: an acknowledgement needs no readable body. *)
AcknowledgeNotification(x) ==
  LET replied == ObserveOrigin(progress[x], "BackendReplied")
      failed  == ObserveOrigin(progress[x], "DispatchIndeterminate")
      acked   == Advance(replied, "NotificationAcknowledged") IN
  /\ Was(x, "acknowledge")
  /\ \/ /\ outcome[x] = "Indeterminate"
        /\ RefuseRetained(x, failed, "InnerDispatchIndeterminate")
     \/ /\ outcome[x] # "Indeterminate"
        /\ IF MayEstablish(replied, "NotificationAcknowledged")
           THEN Pass(x, acked, "retain") \/ Refuse(x, acked, "SigningFailed")
           ELSE RefuseRetained(x, Latch(replied), "InvariantViolation")
  /\ UNCHANGED <<req, peeked, opens, outcome, attempts, storeVars, diskVars, worldVars>>

(* InnerPlane::observe_reply. *)
ObserveReply(x) ==
  LET replied == ObserveOrigin(progress[x], "BackendReplied")
      failed  == ObserveOrigin(progress[x], "DispatchIndeterminate") IN
  /\ Was(x, "observe")
  /\ \/ /\ outcome[x] = "Replied"
        /\ Pass(x, Advance(replied, "ResponseObserved"), "read")
     \/ /\ outcome[x] = "Indeterminate"
        /\ RefuseRetained(x, failed, "InnerDispatchIndeterminate")
     \/ /\ outcome[x] = "InvalidUpstream"
        /\ RefuseRetained(x, progress[x], "UpstreamInvalid")
  /\ UNCHANGED <<req, peeked, opens, outcome, attempts, storeVars, diskVars, worldVars>>

(* The states the inner application may elicit with. *)
Mintable == IF InnerReusesState THEN ReqState
            ELSE {s \in ReqState : \A y \in Exchange : opens[y] # s}

(* read_reply: validate, classify, and incur the open-leg obligation. *)
ReadReply(x) ==
  LET validated  == Advance(progress[x], "EnvelopeValidated")
      classified == Advance(validated, "ResponseClassified") IN
  /\ Was(x, "read")
  /\ \/ /\ RefuseRetained(x, progress[x], "UpstreamInvalid")
        /\ UNCHANGED opens
     \/ /\ RefuseRetained(x, validated, "UpstreamInvalid")
        /\ UNCHANGED opens
     \/ /\ Pass(x, ObserveOpenLeg(classified, "NotApplicable"), "sign")
        /\ UNCHANGED opens
     \/ \E s \in Mintable :
          /\ opens' = [opens EXCEPT ![x] = s]
          /\ Pass(x, ObserveOpenLeg(classified, "Required"), "sign")
  /\ UNCHANGED <<req, peeked, outcome, attempts, storeVars, diskVars, worldVars>>

(* sign_reply: a reply that cannot be signed leaves its marker standing. *)
SignReply(x) ==
  /\ Was(x, "sign")
  /\ \/ Pass(x, Advance(progress[x], "ResponseSigned"), "record")
     \/ Refuse(x, progress[x], "SigningFailed")
  /\ UNCHANGED <<req, peeked, opens, outcome, attempts, storeVars, diskVars, worldVars>>

OpenKey(x) == ContinuationKey(x, opens[x])

(* Mutant of Create: a fresh leg supersedes the live one. *)
CreateOverwrites(x) ==
  cont' = [cont EXCEPT ![OpenKey(x)] = x] /\ stored' = stored \cup {x}

(* The store's create: an absent key is established, a live one is left. *)
Create(x) ==
  IF cont[OpenKey(x)] = None
  THEN cont' = [cont EXCEPT ![OpenKey(x)] = x] /\ stored' = stored \cup {x}
  ELSE UNCHANGED <<cont, stored>>

Recorded(p) == Advance(ObserveOpenLeg(p, "Recorded"), "OpenLegRecorded")

(* Mutant of AfterCreate: a collision is taken for the leg's own record. *)
AfterCreateBlind(x, found) == Pass(x, Recorded(progress[x]), "serve")

(* Stored is the only way out with an answerable leg; a taken key refuses. *)
AfterCreate(x, found) ==
  IF found = None
  THEN Pass(x, Recorded(progress[x]), "serve")
  ELSE Refuse(x, progress[x], "ContinuationConflict")

(* Mutant of SpendAttempt: the retry is not bounded. *)
SpendAttemptForever(x) == Pass(x, progress[x], "record") /\ UNCHANGED attempts

(* An unanswered create spends one attempt of the budget. *)
SpendAttempt(x) ==
  /\ attempts' = [attempts EXCEPT ![x] = @ + 1]
  /\ IF attempts[x] + 1 < RECORD_ATTEMPTS
     THEN Pass(x, progress[x], "record")
     ELSE Refuse(x, progress[x], "ReplayCacheUnavailable")

(* Mutant of RefuseCapabilityAbsent: the elicitation is served although nobody keeps it. *)
RefuseCapabilityAbsentServes(x) == Pass(x, Recorded(progress[x]), "serve")

(* No store is wired: a leg that could never be answered is not served. *)
RefuseCapabilityAbsent(x) == Refuse(x, progress[x], "ReplayCacheUnavailable")

(* record_continuation_leg, one create per step. *)
RecordLeg(x) ==
  /\ Was(x, "record")
  /\ \/ /\ opens[x] = None
        /\ Pass(x, Advance(progress[x], "ContinuationNotRequired"), "serve")
        /\ UNCHANGED <<attempts, cont, stored>>
     \/ /\ opens[x] # None /\ ~ContinuationsWired
        /\ RefuseCapabilityAbsent(x)
        /\ UNCHANGED <<attempts, cont, stored>>
     \/ /\ opens[x] # None /\ ContinuationsWired
        /\ Create(x)
        /\ AfterCreate(x, cont[OpenKey(x)])
        /\ UNCHANGED attempts
     \/ /\ opens[x] # None /\ ContinuationsWired
        /\ Create(x) \/ UNCHANGED <<cont, stored>>       \* the answer is lost either way
        /\ SpendAttempt(x)
  /\ UNCHANGED <<req, peeked, opens, outcome, nonces, diskVars, sent, executed, spends>>

SuccessOf(x) == IF opens[x] = None THEN "Terminal" ELSE "OpenLeg"

(* serve_retained up to its await: the publication is checked on a copy. *)
CheckPublication(x) ==
  /\ Was(x, "serve")
  /\ IF MayPublish(progress[x], SuccessOf(x))
     THEN Pass(x, progress[x], "retain")
     ELSE RefuseRetained(x, Latch(progress[x]), "InvariantViolation")
  /\ UNCHANGED <<req, peeked, opens, outcome, attempts, storeVars, diskVars, worldVars>>

(* EvidenceRetention::complete: the record lands before the marker is      *)
(* cleared, and clearing may fail; a failure may or may not leave the      *)
(* record.                                                                 *)
CompleteOk(x) ==
  \/ ~RetentionConfigured /\ UNCHANGED diskVars
  \/ /\ RetentionConfigured
     /\ archived' = archived \cup {x}
     /\ \E left \in {"none", "pending"} : marker' = [marker EXCEPT ![x] = left]

(* Mutant of CompleteFails: the marker is cleared whether or not the record landed. *)
CompleteFailsClears(x) ==
  /\ RetentionConfigured
  /\ archived' \in {archived, archived \cup {x}}
  /\ marker' = [marker EXCEPT ![x] = "none"]

CompleteFails(x) ==
  /\ RetentionConfigured
  /\ archived' \in {archived, archived \cup {x}}
  /\ UNCHANGED marker

Accepted(x) ==
  IF req[x].kind = "notification" THEN progress[x] ELSE Publish(progress[x], SuccessOf(x))

(* retain_accepted, then the publication: no success without its evidence. *)
RetainAccepted(x) ==
  /\ Was(x, "retain")
  /\ \/ /\ CompleteOk(x)
        /\ To(x, "done") /\ Learn(x, Accepted(x))
        /\ reply' = [reply EXCEPT ![x] =
             [cause |-> IF req[x].kind = "notification" THEN "Accepted" ELSE "Success",
              execution |-> "PossiblyExecuted"]]
     \/ /\ CompleteFails(x)
        /\ Refuse(x, progress[x], "EvidenceRetentionIndeterminate")
  /\ UNCHANGED <<req, peeked, opens, outcome, attempts, storeVars, worldVars>>

(* A refusal after the crossing is retained best-effort, then served. *)
SettleRefusal(x) ==
  /\ Was(x, "settle")
  /\ CompleteOk(x) \/ CompleteFails(x)
  /\ To(x, "done")
  /\ UNCHANGED <<req, reply, serverVars, storeVars, worldVars>>

----------------------------------------------------------------------------
(* The connection goes away or the replica dies at an await: nobody is     *)
(* answered, what was stored stays.                                        *)
Abandon(x) ==
  /\ pc[x] \notin {"idle", "done", "gone"}
  /\ To(x, "gone")
  /\ UNCHANGED <<req, reply, serverVars, storeVars, diskVars, worldVars>>

(* A continuation entry outlives its TTL. *)
Expire(k) ==
  /\ cont[k] # None
  /\ cont' = [cont EXCEPT ![k] = None]
  /\ UNCHANGED <<pc, req, reply, serverVars, nonces, diskVars, worldVars>>

Handle(x) ==
  \/ Verify(x) \/ BindTransport(x) \/ CheckAdmission(x) \/ PeekContinuation(x)
  \/ AdmitReplay(x) \/ SnapshotKey(x) \/ RetireContinuation(x) \/ PrepareDispatch(x)
  \/ ReserveRetention(x) \/ CommitRetention(x) \/ Dispatch(x) \/ DispatchReturns(x)
  \/ AcknowledgeNotification(x) \/ ObserveReply(x) \/ ReadReply(x) \/ SignReply(x)
  \/ RecordLeg(x) \/ CheckPublication(x) \/ RetainAccepted(x) \/ SettleRefusal(x)

Next ==
  \/ \E x \in Exchange :
       Receive(x) \/ Handle(x) \/ Rescind(x) \/ InnerExecutes(x) \/ Abandon(x)
  \/ \E k \in Key : Expire(k)

Spec == Init /\ [][Next]_vars

(* A runtime worker polls every admitted exchange until it is answered;    *)
(* the dispatch deadline is what makes DispatchReturns one of those steps. *)
FairSpec == Spec /\ \A x \in Exchange : WF_vars(Handle(x))

----------------------------------------------------------------------------
Refused(x) == pc[x] = "done" /\ reply[x].cause \notin {"Success", "Accepted"}

Served(x) == pc[x] = "done" /\ reply[x].cause \in {"Success", "Accepted"}

ClaimsNothingRan(x) ==
  Refused(x) /\ reply[x].execution \in {"NothingExecuted", "NothingExecutedRetentionUnresolved"}

Spenders == {s[1] : s \in spends}

(* A refusal that tells its client nothing was executed is true for ever:  *)
(* the inner server never acts on that exchange, not even late, and no     *)
(* human's approval was spent by it; one that admits to a spent approval   *)
(* still promises nothing ran (HttpProfileProxy::disposition).             *)
DispositionHonest ==
  \A x \in Exchange :
    /\ ClaimsNothingRan(x) => x \notin executed /\ x \notin Spenders
    /\ Refused(x) /\ reply[x].execution = "ApprovalSpentNothingExecuted" => x \notin executed

(* The converse: a client is warned that its call may have run only when   *)
(* it was handed to the inner plane, so the warning keeps its meaning.     *)
NoFalseAlarm ==
  \A x \in Exchange :
    Refused(x) /\ reply[x].execution = "PossiblyExecuted" => x \in sent

(* handle walks the machine's own path: no anomaly is latched by any       *)
(* interleaving, outage or failed store call (ExchangeProgress::advance).  *)
NoAnomaly == \A x \in Exchange : progress[x].anomaly = "None"

(* A refusal says no more than happened: a client is warned that its call  *)
(* may have run only when it was handed to the inner plane, and the        *)
(* lifecycle machine meets no event it has no place for.                   *)
(* (HttpProfileProxy::disposition, ExchangeProgress::advance)              *)
NothingOverstated == TypeOK /\ NoFalseAlarm /\ NoAnomaly

(* However often a signed request is presented, to however many replicas,  *)
(* it is handed to the inner server at most once                           *)
(* (dispatch_request_with_async_tier burns the nonce before the dispatch). *)
NonceDispatchedOnce ==
  \A x, y \in sent :
    x # y /\ ActorOf[x] = ActorOf[y] => req[x].nonce # req[y].nonce

(* Of all the legs that answer one elicitation, at most one reaches the    *)
(* inner server (AsyncContinuationStore::consume is the one-shot rule).    *)
ApprovalOneShot ==
  \A x, y \in sent : x # y /\ Answers(x) # None => Answers(x) # Answers(y)

(* An answer that reaches the inner server was given by the actor the      *)
(* elicitation was served to (continuation_key).                           *)
ApprovalByItsActor ==
  \A x \in sent : Answers(x) # None => ActorOf[x] = ActorOf[Answers(x)]

(* A live entry is never overwritten: it leaves by being spent or by       *)
(* expiring, never by another leg's record (AsyncContinuationStore::create).*)
IncumbentKept ==
  [][\A k \in Key : cont[k] # None => cont'[k] \in {cont[k], None}]_vars

(* A client that is served an elicitation can answer it: the bases this    *)
(* very leg produced had reached the shared store (record_open_leg).       *)
ServedLegWasStored ==
  \A x \in Exchange : Served(x) /\ opens[x] # None => x \in stored

(* Every exchange handed to the inner server is accounted for on disk, by  *)
(* its crossing marker or by a completed record, whoever was cancelled or  *)
(* crashed and whatever the store failed to do; and a served success is    *)
(* accounted for by its record.                                            *)
CrossingAccounted ==
  RetentionConfigured =>
    /\ \A x \in sent : marker[x] = "pending" \/ x \in archived
    /\ \A x \in Exchange : Served(x) => x \in archived

(* A client told plainly that nothing was executed has left no crossing    *)
(* marker behind, which an auditor would read as a call that may have run  *)
(* (Retention::pre_dispatch_refusal).                                      *)
NoFalseCrossing ==
  \A x \in Exchange :
    Refused(x) /\ reply[x].execution = "NothingExecuted" => marker[x] # "pending"

(* Every request the proxy takes on is answered or abandoned by its        *)
(* client, whatever the stores and the inner server do.                    *)
EventuallyAnswered ==
  \A x \in Exchange : pc[x] # "idle" ~> pc[x] \in {"done", "gone"}
=============================================================================
