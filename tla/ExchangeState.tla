--------------------------- MODULE ExchangeState ---------------------------
(***************************************************************************)
(* The per-exchange lifecycle of mcp-re-proxy (src/exchange_state.rs) as   *)
(* operators over a progress record.  The serving pipeline (Serving) and   *)
(* the unit driver (ExchangeMachine) are both written with them.           *)
(*                                                                         *)
(* The enum derives Ord and its order is the pipeline order, so a state is *)
(* its position; events keep their names.                                  *)
(***************************************************************************)
EXTENDS Integers

Received                  == 0
Verified                  == 1
TransportBound            == 2
AdmissionChecked          == 3
ContinuationPrepared      == 4
ReplayAdmitted            == 5
Answerable                == 6
ContinuationRetired       == 7
Forwarded                 == 8
InnerPlaneAccepted        == 9
RetentionCommitted        == 10
Dispatched                == 11
ResponseObserved          == 12
ResponseValidated         == 13
ResponseClassified        == 14
ResponseSigned            == 15
ContinuationSettled       == 16
Retained                  == 17
AcknowledgedNotification  == 18
CompletedTerminal         == 19
CompletedContinuationOpen == 20
RefusedBeforeDispatch     == 21
FailedAfterDispatch       == 22

State == Received .. FailedAfterDispatch

(* Each event with the state it establishes; Refused establishes none. *)
Established == [
  SignatureVerified        |-> Verified,
  TransportBindingChecked  |-> TransportBound,
  AdmissionCurrencyChecked |-> AdmissionChecked,
  ContinuationPrepared     |-> ContinuationPrepared,
  ReplayAdmitted           |-> ReplayAdmitted,
  DelegatedKeySnapshotted  |-> Answerable,
  ContinuationRetired      |-> ContinuationRetired,
  ForwardBodyPrepared      |-> Forwarded,
  InnerPlaneAccepted       |-> InnerPlaneAccepted,
  RetentionCommitted       |-> RetentionCommitted,
  BackendDispatched        |-> Dispatched,
  ResponseObserved         |-> ResponseObserved,
  EnvelopeValidated        |-> ResponseValidated,
  ResponseClassified       |-> ResponseClassified,
  ResponseSigned           |-> ResponseSigned,
  OpenLegRecorded          |-> ContinuationSettled,
  ContinuationNotRequired  |-> ContinuationSettled,
  EvidenceRetained         |-> Retained,
  NotificationAcknowledged |-> AcknowledgedNotification,
  TerminalResponseServed   |-> CompletedTerminal,
  OpenLegResponseServed    |-> CompletedContinuationOpen]

Event == DOMAIN Established \cup {"Refused"}

(* The bottom state stands for "establishes nothing": it raises no floor. *)
Establishes(e) == IF e = "Refused" THEN Received ELSE Established[e]

(* The three ordered sibling machines, again by position. *)
OriginRank  == [Undetermined |-> 0, BackendReplied |-> 1, DispatchIndeterminate |-> 2]
OpenLegRank == [NotApplicable |-> 0, Required |-> 1, Recorded |-> 2]
RetryRank   == [SafeNothingExecuted |-> 0, RequiresNewElicitation |-> 1, NotRetrySafe |-> 2]

ContinuationState == {"NotInvolved", "Peeked", "Consumed"}
BackendState      == {"NotDispatched", "Dispatched"}
ResponseOrigin    == DOMAIN OriginRank
OpenLeg           == DOMAIN OpenLegRank
RetrySemantics    == DOMAIN RetryRank

(* Mutant of BackendMayHaveExecuted: the threshold one stage early. *)
MayHaveExecutedEarly(s) == s >= InnerPlaneAccepted /\ s # RefusedBeforeDispatch

BackendMayHaveExecuted(s) == s >= RetentionCommitted /\ s # RefusedBeforeDispatch

IsTerminal(s) == s >= AcknowledgedNotification

IsSuccessTerminal(s) ==
  s \in {AcknowledgedNotification, CompletedTerminal, CompletedContinuationOpen}

----------------------------------------------------------------------------
(***************************************************************************)
(* The transition relation: a refusal leaves every non-terminal state; the *)
(* other events walk the pipeline, with the notification branch at         *)
(* Dispatched and the terminal / open-leg split at Retained.               *)
(***************************************************************************)
Step(s, e) ==
  CASE e = "Refused"                  -> TRUE
    [] e = "NotificationAcknowledged" -> s = Dispatched
    [] e = "OpenLegResponseServed"    -> s = Retained
    [] e = "TerminalResponseServed"   -> s = Retained
    [] OTHER                          -> Establishes(e) = s + 1

(* advance reads only whether the step is legal: the state a refusal would *)
(* enter is never stored, a refusing exchange answers from where it stands. *)
Legal(s, e) == ~IsTerminal(s) /\ Step(s, e)

----------------------------------------------------------------------------
(* The tuple of machines one exchange carries, with its anomaly latch. *)
Progress ==
  [request : State, continuation : ContinuationState, backend : BackendState,
   origin : ResponseOrigin, openLeg : OpenLeg, anomaly : {"None", "Some"}]

NewProgress ==
  [request |-> Received, continuation |-> "NotInvolved", backend |-> "NotDispatched",
   origin |-> "Undetermined", openLeg |-> "NotApplicable", anomaly |-> "None"]

SyncBackend(s) == IF BackendMayHaveExecuted(s) THEN "Dispatched" ELSE "NotDispatched"

InvariantViolation(p) ==
  \/ p.request = CompletedContinuationOpen /\ p.openLeg # "Recorded"
  \/ p.request = CompletedTerminal /\ p.openLeg # "NotApplicable"
  \/ IsSuccessTerminal(p.request) /\ p.origin = "DispatchIndeterminate"
  \/ p.backend # SyncBackend(p.request)

(* An anomaly, once latched, is never replaced or cleared. *)
Latch(p) == [p EXCEPT !.anomaly = "Some"]

LatchIf(what, p) == IF what THEN Latch(p) ELSE p

(* Mutant of Raise: every event moves one position on. *)
RaiseIncrements(p, e) == p.request + 1

(* The state is raised to what the event establishes; it never falls. *)
Raise(p, e) == IF Establishes(e) > p.request THEN Establishes(e) ELSE p.request

Synced(p, s) ==
  [request |-> s, continuation |-> p.continuation, backend |-> SyncBackend(s),
   origin |-> p.origin, openLeg |-> p.openLeg, anomaly |-> p.anomaly]

(* Mutant of Advance: an illegal step is dropped instead of raising the state. *)
AdvanceDropsIllegal(p, e) ==
  IF Legal(p.request, e) THEN Synced(p, Raise(p, e)) ELSE p

(* Mutant of Advance: the cross-machine invariants are not consulted. *)
AdvanceUnchecked(p, e) == LatchIf(~Legal(p.request, e), Synced(p, Raise(p, e)))

(* advance: an illegal step latches, yet the state is still raised. *)
Advance(p, e) ==
  LET synced == Synced(p, Raise(p, e))
  IN  LatchIf(~Legal(p.request, e) \/ InvariantViolation(synced), synced)

(* Mutant of ObserveContinuation: a late observation overwrites a spent approval. *)
ObserveContinuationOverwrites(p, c) == [p EXCEPT !.continuation = c]

ObserveContinuation(p, c) ==
  IF p.continuation = "Consumed" THEN p ELSE [p EXCEPT !.continuation = c]

ObserveOrigin(p, o) ==
  IF OriginRank[o] > OriginRank[p.origin] THEN [p EXCEPT !.origin = o] ELSE p

ObserveOpenLeg(p, l) ==
  IF OpenLegRank[l] > OpenLegRank[p.openLeg] THEN [p EXCEPT !.openLeg = l] ELSE p

(* The two-event tail of a served success. *)
Publish(p, success) ==
  Advance(Advance(p, "EvidenceRetained"),
          IF success = "OpenLeg" THEN "OpenLegResponseServed" ELSE "TerminalResponseServed")

(* prospective_refusal, on the copy `prospective` the tail was run on. *)
Refuses(prospective) == ~IsSuccessTerminal(prospective.request) \/ prospective.anomaly = "Some"

MayPublish(p, success)   == ~Refuses(Publish(p, success))
MayEstablish(p, e)       == ~Refuses(Advance(p, e))

RetrySemanticsOf(p) ==
  IF p.anomaly = "Some" \/ BackendMayHaveExecuted(p.request) THEN "NotRetrySafe"
  ELSE IF p.continuation = "Consumed" THEN "RequiresNewElicitation"
  ELSE "SafeNothingExecuted"
=============================================================================
