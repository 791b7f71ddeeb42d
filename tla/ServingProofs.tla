--------------------------- MODULE ServingProofs ---------------------------
(***************************************************************************)
(* Lemmas about the operators of ExchangeState (what a call to             *)
(* ExchangeProgress keeps, raises and returns) and what the type promises  *)
(* for every sequence of calls; then what the serving pipeline promises    *)
(* for every number of exchanges, actors, nonces and requestState values:  *)
(* of its own state, of the two stores it shares with the other replicas,  *)
(* that the handler and its lifecycle machine walk in step, so that        *)
(* nothing is overstated, and what the client is told.                     *)
(***************************************************************************)
EXTENDS ClientExchange, ExchangeMachine, TLAPS

(* Every event establishes a state up to the last success terminal: no     *)
(* event establishes one of the two refusal terminals.                     *)
LEMMA EstablishesType ==
  \A e \in Event : Establishes(e) \in Received .. CompletedContinuationOpen
BY DEF Event, Establishes, Established, Received, CompletedContinuationOpen,
   Verified, TransportBound, AdmissionChecked, ContinuationPrepared, ReplayAdmitted,
   Answerable, ContinuationRetired, Forwarded, InnerPlaneAccepted, RetentionCommitted,
   Dispatched, ResponseObserved, ResponseValidated, ResponseClassified, ResponseSigned,
   ContinuationSettled, Retained, AcknowledgedNotification, CompletedTerminal

(* The names of the events the publication tails use. *)
LEMMA TailEvents ==
  /\ "EvidenceRetained" \in Event /\ Establishes("EvidenceRetained") = Retained
  /\ "TerminalResponseServed" \in Event
  /\ Establishes("TerminalResponseServed") = CompletedTerminal
  /\ "OpenLegResponseServed" \in Event
  /\ Establishes("OpenLegResponseServed") = CompletedContinuationOpen
  /\ "NotificationAcknowledged" \in Event
  /\ Establishes("NotificationAcknowledged") = AcknowledgedNotification
BY DEF Event, Establishes, Established

(* A progress whose state is not one of the refusal terminals. *)
Live(p) == p \in Progress /\ p.request \in Received .. CompletedContinuationOpen

(* advance: the state becomes at least what the event establishes, never   *)
(* falls, and no observation or latched anomaly is lost.                   *)
LEMMA AdvanceFacts ==
  ASSUME NEW p, Live(p), NEW e \in Event
  PROVE  /\ Live(Advance(p, e))
         /\ Advance(p, e).request = Raise(p, e)
         /\ Raise(p, e) >= p.request
         /\ Raise(p, e) >= Establishes(e)
         /\ Advance(p, e).continuation = p.continuation
         /\ Advance(p, e).origin = p.origin
         /\ Advance(p, e).openLeg = p.openLeg
         /\ p.anomaly = "Some" => Advance(p, e).anomaly = "Some"
         /\ Advance(p, e).anomaly = "None"
              => Legal(p.request, e) /\ ~InvariantViolation(Advance(p, e))
<1> DEFINE raised == Raise(p, e)
           synced == Synced(p, raised)
<1>1. /\ raised \in Received .. CompletedContinuationOpen
      /\ raised >= p.request
      /\ raised >= Establishes(e)
  BY EstablishesType DEF Raise, Live, Received, CompletedContinuationOpen
<1>2. SyncBackend(raised) \in BackendState
  BY DEF SyncBackend, BackendState
<1> HIDE DEF raised
<1>3. /\ synced \in Progress
      /\ synced.request = raised
      /\ synced.anomaly = p.anomaly
      /\ synced.continuation = p.continuation
      /\ synced.origin = p.origin
      /\ synced.openLeg = p.openLeg
  BY <1>1, <1>2 DEF Live, Synced, Progress, State, Received, CompletedContinuationOpen,
     FailedAfterDispatch
<1> HIDE DEF synced
<1>4. Advance(p, e) = LatchIf(~Legal(p.request, e) \/ InvariantViolation(synced), synced)
  BY DEF Advance, raised, synced
<1>5. CASE Legal(p.request, e) /\ ~InvariantViolation(synced)
  <2>1. Advance(p, e) = synced
    BY <1>4, <1>5 DEF LatchIf
  <2> QED
    BY <2>1, <1>1, <1>3, <1>5 DEF Live, raised
<1>6. CASE ~Legal(p.request, e) \/ InvariantViolation(synced)
  <2>1. Advance(p, e) = [synced EXCEPT !.anomaly = "Some"]
    BY <1>4, <1>6 DEF LatchIf, Latch
  <2> QED
    BY <2>1, <1>1, <1>3 DEF Live, Progress, raised
<1> QED
  BY <1>5, <1>6

(* The observers move one sibling machine each and never leave Consumed. *)
LEMMA ObserverFacts ==
  ASSUME NEW p, Live(p)
  PROVE  /\ \A c \in ContinuationState :
              LET q == ObserveContinuation(p, c)
              IN  /\ Live(q) /\ q.request = p.request /\ q.anomaly = p.anomaly
                  /\ p.continuation = "Consumed" \/ c = "Consumed"
                       => q.continuation = "Consumed"
         /\ \A o \in ResponseOrigin :
              LET q == ObserveOrigin(p, o)
              IN  /\ Live(q) /\ q.request = p.request /\ q.anomaly = p.anomaly
                  /\ q.continuation = p.continuation
         /\ \A l \in OpenLeg :
              LET q == ObserveOpenLeg(p, l)
              IN  /\ Live(q) /\ q.request = p.request /\ q.anomaly = p.anomaly
                  /\ q.continuation = p.continuation
         /\ LET q == Latch(p)
            IN  /\ Live(q) /\ q.request = p.request /\ q.anomaly = "Some"
                /\ q.continuation = p.continuation
<1>1. ASSUME NEW c \in ContinuationState
      PROVE  LET q == ObserveContinuation(p, c)
             IN  /\ Live(q) /\ q.request = p.request /\ q.anomaly = p.anomaly
                 /\ p.continuation = "Consumed" \/ c = "Consumed"
                      => q.continuation = "Consumed"
  BY DEF Live, Progress, ObserveContinuation
<1>2. ASSUME NEW o \in ResponseOrigin
      PROVE  LET q == ObserveOrigin(p, o)
             IN  /\ Live(q) /\ q.request = p.request /\ q.anomaly = p.anomaly
                 /\ q.continuation = p.continuation
  BY DEF Live, Progress, ObserveOrigin
<1>3. ASSUME NEW l \in OpenLeg
      PROVE  LET q == ObserveOpenLeg(p, l)
             IN  /\ Live(q) /\ q.request = p.request /\ q.anomaly = p.anomaly
                 /\ q.continuation = p.continuation
  BY DEF Live, Progress, ObserveOpenLeg
<1>4. LET q == Latch(p)
      IN  /\ Live(q) /\ q.request = p.request /\ q.anomaly = "Some"
          /\ q.continuation = p.continuation
  BY DEF Live, Progress, Latch
<1> QED
  BY <1>1, <1>2, <1>3, <1>4

(* What was admitted on the copy is what the tail reaches. *)
LEMMA PublishFacts ==
  ASSUME NEW p, Live(p), NEW success \in {"Terminal", "OpenLeg"}
  PROVE  LET q == Publish(p, success)
         IN  /\ Live(q) /\ q.request >= p.request /\ q.request >= CompletedTerminal
             /\ q.continuation = p.continuation
             /\ p.anomaly = "Some" => q.anomaly = "Some"
             /\ q.anomaly = "None" =>
                  /\ p.request = ContinuationSettled
                  /\ ~InvariantViolation(q)
                  /\ q.request = IF success = "OpenLeg" THEN CompletedContinuationOpen
                                 ELSE CompletedTerminal
<1> DEFINE r == Advance(p, "EvidenceRetained")
           last == IF success = "OpenLeg" THEN "OpenLegResponseServed"
                   ELSE "TerminalResponseServed"
           q == Advance(r, last)
<1>1. Publish(p, success) = q
  BY DEF Publish
<1>2. /\ last \in Event
      /\ Establishes(last) = IF success = "OpenLeg" THEN CompletedContinuationOpen
                             ELSE CompletedTerminal
  BY TailEvents
<1>3. /\ Live(r) /\ r.request = Raise(p, "EvidenceRetained") /\ r.request >= p.request
      /\ r.continuation = p.continuation
      /\ p.anomaly = "Some" => r.anomaly = "Some"
      /\ r.anomaly = "None" => Legal(p.request, "EvidenceRetained")
  BY TailEvents, AdvanceFacts
<1>4. /\ Live(q) /\ q.request = Raise(r, last) /\ q.request >= r.request
      /\ q.request >= Establishes(last)
      /\ q.continuation = r.continuation
      /\ r.anomaly = "Some" => q.anomaly = "Some"
      /\ q.anomaly = "None" => Legal(r.request, last) /\ ~InvariantViolation(q)
  BY <1>2, <1>3, AdvanceFacts
<1>5. r.anomaly \in {"None", "Some"} /\ q.anomaly \in {"None", "Some"}
      /\ p.request \in Int /\ r.request \in Int /\ q.request \in Int
  BY <1>3, <1>4 DEF Live, Progress, Received, CompletedContinuationOpen
<1>6. ASSUME q.anomaly = "None"
      PROVE  /\ p.request = ContinuationSettled
             /\ q.request = IF success = "OpenLeg" THEN CompletedContinuationOpen
                            ELSE CompletedTerminal
  <2>1. Legal(p.request, "EvidenceRetained") /\ Legal(r.request, last)
    BY <1>3, <1>4, <1>5, <1>6
  <2>2. p.request + 1 = Retained
    BY <2>1, TailEvents DEF Legal, Step
  <2>3. r.request = Retained
    BY <2>1 DEF Legal, Step
  <2> QED
    BY <2>2, <2>3, <1>2, <1>4, <1>5 DEF Raise, Retained, ContinuationSettled, CompletedTerminal,
       CompletedContinuationOpen
<1>7. q.request >= p.request /\ q.request >= CompletedTerminal
  BY <1>2, <1>3, <1>4, <1>5 DEF CompletedTerminal, CompletedContinuationOpen
<1> HIDE DEF q, r, last
<1> QED
  BY <1>1, <1>3, <1>4, <1>5, <1>6, <1>7

----------------------------------------------------------------------------
(* The inductive invariant: what the history variables remember is carried *)
(* by the state and the continuation machine, never by the anomaly alone.  *)
IInv ==
  /\ MachineTypeOK
  /\ machine.request \in Received .. CompletedContinuationOpen
  /\ crossed => machine.request >= RetentionCommitted
  /\ spent => machine.continuation = "Consumed"
  /\ published # {} => machine.request >= AcknowledgedNotification

(* The inductive invariant holds of a new exchange. *)
LEMMA InitIInv == MachineInit => IInv
<1> SUFFICES ASSUME MachineInit PROVE IInv
  OBVIOUS
<1>1. NewProgress \in Progress /\ NewProgress.request = Received
  BY DEF NewProgress, Progress, State, Received, FailedAfterDispatch, ContinuationState,
     BackendState, ResponseOrigin, OriginRank, OpenLeg, OpenLegRank
<1>2. MachineTypeOK /\ ~crossed /\ ~spent /\ published = {}
  BY <1>1 DEF MachineInit, MachineTypeOK
<1>3. machine.request \in Received .. CompletedContinuationOpen
  BY <1>1 DEF MachineInit, Received, CompletedContinuationOpen
<1> QED
  BY <1>2, <1>3 DEF IInv

(* What every step does to the progress and to the history variables. *)
StepFacts ==
  /\ Live(machine')
  /\ machine'.request >= machine.request
  /\ machine.continuation = "Consumed" => machine'.continuation = "Consumed"
  /\ machine.anomaly = "Some" => machine'.anomaly = "Some"
  /\ crossed' \in BOOLEAN /\ spent' \in BOOLEAN /\ published' \subseteq Success
  /\ crossed' /\ ~crossed => machine'.request >= RetentionCommitted
  /\ spent' /\ ~spent => machine'.continuation = "Consumed"
  /\ published' # published =>
       /\ published = {}
       /\ machine'.anomaly = "None"
       /\ ~InvariantViolation(machine')
       /\ machine'.request >= AcknowledgedNotification
       /\ "OpenLeg" \in published' => machine'.request = CompletedContinuationOpen
       /\ "Terminal" \in published' => machine'.request = CompletedTerminal
       /\ IsSuccessTerminal(machine'.request)

(* Every call of the machine is such a step. *)
LEMMA StepLemma == IInv /\ [MachineNext]_machineVars => StepFacts
<1> SUFFICES ASSUME IInv, [MachineNext]_machineVars PROVE StepFacts
  OBVIOUS
<1> USE DEF IInv, MachineTypeOK
<1>1. Live(machine) /\ machine.request \in Int
  BY DEF Live, Received, CompletedContinuationOpen
<1>2. ASSUME NEW e \in Event, DoAdvance(e) PROVE StepFacts
  <2> DEFINE q == Advance(machine, e)
  <2>1. /\ Live(q) /\ q.request >= machine.request /\ q.request >= Establishes(e)
        /\ q.continuation = machine.continuation
        /\ machine.anomaly = "Some" => q.anomaly = "Some"
    BY <1>1, AdvanceFacts
  <2>2. /\ machine' = q /\ spent' = spent /\ published' = published
        /\ crossed' \in BOOLEAN
        /\ crossed' /\ ~crossed => Establishes(e) >= RetentionCommitted
    BY <1>2 DEF DoAdvance
  <2>3. crossed' /\ ~crossed => q.request >= RetentionCommitted
    BY <2>1, <2>2, EstablishesType DEF Live, Received, CompletedContinuationOpen,
       RetentionCommitted
  <2> HIDE DEF q
  <2> QED
    BY <2>1, <2>2, <2>3 DEF StepFacts
<1>3. ASSUME NEW c \in ContinuationState, DoObserveContinuation(c) PROVE StepFacts
  BY <1>1, <1>3, ObserverFacts DEF DoObserveContinuation, StepFacts
<1>4. ASSUME NEW o \in ResponseOrigin, DoObserveOrigin(o) PROVE StepFacts
  BY <1>1, <1>4, ObserverFacts DEF DoObserveOrigin, StepFacts
<1>5. ASSUME NEW l \in OpenLeg, DoObserveOpenLeg(l) PROVE StepFacts
  BY <1>1, <1>5, ObserverFacts DEF DoObserveOpenLeg, StepFacts
<1>6. ASSUME NEW success \in {"Terminal", "OpenLeg"}, DoPublish(success) PROVE StepFacts
  <2>1. CASE MayPublish(machine, success)
    <3> DEFINE q == Publish(machine, success)
    <3>1. /\ machine' = q /\ published' = published \cup {success}
          /\ crossed' = TRUE /\ spent' = spent
      BY <1>6, <2>1 DEF DoPublish
    <3>2. /\ Live(q) /\ q.request >= machine.request /\ q.request >= CompletedTerminal
          /\ q.continuation = machine.continuation
          /\ machine.anomaly = "Some" => q.anomaly = "Some"
          /\ q.anomaly = "None" =>
               /\ machine.request = ContinuationSettled
               /\ ~InvariantViolation(q)
               /\ q.request = IF success = "OpenLeg" THEN CompletedContinuationOpen
                              ELSE CompletedTerminal
      BY <1>1, PublishFacts
    <3>3. q.anomaly = "None" /\ IsSuccessTerminal(q.request)
      BY <2>1, <3>2 DEF MayPublish, Refuses, Live, Progress
    <3>4. published = {}
      BY <3>2, <3>3 DEF ContinuationSettled, AcknowledgedNotification
    <3>5. q.request \in Int
      BY <3>2 DEF Live, Received, CompletedContinuationOpen
    <3> HIDE DEF q
    <3> QED
      BY <1>1, <3>1, <3>2, <3>3, <3>4, <3>5 DEF StepFacts, Success, RetentionCommitted,
         CompletedTerminal, AcknowledgedNotification
  <2>2. CASE ~MayPublish(machine, success)
    BY <1>1, <1>6, <2>2, ObserverFacts DEF DoPublish, StepFacts
  <2> QED
    BY <2>1, <2>2
<1>7. ASSUME DoEstablishTerminal PROVE StepFacts
  <2>1. CASE MayEstablish(machine, "NotificationAcknowledged")
    <3> DEFINE q == Advance(machine, "NotificationAcknowledged")
    <3>1. /\ machine' = q /\ published' = published \cup {"Acknowledged"}
          /\ crossed' = TRUE /\ spent' = spent
      BY <1>7, <2>1 DEF DoEstablishTerminal
    <3>2. /\ Live(q) /\ q.request >= machine.request
          /\ q.request >= AcknowledgedNotification
          /\ q.continuation = machine.continuation
          /\ machine.anomaly = "Some" => q.anomaly = "Some"
          /\ q.anomaly = "None" => Legal(machine.request, "NotificationAcknowledged")
                                   /\ ~InvariantViolation(q)
      BY <1>1, TailEvents, AdvanceFacts
    <3>3. q.anomaly = "None" /\ IsSuccessTerminal(q.request)
      BY <2>1, <3>2 DEF MayEstablish, Refuses, Live, Progress
    <3>4. machine.request = Dispatched
      BY <3>2, <3>3 DEF Legal, Step
    <3>5. published = {}
      BY <3>4 DEF Dispatched, AcknowledgedNotification
    <3>6. q.request \in Int
      BY <3>2 DEF Live, Received, CompletedContinuationOpen
    <3> HIDE DEF q
    <3> QED
      BY <1>1, <3>1, <3>2, <3>3, <3>5, <3>6 DEF StepFacts, Success, RetentionCommitted,
         AcknowledgedNotification
  <2>2. CASE ~MayEstablish(machine, "NotificationAcknowledged")
    BY <1>1, <1>7, <2>2, ObserverFacts DEF DoEstablishTerminal, StepFacts
  <2> QED
    BY <2>1, <2>2
<1>8. CASE UNCHANGED machineVars
  BY <1>1, <1>8 DEF machineVars, StepFacts, Live
<1> QED
  BY <1>2, <1>3, <1>4, <1>5, <1>6, <1>7, <1>8 DEF MachineNext

(* Those facts preserve the inductive invariant. *)
LEMMA StepIInv == IInv /\ StepFacts => IInv'
BY DEF IInv, MachineTypeOK, StepFacts, Live, Received, CompletedContinuationOpen, RetentionCommitted,
   AcknowledgedNotification

(* So it holds in every reachable state. *)
LEMMA InvariantHolds == MachineSpec => []IInv
<1>1. IInv /\ [MachineNext]_machineVars => IInv'
  BY StepLemma, StepIInv
<1> QED
  BY InitIInv, <1>1, PTL DEF MachineSpec

(* Every reachable progress value is well-typed. *)
THEOREM TypeCorrect == MachineSpec => []MachineTypeOK
<1>1. IInv => MachineTypeOK
  BY DEF IInv
<1> QED
  BY InvariantHolds, <1>1, PTL

(* For every sequence of calls, legal or not: an exchange told of the      *)
(* crossing reports NotRetrySafe, one told of a spent approval never       *)
(* reports SafeNothingExecuted.                                            *)
THEOREM NeverUnderstatesHolds == MachineSpec => []NeverUnderstates
<1>1. IInv => NeverUnderstates
  BY DEF IInv, NeverUnderstates, RetrySemanticsOf, BackendMayHaveExecuted, Received,
     CompletedContinuationOpen, RetentionCommitted, RefusedBeforeDispatch
<1> QED
  BY InvariantHolds, <1>1, PTL

(* No step ever weakens what a client is told. *)
THEOREM ConsequenceMonotoneHolds == MachineSpec => ConsequenceMonotone
<1> DEFINE Worse == RetryRank[RetrySemanticsOf(machine')] >= RetryRank[RetrySemanticsOf(machine)]
<1>1. IInv /\ [MachineNext]_machineVars => [Worse]_machineVars
  <2> SUFFICES ASSUME IInv, StepFacts PROVE Worse
    BY StepLemma
  <2>1. /\ machine.request \in 0 .. 20 /\ machine'.request \in 0 .. 20
        /\ machine'.request >= machine.request
        /\ machine.continuation = "Consumed" => machine'.continuation = "Consumed"
        /\ machine.anomaly = "Some" => machine'.anomaly = "Some"
    BY DEF IInv, StepFacts, Live, Received, CompletedContinuationOpen
  <2>2. BackendMayHaveExecuted(machine.request) => BackendMayHaveExecuted(machine'.request)
    BY <2>1 DEF BackendMayHaveExecuted, RetentionCommitted, RefusedBeforeDispatch
  <2>3. /\ RetrySemanticsOf(machine) = "NotRetrySafe"
             => RetrySemanticsOf(machine') = "NotRetrySafe"
        /\ RetrySemanticsOf(machine) = "RequiresNewElicitation"
             => RetrySemanticsOf(machine') # "SafeNothingExecuted"
    BY <2>1, <2>2 DEF RetrySemanticsOf
  <2>4. \A p : RetrySemanticsOf(p) \in
               {"SafeNothingExecuted", "RequiresNewElicitation", "NotRetrySafe"}
    BY DEF RetrySemanticsOf
  <2> QED
    BY <2>3, <2>4 DEF RetryRank
<1> QED
  BY InvariantHolds, <1>1, PTL DEF MachineSpec, ConsequenceMonotone

(* What may_publish admitted is what publish reaches, and it is reached    *)
(* once.                                                                   *)
THEOREM PublishedCoherentlyHolds == MachineSpec => PublishedCoherently
<1> DEFINE Coherent ==
      \A s \in published' \ published :
        /\ published = {}
        /\ machine'.anomaly = "None"
        /\ machine'.origin # "DispatchIndeterminate"
        /\ s = "OpenLeg"  => machine'.openLeg = "Recorded"
        /\ s = "Terminal" => machine'.openLeg = "NotApplicable"
<1>1. IInv /\ [MachineNext]_machineVars => [Coherent]_machineVars
  <2> SUFFICES ASSUME StepFacts, published' # published PROVE Coherent
    BY StepLemma
  <2> QED
    BY DEF StepFacts, InvariantViolation
<1> QED
  BY InvariantHolds, <1>1, PTL DEF MachineSpec, PublishedCoherently

----------------------------------------------------------------------------
(* Every event the pipeline reports. *)
LEMMA EventNames ==
  {"SignatureVerified", "TransportBindingChecked", "AdmissionCurrencyChecked",
   "ContinuationPrepared", "ReplayAdmitted", "DelegatedKeySnapshotted",
   "ContinuationRetired", "ForwardBodyPrepared", "InnerPlaneAccepted",
   "RetentionCommitted", "BackendDispatched", "ResponseObserved", "EnvelopeValidated",
   "ResponseClassified", "ResponseSigned", "OpenLegRecorded", "ContinuationNotRequired",
   "EvidenceRetained", "NotificationAcknowledged", "TerminalResponseServed",
   "OpenLegResponseServed"} \subseteq Event
BY DEF Event, Established

(* The event of the crossing establishes the execution threshold. *)
LEMMA CommitEstablishes == Establishes("RetentionCommitted") = RetentionCommitted
BY DEF Establishes, Established

(* q knows at least what p knew. *)
Grows(p, q) ==
  /\ Live(q)
  /\ q.request >= p.request
  /\ p.continuation = "Consumed" => q.continuation = "Consumed"

(* Growing is a preorder on live progress values. *)
LEMMA GrowsReflexive == ASSUME NEW p, Live(p) PROVE Grows(p, p)
BY DEF Grows, Live, Received, CompletedContinuationOpen

LEMMA GrowsTransitive ==
  ASSUME NEW p, NEW q, NEW r, Live(p), Grows(p, q), Grows(q, r) PROVE Grows(p, r)
BY DEF Grows, Live, Received, CompletedContinuationOpen

(* No event makes an exchange know less. *)
LEMMA AdvanceGrows ==
  ASSUME NEW p, Live(p), NEW e \in Event PROVE Grows(p, Advance(p, e))
BY AdvanceFacts DEF Grows

(* Nor does an observation, or a latched anomaly. *)
LEMMA ObserversGrow ==
  ASSUME NEW p, Live(p)
  PROVE  /\ \A c \in ContinuationState : Grows(p, ObserveContinuation(p, c))
         /\ \A o \in ResponseOrigin : Grows(p, ObserveOrigin(p, o))
         /\ \A l \in OpenLeg : Grows(p, ObserveOpenLeg(p, l))
         /\ Grows(p, Latch(p))
<1>0. p.request >= p.request
  BY DEF Live, Received, CompletedContinuationOpen
<1>1. \A c \in ContinuationState : Grows(p, ObserveContinuation(p, c))
  BY <1>0, ObserverFacts DEF Grows
<1>2. \A o \in ResponseOrigin : Grows(p, ObserveOrigin(p, o))
  BY <1>0, ObserverFacts DEF Grows
<1>3. \A l \in OpenLeg : Grows(p, ObserveOpenLeg(p, l))
  BY <1>0, ObserverFacts DEF Grows
<1>4. Grows(p, Latch(p))
  BY <1>0, ObserverFacts DEF Grows
<1> QED
  BY <1>1, <1>2, <1>3, <1>4

(* Nor does the tail of a served success. *)
LEMMA PublishGrows ==
  ASSUME NEW p, Live(p), NEW success \in {"Terminal", "OpenLeg"}
  PROVE  Grows(p, Publish(p, success))
BY PublishFacts DEF Grows

(* The ways the pipeline learns, in the combinations it uses. *)
LEMMA TwoSteps ==
  ASSUME NEW p, Live(p), NEW e \in Event, NEW f \in Event,
         NEW c \in ContinuationState, NEW o \in ResponseOrigin, NEW l \in OpenLeg
  PROVE  /\ Grows(p, Advance(Advance(p, e), f))
         /\ Grows(p, ObserveContinuation(Advance(p, e), c))
         /\ Grows(p, Advance(ObserveContinuation(p, c), e))
         /\ Grows(p, Advance(ObserveOrigin(p, o), e))
         /\ Grows(p, Latch(ObserveOrigin(p, o)))
         /\ Grows(p, Advance(ObserveOpenLeg(p, l), e))
         /\ Grows(p, ObserveOpenLeg(Advance(Advance(p, e), f), l))
<1>1. \A q : Live(q) => \A g \in Event : Grows(q, Advance(q, g))
  BY AdvanceGrows
<1>2. \A q : Live(q) => /\ Grows(q, ObserveContinuation(q, c))
                        /\ Grows(q, ObserveOrigin(q, o))
                        /\ Grows(q, ObserveOpenLeg(q, l))
                        /\ Grows(q, Latch(q))
  BY ObserversGrow
<1>3. \A q : Grows(p, q) => Live(q)
  BY DEF Grows
<1>4. \A q, r : Grows(p, q) /\ Grows(q, r) => Grows(p, r)
  BY GrowsTransitive
<1> QED
  BY <1>1, <1>2, <1>3, <1>4

(* Known to have crossed, known to have spent an approval. *)
Crossed(p) == p.request >= RetentionCommitted
Spent(p) == p.continuation = "Consumed"

Refinement == {None, "NothingExecutedRetentionUnresolved"}

Plain == {"NothingExecuted", "NothingExecutedRetentionUnresolved"}

(* What a refusal says, by what the exchange knows. *)
LEMMA DispositionFacts ==
  ASSUME NEW p, Live(p), NEW r \in Refinement
  PROVE  /\ Disposition(p, r) \in Execution
         /\ r # None => Disposition(p, r) # "NothingExecuted"
         /\ Crossed(p) => Disposition(p, r) = "PossiblyExecuted"
         /\ Spent(p) => Disposition(p, r) \notin Plain
<1>1. RetrySemanticsOf(p) \in {"SafeNothingExecuted", "RequiresNewElicitation", "NotRetrySafe"}
  BY DEF RetrySemanticsOf
<1>2. Crossed(p) => RetrySemanticsOf(p) = "NotRetrySafe"
  BY DEF Crossed, RetrySemanticsOf, BackendMayHaveExecuted, Live, Received,
     CompletedContinuationOpen, RefusedBeforeDispatch, RetentionCommitted
<1>3. Spent(p) => RetrySemanticsOf(p) # "SafeNothingExecuted"
  BY DEF Spent, RetrySemanticsOf
<1>4. CASE RetrySemanticsOf(p) = "SafeNothingExecuted"
  BY <1>2, <1>3, <1>4 DEF Disposition, Refinement, Execution
<1>5. CASE RetrySemanticsOf(p) = "RequiresNewElicitation"
  BY <1>2, <1>5 DEF Disposition, Execution, Plain
<1>6. CASE RetrySemanticsOf(p) = "NotRetrySafe"
  BY <1>6 DEF Disposition, Execution, Plain
<1> QED
  BY <1>1, <1>4, <1>5, <1>6

----------------------------------------------------------------------------
(* The stages before the nonce is burned, from there to the dispatch, past *)
(* the retirement, and past the reading of a reply.                        *)
Early == {"idle", "verify", "bind", "admission", "peek", "replay"}

Admitted == {"snapshot", "retire", "prepare", "reserve", "commit", "dispatch"}

Cleared == {"prepare", "reserve", "commit", "dispatch"}

Opened == {"record", "serve", "retain", "settle", "done", "gone"}

(* From the crossing on; a reply not read yet; a stage that answers. *)
Late == {"await", "acknowledge", "observe", "read", "sign", "record", "serve", "retain", "settle"}

Unread == Early \cup Admitted \cup {"await", "acknowledge", "observe", "read"}

Over == {"settle", "done"}

(* Typing needs to know that a leg is answered only after it was served. *)
Asked(x) ==
  pc[x] # "idle" =>
    /\ req[x] \in Request
    /\ Answers(x) # None => pc[Answers(x)] = "done" /\ opens[Answers(x)] \in ReqState

(* An exchange that is not answered has an attempt left to record its leg. *)
Budget(x) == pc[x] # "done" => attempts[x] < RECORD_ATTEMPTS

Typed == TypeOK /\ \A x \in Exchange : Live(progress[x]) /\ Asked(x) /\ Budget(x)

(* Where a step of the handler may lead. *)
Forward(s, t) ==
  /\ s \notin {"idle", "done", "gone"}
  /\ t \notin {"idle", "gone"}
  /\ t \in Early => s \in Early
  /\ t \in Admitted => s \in Admitted \cup {"replay"}
  /\ t \in Cleared => s \in Cleared \/ (s = "retire" /\ t = "prepare")
  /\ s \in Opened => t \in Opened
  /\ t \in Late => s \in Late \cup {"dispatch"}
  /\ t \in Unread => s \in Unread
  /\ t = "serve" => s = "record"
  /\ t = "retain" => s \in {"serve", "acknowledge"}
  /\ s = "dispatch" => t = "await"
  /\ t = "dispatch" => s = "commit"

(* What a step of the handler does to the answer. *)
Answering(x, t, q) ==
  \/ reply' = reply /\ (t \in Over => pc[x] = "settle" /\ t = "done")
  \/ /\ t \in Over
     /\ \E c \in Cause \ {"Success", "Accepted"}, r \in Refinement :
          reply' = [reply EXCEPT ![x] = [cause |-> c, execution |-> Disposition(q, r)]]
  \/ /\ t = "done" /\ pc[x] = "retain"
     /\ \E c \in {"Success", "Accepted"} :
          reply' = [reply EXCEPT ![x] = [cause |-> c, execution |-> "PossiblyExecuted"]]

Effect(x) ==
  \E t \in Stage, q \in Progress :
    /\ pc' = [pc EXCEPT ![x] = t]
    /\ progress' = [progress EXCEPT ![x] = q]
    /\ Grows(progress[x], q)
    /\ Forward(pc[x], t)
    /\ t = "dispatch" => Crossed(q)
    /\ Answering(x, t, q)

(* A step that goes on has that effect. *)
LEMMA PassEffect ==
  ASSUME NEW x \in Exchange, NEW t \in Stage \ Over, NEW q, Pass(x, q, t),
         Grows(progress[x], q), Forward(pc[x], t), t = "dispatch" => Crossed(q)
  PROVE  Effect(x)
BY DEF Pass, To, Learn, Effect, Answering, Grows, Live

(* So has a step that refuses. *)
LEMMA RefuseEffect ==
  ASSUME NEW x \in Exchange, NEW t \in Over, NEW q,
         NEW c \in Cause \ {"Success", "Accepted"}, NEW r \in Refinement,
         RefuseAt(x, q, c, r, t), Grows(progress[x], q), t = "settle" => pc[x] \in Late,
         pc[x] \notin {"idle", "dispatch", "done", "gone"}
  PROVE  Effect(x)
<1>1. Forward(pc[x], t) /\ t \in Stage /\ t # "dispatch" /\ q \in Progress
  BY DEF Forward, Over, Stage, Early, Admitted, Cleared, Opened, Late, Unread, Grows, Live
<1>2. Answering(x, t, q)
  BY DEF Answering, RefuseAt
<1> QED
  BY <1>1, <1>2 DEF RefuseAt, To, Learn, Effect

(* Every step of the handler has that effect. *)
LEMMA HandleEffect ==
  ASSUME Typed, NEW x \in Exchange, Handle(x)
  PROVE  Effect(x)
<1> DEFINE p == progress[x]
<1>p. Live(p) /\ Grows(p, p)
  BY GrowsReflexive DEF Typed
<1>a. \A e \in Event : Grows(p, Advance(p, e))
  BY <1>p, AdvanceGrows
<1>c. /\ "Consumed" \in ContinuationState /\ "Peeked" \in ContinuationState
      /\ "BackendReplied" \in ResponseOrigin /\ "DispatchIndeterminate" \in ResponseOrigin
      /\ "NotApplicable" \in OpenLeg /\ "Required" \in OpenLeg /\ "Recorded" \in OpenLeg
  BY DEF ContinuationState, ResponseOrigin, OriginRank, OpenLeg, OpenLegRank
<1>b. \A e, f \in Event :
        /\ Grows(p, Advance(Advance(p, e), f))
        /\ \A c \in ContinuationState : /\ Grows(p, ObserveContinuation(Advance(p, e), c))
                                        /\ Grows(p, Advance(ObserveContinuation(p, c), e))
        /\ \A o \in ResponseOrigin : /\ Grows(p, Advance(ObserveOrigin(p, o), e))
                                     /\ Grows(p, Latch(ObserveOrigin(p, o)))
        /\ \A l \in OpenLeg : /\ Grows(p, Advance(ObserveOpenLeg(p, l), e))
                              /\ Grows(p, ObserveOpenLeg(Advance(Advance(p, e), f), l))
  BY <1>p, <1>c, TwoSteps
<1>P. \A q : \A t \in Stage \ Over :
        Pass(x, q, t) /\ Grows(p, q) /\ Forward(pc[x], t) /\ t # "dispatch" => Effect(x)
  BY PassEffect
<1>R. \A q : \A c \in Cause \ {"Success", "Accepted"} :
        /\ Refuse(x, q, c) \/ (RefuseRetained(x, q, c) /\ pc[x] \in Late)
        /\ Grows(p, q) /\ pc[x] \notin {"idle", "dispatch", "done", "gone"}
        => Effect(x)
  BY RefuseEffect DEF Refuse, RefuseRetained, Over, Refinement, Late
<1>f. /\ Forward("verify", "bind") /\ Forward("bind", "admission")
      /\ Forward("admission", "peek") /\ Forward("peek", "replay")
      /\ Forward("replay", "snapshot") /\ Forward("snapshot", "retire")
      /\ Forward("retire", "prepare") /\ Forward("prepare", "reserve")
      /\ Forward("reserve", "commit") /\ Forward("commit", "dispatch")
      /\ Forward("dispatch", "await") /\ Forward("await", "acknowledge")
      /\ Forward("await", "observe") /\ Forward("acknowledge", "retain")
      /\ Forward("observe", "read") /\ Forward("read", "sign") /\ Forward("sign", "record")
      /\ Forward("record", "record") /\ Forward("record", "serve")
      /\ Forward("serve", "retain") /\ Forward("retain", "done") /\ Forward("settle", "done")
  BY DEF Forward, Early, Admitted, Cleared, Opened, Late, Unread
<1>s. {"verify", "bind", "admission", "peek", "replay", "snapshot", "retire",
        "prepare", "reserve", "commit", "await", "acknowledge", "observe", "read", "sign",
        "record", "serve", "retain"} \subseteq Stage \ Over
  BY DEF Stage, Over
<1> HIDE DEF p
<1>1. CASE Verify(x)
  <2>1. Grows(p, Advance(p, "SignatureVerified"))
    BY <1>a, EventNames
  <2> QED
    BY <2>1, <1>1, <1>p, <1>P, <1>R, <1>f, <1>s DEF Verify, Was, Cause, p
<1>2. CASE BindTransport(x)
  <2>1. Grows(p, Advance(p, "TransportBindingChecked"))
    BY <1>a, EventNames
  <2> QED
    BY <2>1, <1>2, <1>p, <1>P, <1>R, <1>f, <1>s DEF BindTransport, Was, Cause, p
<1>3. CASE CheckAdmission(x)
  <2>1. Grows(p, Advance(p, "AdmissionCurrencyChecked"))
    BY <1>a, EventNames
  <2> QED
    BY <2>1, <1>3, <1>p, <1>P, <1>R, <1>f, <1>s DEF CheckAdmission, Was, Cause, p
<1>4. CASE PeekContinuation(x)
  <2>1. Grows(p, Advance(p, "ContinuationPrepared"))
        /\ Grows(p, ObserveContinuation(Advance(p, "ContinuationPrepared"), "Peeked"))
    BY <1>a, <1>b, <1>c, EventNames
  <2> QED
    BY <2>1, <1>4, <1>p, <1>P, <1>R, <1>f, <1>s DEF PeekContinuation, Was, Cause, p
<1>5. CASE AdmitReplay(x)
  <2>1. Grows(p, Advance(p, "ReplayAdmitted"))
    BY <1>a, EventNames
  <2> QED
    BY <2>1, <1>5, <1>p, <1>P, <1>R, <1>f, <1>s DEF AdmitReplay, Was, Cause, TierUnavailable, p
<1>6. CASE SnapshotKey(x)
  <2>1. Grows(p, Advance(p, "DelegatedKeySnapshotted"))
    BY <1>a, EventNames
  <2> QED
    BY <2>1, <1>6, <1>p, <1>P, <1>R, <1>f, <1>s DEF SnapshotKey, Was, Cause, p
<1>7. CASE RetireContinuation(x)
  <2>1. Grows(p, Advance(p, "ContinuationRetired"))
    BY <1>a, EventNames
  <2>2. Grows(p, Advance(ObserveContinuation(p, "Consumed"), "ContinuationRetired"))
    BY <1>b, <1>c, EventNames
  <2>3. Grows(p, ObserveContinuation(p, "Consumed"))
    BY <1>p, <1>c, ObserversGrow
  <2> QED
    BY <2>1, <2>2, <2>3, <1>7, <1>p, <1>P, <1>R, <1>f, <1>s DEF RetireContinuation, Was, Cause, AlreadyAnswered, LostConsume, p
<1>8. CASE PrepareDispatch(x)
  <2>1. Grows(p, Advance(p, "ForwardBodyPrepared"))
    BY <1>a, EventNames
  <2>2. Grows(p, Advance(Advance(p, "ForwardBodyPrepared"), "InnerPlaneAccepted"))
    BY <1>b, EventNames
  <2> QED
    BY <2>1, <2>2, <1>8, <1>p, <1>P, <1>R, <1>f, <1>s DEF PrepareDispatch, Was, Cause, p
<1>9. CASE ReserveRetention(x)
  <2>1. RefuseUnresolved(x) => Effect(x)
    BY <1>p, <1>9, RefuseEffect DEF RefuseUnresolved, ReserveRetention, Was, Over, Refinement, Cause, p
  <2> QED
    BY <2>1, <1>9, <1>p, <1>P, <1>R, <1>f, <1>s DEF ReserveRetention, Was, Cause, RefuseUnretained, p
<1>10. CASE CommitRetention(x)
  <2>1. Grows(p, Advance(p, "RetentionCommitted")) /\ Crossed(Advance(p, "RetentionCommitted"))
    BY <1>p, <1>a, EventNames, AdvanceFacts, TailEvents, CommitEstablishes DEF Crossed, Live
  <2>2. Pass(x, Advance(p, "RetentionCommitted"), "dispatch") => Effect(x)
    BY <2>1, <1>10, <1>f, PassEffect DEF CommitRetention, Was, Stage, Over, p
  <2>3. RefuseUnresolved(x) => Effect(x)
    BY <1>p, <1>10, RefuseEffect DEF RefuseUnresolved, CommitRetention, Was, Over, Refinement, Cause, p
  <2> QED
    BY <2>1, <2>2, <2>3, <1>10, <1>p, <1>P, <1>R, <1>f, <1>s DEF CommitRetention, Was, Cause, RefuseUnretained, p
<1>11. CASE Dispatch(x)
  <2>1. Grows(p, Advance(p, "BackendDispatched"))
    BY <1>a, EventNames
  <2> QED
    BY <2>1, <1>11, <1>p, <1>P, <1>R, <1>f, <1>s DEF Dispatch, Was, Cause, p
<1>12. CASE DispatchReturns(x)
  <2>1. /\ pc[x] = "await" /\ progress' = progress /\ reply' = reply
        /\ pc' = [pc EXCEPT ![x] = Resume(x)] /\ Resume(x) \in {"acknowledge", "observe"}
    BY <1>12 DEF DispatchReturns, Was, To, Resume
  <2>2. Pass(x, p, Resume(x))
    BY <2>1 DEF Typed, TypeOK, Pass, To, Learn, p
  <2> QED
    BY <2>1, <2>2, <1>p, <1>P, <1>f, <1>s
<1>13. CASE AcknowledgeNotification(x)
  <2>1. Grows(p, ObserveOrigin(p, "DispatchIndeterminate"))
    BY <1>p, <1>c, ObserversGrow
  <2>2. Grows(p, Advance(ObserveOrigin(p, "BackendReplied"), "NotificationAcknowledged"))
    BY <1>b, <1>c, EventNames
  <2>3. Grows(p, Latch(ObserveOrigin(p, "BackendReplied")))
    BY <1>b, <1>c, EventNames
  <2> QED
    BY <2>1, <2>2, <2>3, <1>13, <1>p, <1>P, <1>R, <1>f, <1>s DEF AcknowledgeNotification, Was, Cause, Late, p
<1>14. CASE ObserveReply(x)
  <2>1. Grows(p, ObserveOrigin(p, "DispatchIndeterminate"))
    BY <1>p, <1>c, ObserversGrow
  <2>2. Grows(p, Advance(ObserveOrigin(p, "BackendReplied"), "ResponseObserved"))
    BY <1>b, <1>c, EventNames
  <2> QED
    BY <2>1, <2>2, <1>14, <1>p, <1>P, <1>R, <1>f, <1>s DEF ObserveReply, Was, Cause, Late, p
<1>15. CASE ReadReply(x)
  <2>1. Grows(p, Advance(p, "EnvelopeValidated"))
    BY <1>a, EventNames
  <2>2. \A l \in OpenLeg : Grows(p,
          ObserveOpenLeg(Advance(Advance(p, "EnvelopeValidated"), "ResponseClassified"), l))
    BY <1>b, EventNames
  <2>3. "Required" \in OpenLeg /\ "NotApplicable" \in OpenLeg
    BY <1>c
  <2> QED
    BY <2>1, <2>2, <2>3, <1>15, <1>p, <1>P, <1>R, <1>f, <1>s DEF ReadReply, Was, Cause, Late, p
<1>16. CASE SignReply(x)
  <2>1. Grows(p, Advance(p, "ResponseSigned"))
    BY <1>a, EventNames
  <2> QED
    BY <2>1, <1>16, <1>p, <1>P, <1>R, <1>f, <1>s DEF SignReply, Was, Cause, p
<1>17. CASE RecordLeg(x)
  <2>1. Grows(p, Advance(p, "ContinuationNotRequired"))
    BY <1>a, EventNames
  <2>2. Grows(p, Recorded(p))
    BY <1>b, <1>c, EventNames DEF Recorded
  <2> QED
    BY <2>1, <2>2, <1>17, <1>p, <1>P, <1>R, <1>f, <1>s DEF RecordLeg, Was, Cause, RefuseCapabilityAbsent, AfterCreate, SpendAttempt, p
<1>18. CASE CheckPublication(x)
  <2>1. Grows(p, Latch(p))
    BY <1>p, ObserversGrow
  <2> QED
    BY <2>1, <1>18, <1>p, <1>P, <1>R, <1>f, <1>s DEF CheckPublication, Was, Cause, Late, p
<1>19. CASE RetainAccepted(x)
  <2>1. Grows(p, Accepted(x))
    BY <1>p, PublishGrows DEF Accepted, SuccessOf, p
  <2>2. pc[x] = "retain"
    BY <1>19 DEF RetainAccepted, Was
  <2>3. CASE Refuse(x, progress[x], "EvidenceRetentionIndeterminate")
    BY <2>2, <2>3, <1>p, <1>R DEF Cause, p
  <2>4. CASE /\ To(x, "done") /\ Learn(x, Accepted(x))
             /\ \E c \in {"Success", "Accepted"} :
                  reply' = [reply EXCEPT ![x] = [cause |-> c, execution |-> "PossiblyExecuted"]]
    <3>1. Answering(x, "done", Accepted(x))
      BY <2>2, <2>4 DEF Answering
    <3> QED
      BY <2>1, <2>2, <2>4, <3>1, <1>f DEF To, Learn, Effect, Grows, Live, Stage, p
  <2> QED
    BY <2>3, <2>4, <1>19 DEF RetainAccepted
<1>20. CASE SettleRefusal(x)
  <2>1. /\ pc[x] = "settle" /\ pc' = [pc EXCEPT ![x] = "done"] /\ reply' = reply
        /\ progress' = [progress EXCEPT ![x] = p] /\ p \in Progress
    BY <1>20, <1>p DEF SettleRefusal, Was, To, serverVars, Typed, TypeOK, Live, p
  <2>2. Answering(x, "done", p)
    BY <2>1 DEF Answering
  <2> QED
    BY <2>1, <2>2, <1>p, <1>f DEF Effect, Stage, p
<1> QED
  BY <1>1, <1>2, <1>3, <1>4, <1>5, <1>6, <1>7, <1>8, <1>9, <1>10, <1>11, <1>12, <1>13, <1>14,
     <1>15, <1>16, <1>17, <1>18, <1>19, <1>20 DEF Handle
----------------------------------------------------------------------------
(* What a step of the handler does to the shared tiers and the rest. *)
StoreFrame(x) ==
  /\ \/ opens' = opens
     \/ pc[x] = "read" /\ pc'[x] = "sign" /\ \E s \in Mintable : opens' = [opens EXCEPT ![x] = s]
  /\ \/ nonces' = nonces
     \/ pc[x] = "replay" /\ nonces' = nonces \cup {ReplayKey(x)}
  /\ pc[x] = "replay" /\ pc'[x] \in Admitted
       => ReplayKey(x) \notin nonces /\ ReplayKey(x) \in nonces'
  /\ \/ cont' = cont
     \/ cont' = [cont EXCEPT ![AnswerKey(x)] = None]
     \/ /\ pc[x] = "record" /\ opens[x] # None /\ cont[OpenKey(x)] = None
        /\ cont' = [cont EXCEPT ![OpenKey(x)] = x]
  /\ stored' \subseteq stored \cup {x}

WorldFrame(x) ==
  /\ req' = req
  /\ executed' = executed
  /\ sent' = IF pc[x] = "dispatch" THEN sent \cup {x} ELSE sent
  /\ \/ spends' = spends
     \/ /\ pc[x] = "retire" /\ Answers(x) # None
        /\ spends' = spends \cup ({x} \X ({cont[AnswerKey(x)]} \ {None}))
        /\ Spent(progress'[x])

LocalFrame(x) ==
  /\ peeked' \in [Exchange -> Exchange \cup {None}]
  /\ outcome' \in [Exchange -> Outcome \cup {None}]
  /\ attempts' \in [Exchange -> 0 .. RECORD_ATTEMPTS]
  /\ pc'[x] # "done" => attempts'[x] < RECORD_ATTEMPTS
  /\ \A y \in Exchange \ {x} : attempts'[y] = attempts[y]
  /\ marker' \in [Exchange -> {"none", "reserved", "pending"}]
  /\ archived' \subseteq Exchange

(* The keys a step uses are keys of the store. *)
LEMMA KeyTypes ==
  ASSUME Typed, NEW x \in Exchange, pc[x] # "idle"
  PROVE  /\ Answers(x) # None => AnswerKey(x) \in Key
         /\ opens[x] # None => OpenKey(x) \in Key
         /\ ReplayKey(x) \in Actor \X Nonce
BY ServingAssumption DEF Typed, TypeOK, Asked, Request, AnswerKey, OpenKey, ContinuationKey,
   ReplayKey, Key

(* Each step of the handler touches the shared tiers only as its stage may. *)
LEMMA HandleStores ==
  ASSUME Typed, NEW x \in Exchange, Handle(x)
  PROVE  StoreFrame(x)
<1>0. pc \in [Exchange -> Stage]
  BY DEF Typed, TypeOK
<1>1. CASE AdmitReplay(x)
  BY <1>0, <1>1 DEF AdmitReplay, TierUnavailable, Refuse, RefuseAt, Pass, To, Was, Admitted,
     StoreFrame, diskVars, worldVars
<1>2. CASE RetireContinuation(x)
  BY <1>2 DEF RetireContinuation, Consume, Was, StoreFrame
<1>3. CASE ReadReply(x)
  BY <1>0, <1>3 DEF ReadReply, Pass, To, Was, StoreFrame, storeVars, worldVars
<1>4. CASE RecordLeg(x)
  BY <1>4 DEF RecordLeg, Create, Was, StoreFrame
<1>5. CASE Verify(x) \/ BindTransport(x) \/ CheckAdmission(x) \/ SnapshotKey(x)
        \/ PrepareDispatch(x) \/ AcknowledgeNotification(x) \/ ObserveReply(x)
        \/ SignReply(x) \/ CheckPublication(x)
  BY <1>5 DEF Verify, BindTransport, CheckAdmission, SnapshotKey, PrepareDispatch,
     AcknowledgeNotification, ObserveReply, SignReply, CheckPublication, Was, StoreFrame,
     storeVars, worldVars
<1>6. CASE PeekContinuation(x) \/ ReserveRetention(x) \/ CommitRetention(x) \/ Dispatch(x)
        \/ DispatchReturns(x) \/ RetainAccepted(x) \/ SettleRefusal(x)
  BY <1>6 DEF PeekContinuation, ReserveRetention, CommitRetention, Dispatch, DispatchReturns,
     RetainAccepted, SettleRefusal, Was, StoreFrame, serverVars, storeVars, worldVars
<1> QED
  BY <1>1, <1>2, <1>3, <1>4, <1>5, <1>6 DEF Handle

(* Each step records in the history what it hands over and what it spends. *)
LEMMA HandleWorld ==
  ASSUME Typed, NEW x \in Exchange, Handle(x)
  PROVE  WorldFrame(x)
<1>1. CASE Dispatch(x)
  BY <1>1 DEF Dispatch, Was, WorldFrame
<1>2. CASE RetireContinuation(x)
  <2>1. Live(progress[x]) /\ progress \in [Exchange -> Progress]
    BY DEF Typed, TypeOK
  <2>2. LET q == ObserveContinuation(progress[x], "Consumed")
        IN  Live(q) /\ Spent(q)
    BY <2>1, ObserverFacts DEF Spent, ContinuationState
  <2>3. Spent(Advance(ObserveContinuation(progress[x], "Consumed"), "ContinuationRetired"))
    BY <2>2, AdvanceFacts, EventNames DEF Spent
  <2> QED
    BY <1>2, <2>1, <2>2, <2>3 DEF RetireContinuation, Consume, Was, WorldFrame, Pass, Refuse,
       RefuseAt, AlreadyAnswered, LostConsume, Learn
<1>3. CASE Verify(x) \/ BindTransport(x) \/ CheckAdmission(x) \/ SnapshotKey(x)
        \/ PrepareDispatch(x) \/ AcknowledgeNotification(x) \/ ObserveReply(x)
        \/ SignReply(x) \/ CheckPublication(x) \/ ReadReply(x)
  BY <1>3 DEF Verify, BindTransport, CheckAdmission, SnapshotKey, PrepareDispatch,
     AcknowledgeNotification, ObserveReply, SignReply, CheckPublication, ReadReply,
     Was, WorldFrame, worldVars
<1>4. CASE PeekContinuation(x) \/ ReserveRetention(x) \/ CommitRetention(x) \/ AdmitReplay(x)
        \/ DispatchReturns(x) \/ RetainAccepted(x) \/ SettleRefusal(x) \/ RecordLeg(x)
  BY <1>4 DEF PeekContinuation, ReserveRetention, CommitRetention, AdmitReplay,
     DispatchReturns, RetainAccepted, SettleRefusal, RecordLeg, Was, WorldFrame, worldVars
<1> QED
  BY <1>1, <1>2, <1>3, <1>4 DEF Handle

(* Each step keeps the exchange's own state and its disk entries typed. *)
LEMMA HandleLocals ==
  ASSUME Typed, NEW x \in Exchange, Handle(x)
  PROVE  LocalFrame(x)
<1>0. TypeOK
  BY DEF Typed
<1>a. pc[x] \notin {"idle", "done"}
  BY HandleEffect DEF Effect, Forward
<1>b. attempts[x] < RECORD_ATTEMPTS
  BY <1>a DEF Typed, Budget
<1>1. CASE PeekContinuation(x)
  <2>1. Answers(x) # None => AnswerKey(x) \in Key
    BY <1>1, KeyTypes DEF PeekContinuation, Was
  <2> QED
    BY <1>0, <1>b, <1>1, <2>1 DEF PeekContinuation, TypeOK, LocalFrame, diskVars
<1>2. CASE DispatchReturns(x)
  BY <1>0, <1>b, <1>2 DEF DispatchReturns, TypeOK, LocalFrame, diskVars, Outcome
<1>3. CASE RecordLeg(x)
  <2>1. CASE UNCHANGED attempts
    BY <1>0, <1>b, <1>3, <2>1 DEF RecordLeg, TypeOK, LocalFrame, diskVars
  <2>2. CASE SpendAttempt(x)
    <3>1. /\ attempts' = [attempts EXCEPT ![x] = attempts[x] + 1]
          /\ attempts[x] + 1 \in 1 .. RECORD_ATTEMPTS
          /\ attempts[x] + 1 < RECORD_ATTEMPTS \/ pc'[x] = "done"
      BY <1>0, <1>b, <2>2 DEF SpendAttempt, Refuse, RefuseAt, To, TypeOK, RECORD_ATTEMPTS
    <3> QED
      BY <1>0, <1>3, <3>1 DEF RecordLeg, TypeOK, LocalFrame, diskVars, RECORD_ATTEMPTS
  <2> QED
    BY <1>3, <2>1, <2>2 DEF RecordLeg
<1>4. CASE ReserveRetention(x) \/ CommitRetention(x)
  BY <1>0, <1>b, <1>4 DEF ReserveRetention, CommitRetention, TypeOK, LocalFrame
<1>5. CASE RetainAccepted(x) \/ SettleRefusal(x)
  BY <1>0, <1>b, <1>5 DEF RetainAccepted, SettleRefusal, CompleteOk, CompleteFails, TypeOK, LocalFrame,
     serverVars, diskVars
<1>6. CASE Verify(x) \/ BindTransport(x) \/ CheckAdmission(x) \/ SnapshotKey(x)
        \/ PrepareDispatch(x) \/ AcknowledgeNotification(x) \/ ObserveReply(x)
        \/ SignReply(x) \/ CheckPublication(x)
  BY <1>0, <1>b, <1>6 DEF Verify, BindTransport, CheckAdmission, SnapshotKey, PrepareDispatch,
     AcknowledgeNotification, ObserveReply, SignReply, CheckPublication, TypeOK, LocalFrame,
     diskVars
<1>7. CASE AdmitReplay(x) \/ RetireContinuation(x) \/ Dispatch(x) \/ ReadReply(x)
  BY <1>0, <1>b, <1>7 DEF AdmitReplay, RetireContinuation, Dispatch, ReadReply, TypeOK, LocalFrame,
     diskVars
<1> QED
  BY <1>1, <1>2, <1>3, <1>4, <1>5, <1>6, <1>7 DEF Handle
----------------------------------------------------------------------------
(* The typing invariant holds before any request arrives. *)
LEMMA TypedInit == Init => Typed
<1> SUFFICES ASSUME Init PROVE Typed
  OBVIOUS
<1>1. NewProgress \in Progress /\ Live(NewProgress)
  BY DEF NewProgress, Progress, Live, State, ContinuationState, BackendState, ResponseOrigin,
     OriginRank, OpenLeg, OpenLegRank, Received, CompletedContinuationOpen, FailedAfterDispatch
<1>2. TypeOK
  BY <1>1 DEF Init, TypeOK, Stage, RECORD_ATTEMPTS
<1> QED
  BY <1>1, <1>2 DEF Init, Typed, Asked, Budget, RECORD_ATTEMPTS

(* Every step of the handler preserves the typing invariant. *)
LEMMA TypedHandle ==
  ASSUME Typed, NEW x \in Exchange, Handle(x)
  PROVE  Typed'
<1>0. TypeOK
  BY DEF Typed
<1>f. StoreFrame(x) /\ WorldFrame(x) /\ LocalFrame(x)
  BY HandleStores, HandleWorld, HandleLocals
<1>e. PICK t \in Stage, q \in Progress :
        /\ pc' = [pc EXCEPT ![x] = t]
        /\ progress' = [progress EXCEPT ![x] = q]
        /\ Grows(progress[x], q)
        /\ Forward(pc[x], t)
        /\ Answering(x, t, q)
  BY HandleEffect DEF Effect
<1>l. Live(q)
  BY <1>e DEF Grows
<1>k. /\ Answers(x) # None => AnswerKey(x) \in Key
      /\ opens[x] # None => OpenKey(x) \in Key
      /\ ReplayKey(x) \in Actor \X Nonce
  BY <1>e, KeyTypes DEF Forward
<1>1. TypeOK'
  <2>1. pc' \in [Exchange -> Stage] /\ progress' \in [Exchange -> Progress]
    BY <1>0, <1>e DEF TypeOK
  <2>2. reply' \in [Exchange -> Reply \cup {None}]
    <3>1. \A r \in Refinement : Disposition(q, r) \in Execution
      BY <1>l, DispositionFacts
    <3> QED
      BY <1>0, <1>e, <3>1 DEF TypeOK, Answering, Reply, Cause, Execution
  <2>3. /\ opens' \in [Exchange -> ReqState \cup {None}]
        /\ nonces' \subseteq Actor \X Nonce
        /\ cont' \in [Key -> Exchange \cup {None}]
        /\ stored' \subseteq Exchange
    BY <1>0, <1>f, <1>k DEF TypeOK, StoreFrame, Mintable
  <2>4. spends' \subseteq Exchange \X Exchange
    BY <1>0, <1>f, <1>k DEF TypeOK, WorldFrame
  <2>5. /\ req' \in [Exchange -> Request \cup {None}]
        /\ sent' \subseteq Exchange
        /\ executed' \subseteq Exchange
    BY <1>0, <1>f DEF TypeOK, WorldFrame
  <2> QED
    BY <1>f, <2>1, <2>2, <2>3, <2>4, <2>5 DEF TypeOK, LocalFrame
<1>2. ASSUME NEW y \in Exchange PROVE Live(progress[y])'
  BY <1>0, <1>e, <1>l DEF Typed, TypeOK
<1>3. ASSUME NEW y \in Exchange PROVE Asked(y)'
  <2>1. Asked(y) /\ req' = req /\ (pc'[y] = "idle" <=> pc[y] = "idle")
    BY <1>0, <1>e, <1>f DEF Typed, TypeOK, WorldFrame, Forward
  <2>2. \A z \in Exchange : pc[z] = "done" => pc'[z] = "done" /\ opens'[z] = opens[z]
    BY <1>0, <1>e, <1>f DEF TypeOK, StoreFrame, Forward
  <2>3. req[y] \in Request => Answers(y) \in Exchange \cup {None}
    BY DEF Answers, Request
  <2> QED
    BY <2>1, <2>2, <2>3 DEF Asked, Answers
<1>4. ASSUME NEW y \in Exchange PROVE Budget(y)'
  <2>1. CASE y = x
    BY <2>1, <1>f DEF LocalFrame, Budget
  <2>2. CASE y # x
    BY <2>2, <1>0, <1>e, <1>f DEF Typed, TypeOK, LocalFrame, Budget
  <2> QED
    BY <2>1, <2>2
<1> QED
  BY <1>1, <1>2, <1>3, <1>4 DEF Typed

(* The steps that are not the handler's: arrival, the inner server, the    *)
(* queued rescind, the abandoned connection, the TTL.                      *)
LEMMA TypedOthers ==
  ASSUME Typed
  PROVE  /\ \A x \in Exchange :
              Receive(x) \/ Rescind(x) \/ InnerExecutes(x) \/ Abandon(x) => Typed'
         /\ \A k \in Key : Expire(k) => Typed'
         /\ UNCHANGED vars => Typed'
<1>0. TypeOK /\ \A x \in Exchange : Live(progress[x]) /\ Asked(x) /\ Budget(x)
  BY DEF Typed
<1>1. ASSUME NEW x \in Exchange, Receive(x) PROVE Typed'
  <2>1. PICK n \in Nonce, kind \in Kind, o \in Exchange \cup {None} :
          /\ o # None => pc[o] = "done" /\ opens[o] # None
          /\ req' = [req EXCEPT ![x] = [nonce |-> n, kind |-> kind, answers |-> o]]
    BY <1>1 DEF Receive
  <2>2. /\ pc[x] = "idle" /\ pc' = [pc EXCEPT ![x] = "verify"]
        /\ UNCHANGED <<reply, serverVars, storeVars, diskVars, worldVars>>
    BY <1>1 DEF Receive, Was, To
  <2>3. [nonce |-> n, kind |-> kind, answers |-> o] \in Request
    BY DEF Request
  <2>4. TypeOK'
    BY <1>0, <2>1, <2>2, <2>3 DEF TypeOK, Stage, serverVars, storeVars, diskVars, worldVars
  <2>5. ASSUME NEW y \in Exchange PROVE Asked(y)'
    <3>1. \A z \in Exchange : pc[z] = "done" => pc'[z] = "done" /\ opens'[z] = opens[z]
      BY <1>0, <2>2 DEF TypeOK, serverVars
    <3>2. CASE y = x
      BY <1>0, <2>1, <2>2, <2>3, <3>1, <3>2 DEF TypeOK, Asked, Answers
    <3>3. CASE y # x
      <4>1. Asked(y) /\ req'[y] = req[y] /\ pc'[y] = pc[y]
        BY <1>0, <2>1, <2>2, <3>3 DEF TypeOK
      <4>2. req[y] \in Request => Answers(y) \in Exchange \cup {None}
        BY DEF Answers, Request
      <4> QED
        BY <4>1, <4>2, <3>1 DEF Asked, Answers
    <3> QED
      BY <3>2, <3>3
  <2>6. ASSUME NEW y \in Exchange PROVE Live(progress[y])' /\ Budget(y)'
    BY <1>0, <2>2 DEF TypeOK, Budget, serverVars
  <2> QED
    BY <2>4, <2>5, <2>6 DEF Typed
<1>2. ASSUME NEW x \in Exchange, Rescind(x) PROVE Typed'
  <2>1. TypeOK'
    BY <1>0, <1>2 DEF Rescind, TypeOK, serverVars, storeVars, worldVars
  <2> QED
    BY <1>0, <1>2, <2>1 DEF Rescind, Typed, Asked, Answers, Budget, serverVars
<1>3. ASSUME NEW x \in Exchange, InnerExecutes(x) PROVE Typed'
  <2>1. TypeOK'
    BY <1>0, <1>3 DEF InnerExecutes, TypeOK, serverVars, storeVars, diskVars
  <2> QED
    BY <1>0, <1>3, <2>1 DEF InnerExecutes, Typed, Asked, Answers, Budget, serverVars
<1>4. ASSUME NEW x \in Exchange, Abandon(x) PROVE Typed'
  <2>1. TypeOK'
    BY <1>0, <1>4 DEF Abandon, To, TypeOK, Stage, serverVars, storeVars, diskVars, worldVars
  <2>2. /\ req' = req /\ opens' = opens /\ attempts' = attempts /\ progress' = progress
        /\ pc[x] \notin {"idle", "done"}
        /\ \A y \in Exchange \ {x} : pc'[y] = pc[y]
        /\ pc'[x] = "gone"
    BY <1>0, <1>4 DEF Abandon, To, TypeOK, serverVars
  <2>3. ASSUME NEW y \in Exchange PROVE Asked(y)' /\ Budget(y)'
    <3>1. req[y] \in Request => Answers(y) \in Exchange \cup {None}
      BY DEF Answers, Request
    <3> QED
      BY <1>0, <2>2, <3>1 DEF Asked, Answers, Budget
  <2> QED
    BY <1>0, <2>1, <2>2, <2>3 DEF Typed
<1>5. ASSUME NEW k \in Key, Expire(k) PROVE Typed'
  <2>1. TypeOK'
    BY <1>0, <1>5 DEF Expire, TypeOK, serverVars, diskVars, worldVars
  <2> QED
    BY <1>0, <1>5, <2>1 DEF Expire, Typed, Asked, Answers, Budget, serverVars
<1>6. ASSUME UNCHANGED vars PROVE Typed'
  <2>1. TypeOK'
    BY <1>0, <1>6 DEF vars, TypeOK, serverVars, storeVars, diskVars, worldVars
  <2> QED
    BY <1>0, <1>6, <2>1 DEF vars, Typed, Asked, Answers, Budget, serverVars
<1> QED
  BY <1>1, <1>2, <1>3, <1>4, <1>5, <1>6

(* So does every step of the system. *)
LEMMA TypedNext == Typed /\ [Next]_vars => Typed'
BY TypedHandle, TypedOthers DEF Next

(* Whatever the interleaving, every exchange's tuple of machines, every    *)
(* key the shared tiers are asked for and every reply is of its type.      *)
THEOREM ServingTypeCorrect == Spec => []TypeOK
<1>1. Spec => []Typed
  BY TypedInit, TypedNext, PTL DEF Spec
<1>2. Typed => TypeOK
  BY DEF Typed
<1> QED
  BY <1>1, <1>2, PTL

(* The continuation store never replaces a live entry by another leg's     *)
(* record: create on a taken key leaves the incumbent.                     *)
THEOREM IncumbentKeptHolds == Spec => IncumbentKept
<1> DEFINE Kept == \A k \in Key : cont[k] # None => cont'[k] \in {cont[k], None}
<1>1. ASSUME Typed, [Next]_vars PROVE [Kept]_vars
  <2>0. cont \in [Key -> Exchange \cup {None}]
    BY <1>1 DEF Typed, TypeOK
  <2>1. ASSUME NEW x \in Exchange, Handle(x) PROVE Kept
    BY <1>1, <2>0, <2>1, HandleStores DEF StoreFrame
  <2>2. ASSUME NEW x \in Exchange,
               Receive(x) \/ Rescind(x) \/ InnerExecutes(x) \/ Abandon(x)
        PROVE  Kept
    BY <2>2 DEF Receive, Rescind, InnerExecutes, Abandon, storeVars
  <2>3. ASSUME NEW k \in Key, Expire(k) PROVE Kept
    BY <2>0, <2>3 DEF Expire
  <2> QED
    BY <1>1, <2>1, <2>2, <2>3 DEF Next
<1>2. Spec => []Typed
  BY TypedInit, TypedNext, PTL DEF Spec
<1>3. Spec => [][Kept]_vars
  BY <1>1, <1>2, PTL DEF Spec
<1> QED
  BY <1>3 DEF IncumbentKept
----------------------------------------------------------------------------
(* What is needed of every step to show that a nonce is dispatched once:   *)
(* an exchange burns its nonce on entering the admitted stages, is sent    *)
(* from the last of them, and never returns to them.                       *)
Holds(x) == pc[x] \in Admitted \/ x \in sent

NotYetSent == \A x \in Exchange : pc[x] \in Early \cup Admitted => x \notin sent

HeldBurned == \A x \in Exchange : Holds(x) => ReplayKey(x) \in nonces

HeldApart ==
  \A x, y \in Exchange : x # y /\ Holds(x) /\ Holds(y) => ReplayKey(x) # ReplayKey(y)

NonceInv == NotYetSent /\ HeldBurned /\ HeldApart

(* Every step of the handler preserves the nonce invariant. *)
LEMMA NonceHandle ==
  ASSUME Typed, NonceInv, NEW x \in Exchange, Handle(x)
  PROVE  NonceInv'
<1>f. StoreFrame(x) /\ WorldFrame(x)
  BY HandleStores, HandleWorld
<1>e. PICK t \in Stage : pc' = [pc EXCEPT ![x] = t] /\ Forward(pc[x], t)
  BY HandleEffect DEF Effect
<1>0. pc \in [Exchange -> Stage]
  BY DEF Typed, TypeOK
<1>1. \A y \in Exchange \ {x} : pc'[y] = pc[y] /\ (y \in sent' <=> y \in sent)
  BY <1>0, <1>e, <1>f DEF WorldFrame
<1>2. pc'[x] = t
  BY <1>0, <1>e
<1>3. x \in sent' => x \in sent \/ (pc[x] = "dispatch" /\ t = "await")
  BY <1>e, <1>f DEF WorldFrame, Forward
<1>4. NotYetSent'
  <2>1. t \in Early \cup Admitted => pc[x] \in Early \cup Admitted
    BY <1>e DEF Forward, Early
  <2>2. "await" \notin Early \cup Admitted
    BY DEF Early, Admitted
  <2> QED
    BY <1>1, <1>2, <1>3, <2>1, <2>2 DEF NonceInv, NotYetSent
<1>5. \A y \in Exchange \ {x} : Holds(y)' <=> Holds(y)
  BY <1>1 DEF Holds
<1>6. Holds(x)' => Holds(x) \/ (pc[x] = "replay" /\ pc'[x] \in Admitted)
  BY <1>e, <1>2, <1>3 DEF Holds, Forward, Admitted
<1>7. /\ \A y \in Exchange : ReplayKey(y)' = ReplayKey(y)
      /\ nonces \subseteq nonces'
  BY <1>f DEF WorldFrame, StoreFrame, ReplayKey
<1>8. pc[x] = "replay" /\ pc'[x] \in Admitted
        => ReplayKey(x) \notin nonces /\ ReplayKey(x) \in nonces'
  BY <1>f DEF StoreFrame
<1>9. HeldBurned'
  BY <1>5, <1>6, <1>7, <1>8 DEF NonceInv, HeldBurned
<1>10. HeldApart'
  <2> SUFFICES ASSUME NEW y \in Exchange, NEW z \in Exchange, y # z, Holds(y)', Holds(z)'
               PROVE  ReplayKey(y) # ReplayKey(z)
    BY <1>7 DEF HeldApart
  <2>1. (Holds(y) => ReplayKey(y) \in nonces) /\ (Holds(z) => ReplayKey(z) \in nonces)
    BY DEF NonceInv, HeldBurned
  <2>2. Holds(y) /\ Holds(z) => ReplayKey(y) # ReplayKey(z)
    BY DEF NonceInv, HeldApart
  <2> QED
    BY <1>5, <1>6, <1>8, <2>1, <2>2
<1> QED
  BY <1>4, <1>9, <1>10 DEF NonceInv

(* So does every step of the system. *)
LEMMA NonceNext == Typed /\ NonceInv /\ [Next]_vars => NonceInv'
<1> SUFFICES ASSUME Typed, NonceInv, [Next]_vars PROVE NonceInv'
  OBVIOUS
<1>0. pc \in [Exchange -> Stage] /\ req \in [Exchange -> Request \cup {None}]
  BY DEF Typed, TypeOK
<1>1. ASSUME NEW x \in Exchange, Receive(x) PROVE NonceInv'
  <2>1. /\ pc[x] = "idle" /\ pc' = [pc EXCEPT ![x] = "verify"]
        /\ sent' = sent /\ nonces' = nonces
        /\ \A y \in Exchange \ {x} : req'[y] = req[y]
    BY <1>0, <1>1 DEF Receive, Was, To, worldVars, storeVars
  <2>2. ~Holds(x) /\ ~Holds(x)'
    BY <1>0, <2>1 DEF Holds, NonceInv, NotYetSent, Early, Admitted
  <2>3. \A y \in Exchange \ {x} : (Holds(y)' <=> Holds(y)) /\ ReplayKey(y)' = ReplayKey(y)
    BY <1>0, <2>1 DEF Holds, ReplayKey
  <2>4. NotYetSent'
    BY <1>0, <2>1 DEF NonceInv, NotYetSent, Early
  <2> QED
    BY <2>1, <2>2, <2>3, <2>4 DEF NonceInv, HeldBurned, HeldApart
<1>2. ASSUME NEW x \in Exchange, Rescind(x) \/ InnerExecutes(x) PROVE NonceInv'
  BY <1>2 DEF Rescind, InnerExecutes, storeVars, worldVars, NonceInv, NotYetSent, HeldBurned,
     HeldApart, Holds, ReplayKey
<1>3. ASSUME NEW x \in Exchange, Abandon(x) PROVE NonceInv'
  <2>1. /\ pc' = [pc EXCEPT ![x] = "gone"]
        /\ sent' = sent /\ nonces' = nonces /\ req' = req
    BY <1>3 DEF Abandon, To, worldVars, storeVars
  <2>2. \A y \in Exchange : (Holds(y)' => Holds(y)) /\ ReplayKey(y)' = ReplayKey(y)
    BY <1>0, <2>1 DEF Holds, ReplayKey, Admitted
  <2>3. NotYetSent'
    BY <1>0, <2>1 DEF NonceInv, NotYetSent, Early, Admitted
  <2> QED
    BY <2>1, <2>2, <2>3 DEF NonceInv, HeldBurned, HeldApart
<1>4. ASSUME NEW k \in Key, Expire(k) PROVE NonceInv'
  BY <1>4 DEF Expire, worldVars, NonceInv, NotYetSent, HeldBurned, HeldApart, Holds, ReplayKey
<1>5. CASE UNCHANGED vars
  BY <1>5 DEF vars, storeVars, worldVars, NonceInv, NotYetSent, HeldBurned, HeldApart, Holds,
     ReplayKey
<1> QED
  BY <1>1, <1>2, <1>3, <1>4, <1>5, NonceHandle DEF Next

(* However many exchanges present one signed request, on however many      *)
(* replicas, at most one of them is handed to the inner server.            *)
THEOREM NonceDispatchedOnceHolds == Spec => []NonceDispatchedOnce
<1>1. Init => NonceInv
  BY DEF Init, NonceInv, NotYetSent, HeldBurned, HeldApart, Holds, Admitted
<1>2. Typed /\ NonceInv => NonceDispatchedOnce
  BY DEF Typed, TypeOK, NonceInv, HeldApart, Holds, ReplayKey, NonceDispatchedOnce
<1> QED
  BY <1>1, <1>2, TypedInit, TypedNext, NonceNext, PTL DEF Spec

----------------------------------------------------------------------------
(* What is needed to show that a refusal is honest: what the inner server  *)
(* has seen and what was spent are known to the exchange's own machine,    *)
(* and an answer given keeps what the machine knew.                        *)
Spender(x) == \E o \in Exchange : <<x, o>> \in spends

RunsOnlySent == executed \subseteq sent

SentIsKnown == \A x \in Exchange : x \in sent \/ pc[x] = "dispatch" => Crossed(progress[x])

SpentIsKnown == \A x \in Exchange : Spender(x) => Spent(progress[x])

Honest(x) ==
  pc[x] \in Over /\ reply[x].cause \notin {"Success", "Accepted"} =>
    /\ x \in sent => reply[x].execution = "PossiblyExecuted"
    /\ Spender(x) => reply[x].execution \notin Plain

HonestInv == RunsOnlySent /\ SentIsKnown /\ SpentIsKnown /\ \A x \in Exchange : Honest(x)

(* Every step of the handler keeps its answer honest. *)
LEMMA HonestHandle ==
  ASSUME Typed, HonestInv, NEW x \in Exchange, Handle(x)
  PROVE  HonestInv'
<1>f. WorldFrame(x)
  BY HandleWorld
<1>e. PICK t \in Stage, q \in Progress :
        /\ pc' = [pc EXCEPT ![x] = t]
        /\ progress' = [progress EXCEPT ![x] = q]
        /\ Grows(progress[x], q)
        /\ Forward(pc[x], t)
        /\ t = "dispatch" => Crossed(q)
        /\ Answering(x, t, q)
  BY HandleEffect DEF Effect
<1>0. /\ pc \in [Exchange -> Stage] /\ progress \in [Exchange -> Progress]
      /\ reply \in [Exchange -> Reply \cup {None}]
      /\ Live(progress[x]) /\ Live(q)
  BY <1>e DEF Typed, TypeOK, Grows
<1>1. \A y \in Exchange \ {x} :
        /\ pc'[y] = pc[y] /\ progress'[y] = progress[y] /\ reply'[y] = reply[y]
        /\ (y \in sent' <=> y \in sent) /\ (Spender(y)' <=> Spender(y))
  <2>1. \A y \in Exchange \ {x} : pc'[y] = pc[y] /\ progress'[y] = progress[y]
    BY <1>0, <1>e
  <2>2. \A y \in Exchange \ {x} : reply'[y] = reply[y]
    BY <1>0, <1>e DEF Answering
  <2>3. \A y \in Exchange \ {x} : y \in sent' <=> y \in sent
    BY <1>f DEF WorldFrame
  <2>4. ASSUME NEW y \in Exchange \ {x}, NEW o \in Exchange
        PROVE  <<y, o>> \in spends' <=> <<y, o>> \in spends
    <3>1. \A S : <<y, o>> \in {x} \X S => y = x
      OBVIOUS
    <3> QED
      BY <1>f, <3>1 DEF WorldFrame
  <2>5. \A y \in Exchange \ {x} : Spender(y)' <=> Spender(y)
    BY <2>4 DEF Spender
  <2> QED
    BY <2>1, <2>2, <2>3, <2>5
<1>2. pc'[x] = t /\ progress'[x] = q
  BY <1>0, <1>e
<1>3. Crossed(progress[x]) => Crossed(q)
  BY <1>0, <1>e DEF Crossed, Grows, Live, Received, CompletedContinuationOpen, RetentionCommitted
<1>4. x \in sent' => Crossed(q)
  BY <1>3, <1>f DEF WorldFrame, HonestInv, SentIsKnown
<1>5. Spender(x)' => Spent(q)
  <2>1. Spender(x) => Spent(q)
    BY <1>e DEF HonestInv, SpentIsKnown, Spent, Grows
  <2> QED
    BY <1>f, <1>2, <2>1 DEF WorldFrame, Spender
<1>6. RunsOnlySent' /\ SentIsKnown'
  BY <1>1, <1>2, <1>4, <1>e, <1>f DEF WorldFrame, HonestInv, RunsOnlySent, SentIsKnown
<1>7. SpentIsKnown'
  BY <1>1, <1>2, <1>5 DEF HonestInv, SpentIsKnown
<1>8. ASSUME NEW y \in Exchange PROVE Honest(y)'
  <2>1. CASE y # x
    BY <1>1, <2>1 DEF HonestInv, Honest
  <2>2. CASE y = x
    <3>1. CASE t \notin Over
      BY <1>2, <2>2, <3>1 DEF Honest
    <3>2. CASE t \in Over /\ reply' = reply /\ pc[x] = "settle"
      <4>1. sent' = sent /\ spends' = spends
        BY <1>f, <3>2 DEF WorldFrame
      <4> QED
        BY <2>2, <3>2, <4>1 DEF HonestInv, Honest, Spender, Over
    <3>3. ASSUME NEW c \in Cause, NEW r \in Refinement,
                 reply' = [reply EXCEPT ![x] = [cause |-> c, execution |-> Disposition(q, r)]]
          PROVE  Honest(x)'
      <4>1. reply'[x].execution = Disposition(q, r)
        BY <1>0, <3>3
      <4> QED
        BY <1>0, <1>4, <1>5, <4>1, DispositionFacts DEF Honest
    <3>4. ASSUME NEW c \in {"Success", "Accepted"},
                 reply' = [reply EXCEPT ![x] = [cause |-> c, execution |-> "PossiblyExecuted"]]
          PROVE  Honest(x)'
      BY <1>0, <3>4 DEF Honest
    <3> QED
      BY <1>e, <2>2, <3>1, <3>2, <3>3, <3>4 DEF Answering
  <2> QED
    BY <2>1, <2>2
<1> QED
  BY <1>6, <1>7, <1>8 DEF HonestInv

(* So does every step of the system, the late execution included. *)
LEMMA HonestNext == Typed /\ HonestInv /\ [Next]_vars => HonestInv'
<1> SUFFICES ASSUME Typed, HonestInv, [Next]_vars PROVE HonestInv'
  OBVIOUS
<1>0. pc \in [Exchange -> Stage]
  BY DEF Typed, TypeOK
<1>1. ASSUME NEW x \in Exchange, NEW t \in {"verify", "gone"},
             pc' = [pc EXCEPT ![x] = t],
             UNCHANGED <<reply, progress, sent, executed, spends>>
      PROVE  HonestInv'
  BY <1>0, <1>1 DEF HonestInv, RunsOnlySent, SentIsKnown, SpentIsKnown, Honest, Spender, Over
<1>2. ASSUME NEW x \in Exchange, Receive(x) \/ Abandon(x) PROVE HonestInv'
  <2>1. /\ \E t \in {"verify", "gone"} : pc' = [pc EXCEPT ![x] = t]
        /\ UNCHANGED <<reply, progress, sent, executed, spends>>
    BY <1>2 DEF Receive, Abandon, To, serverVars, worldVars
  <2> QED
    BY <1>1, <2>1
<1>3. ASSUME NEW x \in Exchange, InnerExecutes(x) PROVE HonestInv'
  BY <1>3 DEF InnerExecutes, serverVars, HonestInv, RunsOnlySent, SentIsKnown, SpentIsKnown,
     Honest, Spender
<1>4. ASSUME UNCHANGED <<pc, reply, progress, sent, executed, spends>> PROVE HonestInv'
  BY <1>4 DEF HonestInv, RunsOnlySent, SentIsKnown, SpentIsKnown, Honest, Spender
<1>5. ASSUME NEW x \in Exchange, Rescind(x) PROVE HonestInv'
  BY <1>4, <1>5 DEF Rescind, serverVars, worldVars
<1>6. ASSUME NEW k \in Key, Expire(k) PROVE HonestInv'
  BY <1>4, <1>6 DEF Expire, serverVars, worldVars
<1>7. CASE UNCHANGED vars
  BY <1>4, <1>7 DEF vars, serverVars, worldVars
<1> QED
  BY <1>2, <1>3, <1>5, <1>6, <1>7, HonestHandle DEF Next

(* A client told that nothing was executed can retry: the inner server has *)
(* not acted on its call and never will, and no approval was spent by it,  *)
(* whatever was lost, abandoned or interleaved on the way.                 *)
THEOREM DispositionHonestHolds == Spec => []DispositionHonest
<1>1. Init => HonestInv
  BY DEF Init, HonestInv, RunsOnlySent, SentIsKnown, SpentIsKnown, Honest, Spender, Over
<1>2. Typed /\ HonestInv => DispositionHonest
  <2> SUFFICES ASSUME Typed, HonestInv, NEW x \in Exchange, Refused(x)
               PROVE  /\ reply[x].execution \in Plain => x \notin executed /\ x \notin Spenders
                      /\ reply[x].execution = "ApprovalSpentNothingExecuted" => x \notin executed
    BY DEF DispositionHonest, ClaimsNothingRan, Plain
  <2>1. /\ x \in sent => reply[x].execution = "PossiblyExecuted"
        /\ Spender(x) => reply[x].execution \notin Plain
    BY DEF HonestInv, Honest, Refused, Over
  <2>2. x \in executed => x \in sent
    BY DEF HonestInv, RunsOnlySent
  <2>3. ASSUME x \in Spenders PROVE Spender(x)
    <3>1. PICK s \in spends : x = s[1]
      BY <2>3 DEF Spenders
    <3>2. s \in Exchange \X Exchange
      BY DEF Typed, TypeOK
    <3>3. s = <<s[1], s[2]>> /\ s[2] \in Exchange
      BY <3>2
    <3> QED
      BY <3>1, <3>3 DEF Spender
  <2> QED
    BY <2>1, <2>2, <2>3 DEF Plain
<1> QED
  BY <1>1, <1>2, TypedInit, TypedNext, HonestNext, PTL DEF Spec

----------------------------------------------------------------------------
(***************************************************************************)
(* The two stores the pipeline shares with the other replicas: an approval *)
(* held in the continuation store, and a crossing recorded in the evidence *)
(* store; and the handler and its lifecycle machine in step.               *)
(***************************************************************************)

(* The read that binds an answer, and the spend that retires it. *)
PeekFrame(x) ==
  /\ \/ peeked' = peeked
     \/ /\ pc[x] = "peek" /\ Answers(x) # None
        /\ peeked' = [peeked EXCEPT ![x] = cont[AnswerKey(x)]]
  /\ pc[x] = "replay" /\ pc'[x] \in Admitted => peeked'[x] = Answers(x)

RetireFrame(x) ==
  /\ spends' # spends =>
       /\ pc[x] = "retire" /\ Answers(x) # None /\ cont[AnswerKey(x)] # None
       /\ spends' = spends \cup {<<x, cont[AnswerKey(x)]>>}
       /\ cont' = [cont EXCEPT ![AnswerKey(x)] = None]
  /\ pc[x] = "retire" /\ pc'[x] = "prepare" /\ Answers(x) # None =>
       <<x, cont[AnswerKey(x)]>> \in spends' /\ cont[AnswerKey(x)] # None

(* Each step of the handler reads the continuation store only as its stage may. *)
LEMMA HandlePeeks ==
  ASSUME Typed, NEW x \in Exchange, Handle(x)
  PROVE  PeekFrame(x)
<1>0. pc \in [Exchange -> Stage]
  BY DEF Typed, TypeOK
<1>1. CASE AdmitReplay(x)
  BY <1>0, <1>1 DEF AdmitReplay, BindingVerifies, TierUnavailable, Refuse, RefuseAt, Pass, To,
     Was, Admitted, PeekFrame
<1>2. CASE PeekContinuation(x)
  BY <1>2 DEF PeekContinuation, Was, PeekFrame
<1>3. CASE Verify(x) \/ BindTransport(x) \/ CheckAdmission(x) \/ SnapshotKey(x)
        \/ PrepareDispatch(x) \/ AcknowledgeNotification(x) \/ ObserveReply(x)
        \/ SignReply(x) \/ CheckPublication(x)
  BY <1>3 DEF Verify, BindTransport, CheckAdmission, SnapshotKey, PrepareDispatch,
     AcknowledgeNotification, ObserveReply, SignReply, CheckPublication, Was, PeekFrame
<1>4. CASE ReserveRetention(x) \/ CommitRetention(x) \/ Dispatch(x) \/ DispatchReturns(x)
        \/ RetainAccepted(x) \/ SettleRefusal(x) \/ RetireContinuation(x) \/ ReadReply(x)
        \/ RecordLeg(x)
  BY <1>4 DEF ReserveRetention, CommitRetention, Dispatch, DispatchReturns, RetainAccepted,
     SettleRefusal, RetireContinuation, ReadReply, RecordLeg, Was, PeekFrame, serverVars
<1> QED
  BY <1>1, <1>2, <1>3, <1>4 DEF Handle

(* A spend removes one live entry, and passing the retirement needs one. *)
LEMMA HandleRetires ==
  ASSUME Typed, NEW x \in Exchange, Handle(x)
  PROVE  RetireFrame(x)
<1>0. pc \in [Exchange -> Stage]
  BY DEF Typed, TypeOK
<1>1. CASE RetireContinuation(x)
  <2>1. Consume(x) /\ cont[AnswerKey(x)] # None =>
          spends' = spends \cup {<<x, cont[AnswerKey(x)]>>}
    BY DEF Consume
  <2>2. Consume(x) /\ cont[AnswerKey(x)] = None => spends' = spends
    BY DEF Consume
  <2>3. CASE Answers(x) = None
    BY <1>1, <2>3 DEF RetireContinuation, RetireFrame
  <2>4. CASE /\ Answers(x) # None /\ cont[AnswerKey(x)] # None /\ Consume(x)
    BY <1>1, <2>1, <2>4 DEF RetireContinuation, Consume, Was, RetireFrame
  <2>5. CASE AlreadyAnswered(x) /\ UNCHANGED spends
    BY <1>0, <2>5 DEF AlreadyAnswered, Refuse, RefuseAt, To, RetireFrame
  <2>6. CASE /\ Answers(x) # None /\ (Consume(x) \/ UNCHANGED <<cont, spends>>)
             /\ Refuse(x, LostConsume(x), "ReplayCacheUnavailable")
    <3>1. pc'[x] = "done"
      BY <1>0, <2>6 DEF Refuse, RefuseAt, To
    <3> QED
      BY <1>1, <2>1, <2>2, <2>6, <3>1 DEF RetireContinuation, Consume, Was, RetireFrame
  <2> QED
    BY <1>1, <2>3, <2>4, <2>5, <2>6 DEF RetireContinuation
<1>2. CASE pc[x] # "retire"
  BY <1>2, HandleWorld DEF WorldFrame, RetireFrame
<1>3. CASE pc[x] = "retire"
  BY <1>1, <1>3 DEF Handle, Verify, BindTransport, CheckAdmission, PeekContinuation, AdmitReplay,
     SnapshotKey, PrepareDispatch, ReserveRetention, CommitRetention, Dispatch, DispatchReturns,
     AcknowledgeNotification, ObserveReply, ReadReply, SignReply, RecordLeg, CheckPublication,
     RetainAccepted, SettleRefusal, Was
<1> QED
  BY <1>2, <1>3

----------------------------------------------------------------------------
(* What is needed to show that an answer was its own actor's: an entry of  *)
(* the store lies under the key of the leg that opened it, so the bases an *)
(* exchange read are of a leg of its own actor, and past the replay stage  *)
(* they are the bases of the leg it answers.                               *)
EntryOwned ==
  \A k \in Key :
    cont[k] # None =>
      /\ pc[cont[k]] \in Opened /\ opens[cont[k]] # None
      /\ k = OpenKey(cont[k])

PeekOwned == \A x \in Exchange : peeked[x] # None => ActorOf[peeked[x]] = ActorOf[x]

BindKept == \A x \in Exchange : Holds(x) => peeked[x] = Answers(x)

OwnedInv == EntryOwned /\ PeekOwned /\ BindKept

(* Every step of the handler preserves the ownership of the entries. *)
LEMMA OwnedHandle ==
  ASSUME Typed, NonceInv, OwnedInv, NEW x \in Exchange, Handle(x)
  PROVE  OwnedInv'
<1>f. StoreFrame(x) /\ WorldFrame(x) /\ PeekFrame(x)
  BY HandleStores, HandleWorld, HandlePeeks
<1>e. PICK t \in Stage : pc' = [pc EXCEPT ![x] = t] /\ Forward(pc[x], t)
  BY HandleEffect DEF Effect
<1>0. /\ pc \in [Exchange -> Stage] /\ cont \in [Key -> Exchange \cup {None}]
      /\ peeked \in [Exchange -> Exchange \cup {None}]
      /\ opens \in [Exchange -> ReqState \cup {None}]
  BY DEF Typed, TypeOK
<1>1. \A y \in Exchange : pc[y] \in Opened =>
        pc'[y] \in Opened /\ opens'[y] = opens[y] /\ OpenKey(y)' = OpenKey(y)
  <2>1. \A y \in Exchange : pc[y] \in Opened => pc'[y] \in Opened /\ opens'[y] = opens[y]
    BY <1>0, <1>e, <1>f DEF StoreFrame, Forward, Opened
  <2> QED
    BY <2>1 DEF OpenKey, ContinuationKey
<1>2. EntryOwned'
  <2> SUFFICES ASSUME NEW k \in Key, cont'[k] # None
               PROVE  /\ pc'[cont'[k]] \in Opened /\ opens'[cont'[k]] # None
                      /\ k = <<ActorOf[cont'[k]], opens'[cont'[k]]>>
    BY DEF EntryOwned, OpenKey, ContinuationKey
  <2>1. CASE cont'[k] = cont[k]
    BY <1>0, <1>1, <2>1 DEF OwnedInv, EntryOwned, OpenKey, ContinuationKey
  <2>2. CASE /\ pc[x] = "record" /\ opens[x] # None /\ cont'[k] = x /\ k = OpenKey(x)
    <3>1. pc[x] \in Opened
      BY <2>2 DEF Opened
    <3> QED
      BY <1>1, <2>2, <3>1 DEF OpenKey, ContinuationKey
  <2> QED
    BY <1>0, <1>f, <2>1, <2>2 DEF StoreFrame
<1>3. PeekOwned'
  <2> SUFFICES ASSUME NEW y \in Exchange, peeked'[y] # None
               PROVE  ActorOf[peeked'[y]] = ActorOf[y]
    BY DEF PeekOwned
  <2>1. CASE peeked'[y] = peeked[y]
    BY <2>1 DEF OwnedInv, PeekOwned
  <2>2. CASE y = x /\ Answers(x) # None /\ peeked'[x] = cont[AnswerKey(x)]
    <3>1. AnswerKey(x) \in Key
      BY <1>e, <2>2, KeyTypes DEF Forward
    <3>2. AnswerKey(x) = OpenKey(peeked'[x])
      BY <2>2, <3>1 DEF OwnedInv, EntryOwned
    <3> QED
      BY <2>2, <3>2 DEF AnswerKey, OpenKey, ContinuationKey
  <2> QED
    BY <1>0, <1>f, <2>1, <2>2 DEF PeekFrame
<1>4. BindKept'
  <2> SUFFICES ASSUME NEW y \in Exchange, Holds(y)' PROVE peeked'[y] = Answers(y)
    BY <1>f DEF BindKept, Answers, WorldFrame
  <2>1. CASE y # x
    <3>1. Holds(y) /\ peeked'[y] = peeked[y]
      BY <1>0, <1>e, <1>f, <2>1 DEF Holds, WorldFrame, PeekFrame
    <3> QED
      BY <3>1 DEF OwnedInv, BindKept
  <2>2. CASE y = x /\ Holds(x)
    <3>1. pc[x] # "peek"
      BY <2>2 DEF Holds, NonceInv, NotYetSent, Early, Admitted
    <3> QED
      BY <1>f, <2>2, <3>1 DEF PeekFrame, OwnedInv, BindKept
  <2>3. CASE y = x /\ ~Holds(x)
    <3>1. pc[x] = "replay" /\ pc'[x] \in Admitted
      BY <1>0, <1>e, <1>f, <2>3 DEF Holds, WorldFrame, Forward, Admitted
    <3> QED
      BY <1>f, <2>3, <3>1 DEF PeekFrame
  <2> QED
    BY <2>1, <2>2, <2>3
<1> QED
  BY <1>2, <1>3, <1>4 DEF OwnedInv

(* So does every step of the system. *)
LEMMA OwnedNext == Typed /\ NonceInv /\ OwnedInv /\ [Next]_vars => OwnedInv'
<1> SUFFICES ASSUME Typed, NonceInv, OwnedInv, [Next]_vars PROVE OwnedInv'
  OBVIOUS
<1>0. /\ pc \in [Exchange -> Stage] /\ req \in [Exchange -> Request \cup {None}]
      /\ cont \in [Key -> Exchange \cup {None}]
  BY DEF Typed, TypeOK
<1>1. ASSUME NEW x \in Exchange, NEW t \in {"verify", "gone"}, pc' = [pc EXCEPT ![x] = t],
             pc[x] = "idle" \/ (t = "gone" /\ req' = req),
             \A y \in Exchange \ {x} : req'[y] = req[y],
             UNCHANGED <<opens, peeked, cont, sent>>
      PROVE  OwnedInv'
  <2>1. EntryOwned' /\ PeekOwned'
    BY <1>0, <1>1 DEF OwnedInv, EntryOwned, PeekOwned, OpenKey, ContinuationKey, Opened
  <2>2. \A y \in Exchange : Holds(y)' => Holds(y) /\ req'[y] = req[y]
    BY <1>0, <1>1 DEF Holds, NonceInv, NotYetSent, Early, Admitted
  <2> QED
    BY <1>1, <2>1, <2>2 DEF OwnedInv, BindKept, Answers
<1>2. ASSUME NEW x \in Exchange, Receive(x) PROVE OwnedInv'
  <2>1. /\ pc[x] = "idle" /\ pc' = [pc EXCEPT ![x] = "verify"]
        /\ \A y \in Exchange \ {x} : req'[y] = req[y]
        /\ UNCHANGED <<opens, peeked, cont, sent>>
    BY <1>0, <1>2 DEF Receive, Was, To, serverVars, storeVars, worldVars
  <2> QED
    BY <1>1, <2>1
<1>3. ASSUME NEW x \in Exchange, Abandon(x) PROVE OwnedInv'
  <2>1. /\ pc' = [pc EXCEPT ![x] = "gone"] /\ req' = req
        /\ UNCHANGED <<opens, peeked, cont, sent>>
    BY <1>3 DEF Abandon, To, serverVars, storeVars, worldVars
  <2> QED
    BY <1>1, <2>1
<1>4. ASSUME NEW k \in Key, Expire(k) PROVE OwnedInv'
  BY <1>0, <1>4 DEF Expire, serverVars, worldVars, OwnedInv, EntryOwned, PeekOwned, BindKept,
     Holds, Answers, OpenKey, ContinuationKey
<1>5. ASSUME UNCHANGED <<pc, req, opens, peeked, cont, sent>> PROVE OwnedInv'
  BY <1>5 DEF OwnedInv, EntryOwned, PeekOwned, BindKept, Holds, Answers, OpenKey,
     ContinuationKey
<1>6. ASSUME NEW x \in Exchange, Rescind(x) \/ InnerExecutes(x) PROVE OwnedInv'
  BY <1>5, <1>6 DEF Rescind, InnerExecutes, serverVars, storeVars, worldVars
<1>7. CASE UNCHANGED vars
  BY <1>5, <1>7 DEF vars, serverVars, storeVars, worldVars
<1> QED
  BY <1>2, <1>3, <1>4, <1>6, <1>7, OwnedHandle DEF Next

(* Nothing is held and nothing is stored before any request arrives. *)
LEMMA InitInvariants == Init => NonceInv /\ OwnedInv
BY DEF Init, NonceInv, NotYetSent, HeldBurned, HeldApart, Holds, Admitted, OwnedInv, EntryOwned,
   PeekOwned, BindKept

(* An answer that reaches the inner server is the answer of the actor the  *)
(* elicitation was served to, for any number of actors and states, even    *)
(* when the inner application mints a requestState twice.                  *)
THEOREM ApprovalByItsActorHolds == Spec => []ApprovalByItsActor
<1>1. Typed /\ OwnedInv => ApprovalByItsActor
  BY DEF Typed, TypeOK, OwnedInv, PeekOwned, BindKept, Holds, ApprovalByItsActor
<1> QED
  BY <1>1, InitInvariants, TypedInit, TypedNext, NonceNext, OwnedNext, PTL DEF Spec

----------------------------------------------------------------------------
(* What is needed to show that an approval is spent once, when the inner   *)
(* application never mints a requestState twice: the leg whose entry a     *)
(* spend removed is the leg the spender answers, it is finished, so nobody *)
(* puts its entry back, and no exchange passes the retirement unspent.     *)
MintedOnce ==
  \A x, y \in Exchange : opens[x] # None /\ opens[x] = opens[y] => x = y

SpendSettled ==
  \A x, o \in Exchange :
    <<x, o>> \in spends =>
      /\ pc[x] # "idle" /\ Answers(x) = o
      /\ pc[o] = "done" /\ opens[o] # None
      /\ cont[OpenKey(o)] = None

SpentOnce == \A x, y, o \in Exchange : <<x, o>> \in spends /\ <<y, o>> \in spends => x = y

PassedSpent ==
  \A x \in Exchange :
    pc[x] \in Cleared \/ x \in sent => Answers(x) = None \/ <<x, Answers(x)>> \in spends

OneShotInv == MintedOnce /\ SpendSettled /\ SpentOnce /\ PassedSpent

(* Every step of the handler preserves the one-shot invariant. *)
LEMMA OneShotHandle ==
  ASSUME ~InnerReusesState, Typed, NonceInv, OwnedInv, OneShotInv, NEW x \in Exchange, Handle(x)
  PROVE  OneShotInv'
<1>f. StoreFrame(x) /\ WorldFrame(x) /\ RetireFrame(x)
  BY HandleStores, HandleWorld, HandleRetires
<1>e. PICK t \in Stage : pc' = [pc EXCEPT ![x] = t] /\ Forward(pc[x], t)
  BY HandleEffect DEF Effect
<1>0. /\ pc \in [Exchange -> Stage] /\ cont \in [Key -> Exchange \cup {None}]
      /\ opens \in [Exchange -> ReqState \cup {None}] /\ spends \subseteq Exchange \X Exchange
      /\ Asked(x) /\ pc[x] # "idle"
  BY <1>e DEF Typed, TypeOK, Forward
<1>a. Answers(x) \in Exchange \cup {None}
  BY <1>0 DEF Asked, Answers, Request
<1>b. \A y \in Exchange : Answers(y)' = Answers(y)
  BY <1>f DEF WorldFrame, Answers
<1>c. \A o \in Exchange : pc[o] = "done" => pc'[o] = "done" /\ opens'[o] = opens[o]
  BY <1>0, <1>e, <1>f DEF StoreFrame, Forward
<1>k. \A o \in Exchange : opens[o] # None => OpenKey(o) \in Key
  BY <1>0, ServingAssumption DEF OpenKey, ContinuationKey, Key
<1>1. MintedOnce'
  BY <1>0, <1>f DEF StoreFrame, Mintable, OneShotInv, MintedOnce
<1>2. ASSUME Answers(x) # None, cont[AnswerKey(x)] # None
      PROVE  cont[AnswerKey(x)] = Answers(x) /\ AnswerKey(x) = OpenKey(Answers(x))
  <2>1. AnswerKey(x) \in Key
    BY <1>0, <1>2, KeyTypes
  <2>2. cont[AnswerKey(x)] \in Exchange /\ AnswerKey(x) = OpenKey(cont[AnswerKey(x)])
    BY <1>0, <1>2, <2>1 DEF OwnedInv, EntryOwned
  <2>3. opens[cont[AnswerKey(x)]] = opens[Answers(x)] /\ opens[Answers(x)] \in ReqState
    BY <1>0, <1>2, <2>2 DEF AnswerKey, OpenKey, ContinuationKey, Asked
  <2>4. cont[AnswerKey(x)] = Answers(x)
    BY <1>a, <1>2, <2>2, <2>3, ServingAssumption DEF OneShotInv, MintedOnce
  <2> QED
    BY <2>2, <2>4
<1>3. \A o \in Exchange : pc[o] = "done" /\ opens[o] # None /\ cont[OpenKey(o)] = None
        => cont'[OpenKey(o)] = None
  <2> SUFFICES ASSUME NEW o \in Exchange, pc[o] = "done", opens[o] # None,
                      cont[OpenKey(o)] = None, cont'[OpenKey(o)] # None
               PROVE  FALSE
    OBVIOUS
  <2>1. pc[x] = "record" /\ opens[x] # None /\ OpenKey(o) = OpenKey(x)
    BY <1>0, <1>f, <1>k DEF StoreFrame
  <2>2. opens[o] = opens[x]
    BY <2>1 DEF OpenKey, ContinuationKey
  <2> QED
    BY <2>1, <2>2 DEF OneShotInv, MintedOnce
<1>4. CASE spends' = spends
  <2>1. SpendSettled'
    <3> SUFFICES ASSUME NEW y \in Exchange, NEW o \in Exchange, <<y, o>> \in spends
                 PROVE  /\ pc'[y] # "idle" /\ Answers(y) = o
                        /\ pc'[o] = "done" /\ opens'[o] # None
                        /\ cont'[OpenKey(o)'] = None
      BY <1>4, <1>b DEF SpendSettled, OpenKey, ContinuationKey
    <3>1. /\ pc[y] # "idle" /\ Answers(y) = o /\ pc[o] = "done" /\ opens[o] # None
          /\ cont[OpenKey(o)] = None
      BY DEF OneShotInv, SpendSettled
    <3>2. pc'[y] # "idle" /\ OpenKey(o)' = OpenKey(o)
      BY <1>0, <1>e, <1>c, <3>1 DEF Forward, OpenKey, ContinuationKey
    <3> QED
      BY <1>c, <1>3, <3>1, <3>2
  <2>2. SpentOnce'
    BY <1>4 DEF OneShotInv, SpentOnce
  <2>3. PassedSpent'
    <3> SUFFICES ASSUME NEW y \in Exchange, pc'[y] \in Cleared \/ y \in sent', Answers(y) # None
                 PROVE  <<y, Answers(y)>> \in spends
      BY <1>4, <1>b DEF PassedSpent
    <3>1. CASE pc[y] \in Cleared \/ y \in sent
      BY <3>1 DEF OneShotInv, PassedSpent
    <3>2. CASE ~(pc[y] \in Cleared \/ y \in sent)
      <4>1. y = x /\ pc[x] = "retire" /\ pc'[x] = "prepare"
        BY <1>0, <1>e, <1>f, <3>2 DEF WorldFrame, Forward, Cleared
      <4>2. /\ <<x, cont[AnswerKey(x)]>> \in spends /\ cont[AnswerKey(x)] # None
        BY <1>4, <1>f, <4>1 DEF RetireFrame
      <4> QED
        BY <1>2, <4>1, <4>2
    <3> QED
      BY <3>1, <3>2
  <2> QED
    BY <1>1, <2>1, <2>2, <2>3 DEF OneShotInv
<1>5. CASE spends' # spends
  <2> DEFINE a == Answers(x)
  <2>1. /\ a # None /\ pc[x] = "retire" /\ cont[AnswerKey(x)] # None
        /\ spends' = spends \cup {<<x, cont[AnswerKey(x)]>>}
        /\ cont' = [cont EXCEPT ![AnswerKey(x)] = None]
    BY <1>f, <1>5 DEF RetireFrame
  <2>2. /\ a \in Exchange /\ cont[AnswerKey(x)] = a /\ AnswerKey(x) = OpenKey(a)
        /\ pc[a] = "done" /\ opens[a] # None /\ OpenKey(a) \in Key
    BY <1>0, <1>a, <1>2, <1>k, <2>1, ServingAssumption DEF Asked
  <2>3. spends' = spends \cup {<<x, a>>} /\ cont' = [cont EXCEPT ![OpenKey(a)] = None]
    BY <2>1, <2>2
  <2> HIDE DEF a
  <2>4. \A y \in Exchange : <<y, a>> \notin spends
    BY <2>1, <2>2 DEF OneShotInv, SpendSettled
  <2>5. SpentOnce'
    BY <2>2, <2>3, <2>4 DEF OneShotInv, SpentOnce
  <2>6. SpendSettled'
    <3> SUFFICES ASSUME NEW y \in Exchange, NEW o \in Exchange, <<y, o>> \in spends'
                 PROVE  /\ pc'[y] # "idle" /\ Answers(y) = o
                        /\ pc'[o] = "done" /\ opens'[o] # None
                        /\ cont'[OpenKey(o)'] = None
      BY <1>b DEF SpendSettled, OpenKey, ContinuationKey
    <3>1. CASE <<y, o>> \in spends
      <4>1. /\ pc[y] # "idle" /\ Answers(y) = o /\ pc[o] = "done" /\ opens[o] # None
            /\ cont[OpenKey(o)] = None
        BY <3>1 DEF OneShotInv, SpendSettled
      <4>2. pc'[y] # "idle" /\ OpenKey(o)' = OpenKey(o)
        BY <1>0, <1>e, <1>c, <4>1 DEF Forward, OpenKey, ContinuationKey
      <4> QED
        BY <1>c, <1>3, <4>1, <4>2
    <3>2. CASE y = x /\ o = a
      <4>1. OpenKey(o)' = OpenKey(o) /\ pc'[x] # "idle" /\ OpenKey(a) = OpenKey(o)
        BY <1>0, <1>e, <1>c, <2>2, <3>2 DEF Forward, OpenKey, ContinuationKey
      <4>2. cont'[OpenKey(o)] = None
        BY <1>0, <2>2, <2>3, <4>1
      <4>3. Answers(x) = o
        BY <3>2 DEF a
      <4> QED
        BY <1>c, <2>2, <3>2, <4>1, <4>2, <4>3
    <3> QED
      BY <2>3, <3>1, <3>2
  <2>7. PassedSpent'
    <3> SUFFICES ASSUME NEW y \in Exchange, pc'[y] \in Cleared \/ y \in sent', Answers(y) # None
                 PROVE  <<y, Answers(y)>> \in spends'
      BY <1>b DEF PassedSpent
    <3>1. CASE y = x
      BY <2>3, <3>1 DEF a
    <3>2. CASE y # x
      <4>1. pc[y] \in Cleared \/ y \in sent
        BY <1>0, <1>e, <1>f, <3>2 DEF WorldFrame
      <4> QED
        BY <2>3, <4>1 DEF OneShotInv, PassedSpent
    <3> QED
      BY <3>1, <3>2
  <2> QED
    BY <1>1, <2>5, <2>6, <2>7 DEF OneShotInv
<1> QED
  BY <1>4, <1>5

(* So does every step of the system. *)
LEMMA OneShotNext ==
  ASSUME ~InnerReusesState
  PROVE  Typed /\ NonceInv /\ OwnedInv /\ OneShotInv /\ [Next]_vars => OneShotInv'
<1> SUFFICES ASSUME Typed, NonceInv, OwnedInv, OneShotInv, [Next]_vars PROVE OneShotInv'
  OBVIOUS
<1>0. /\ pc \in [Exchange -> Stage] /\ req \in [Exchange -> Request \cup {None}]
      /\ cont \in [Key -> Exchange \cup {None}]
      /\ opens \in [Exchange -> ReqState \cup {None}]
  BY DEF Typed, TypeOK
<1>1. ASSUME NEW x \in Exchange, NEW t \in {"verify", "gone"}, pc' = [pc EXCEPT ![x] = t],
             pc[x] = "idle" \/ (pc[x] # "done" /\ t = "gone" /\ req' = req),
             \A y \in Exchange \ {x} : req'[y] = req[y],
             UNCHANGED <<opens, cont, sent, spends>>
      PROVE  OneShotInv'
  <2>1. pc[x] # "done"
    BY <1>1
  <2>2. MintedOnce' /\ SpentOnce'
    BY <1>1 DEF OneShotInv, MintedOnce, SpentOnce
  <2>3. SpendSettled'
    BY <1>0, <1>1, <2>1 DEF OneShotInv, SpendSettled, Answers, OpenKey, ContinuationKey
  <2>4. \A y \in Exchange :
          pc'[y] \in Cleared \/ y \in sent' =>
            (pc[y] \in Cleared \/ y \in sent) /\ req'[y] = req[y]
    BY <1>0, <1>1 DEF NonceInv, NotYetSent, Early, Cleared
  <2>5. PassedSpent'
    BY <1>1, <2>4 DEF OneShotInv, PassedSpent, Answers
  <2> QED
    BY <2>2, <2>3, <2>5 DEF OneShotInv
<1>2. ASSUME NEW x \in Exchange, Receive(x) PROVE OneShotInv'
  <2>1. /\ pc[x] = "idle" /\ pc' = [pc EXCEPT ![x] = "verify"]
        /\ \A y \in Exchange \ {x} : req'[y] = req[y]
        /\ UNCHANGED <<opens, cont, sent, spends>>
    BY <1>0, <1>2 DEF Receive, Was, To, serverVars, storeVars, worldVars
  <2> QED
    BY <1>1, <2>1
<1>3. ASSUME NEW x \in Exchange, Abandon(x) PROVE OneShotInv'
  <2>1. /\ pc[x] # "done" /\ pc' = [pc EXCEPT ![x] = "gone"] /\ req' = req
        /\ UNCHANGED <<opens, cont, sent, spends>>
    BY <1>3 DEF Abandon, To, serverVars, storeVars, worldVars
  <2> QED
    BY <1>1, <2>1
<1>4. ASSUME NEW k \in Key, Expire(k) PROVE OneShotInv'
  <2>1. /\ UNCHANGED <<pc, req, opens, sent, spends>>
        /\ \A j \in Key : cont'[j] \in {cont[j], None}
    BY <1>0, <1>4 DEF Expire, serverVars, worldVars
  <2>2. \A o \in Exchange : opens[o] # None => OpenKey(o) \in Key
    BY <1>0, ServingAssumption DEF OpenKey, ContinuationKey, Key
  <2>3. SpendSettled'
    BY <2>1, <2>2 DEF OneShotInv, SpendSettled, Answers, OpenKey, ContinuationKey
  <2> QED
    BY <2>1, <2>3 DEF OneShotInv, MintedOnce, SpentOnce, PassedSpent, Answers
<1>5. ASSUME UNCHANGED <<pc, req, opens, cont, sent, spends>> PROVE OneShotInv'
  BY <1>5 DEF OneShotInv, MintedOnce, SpendSettled, SpentOnce, PassedSpent, Answers, OpenKey,
     ContinuationKey
<1>6. ASSUME NEW x \in Exchange, Rescind(x) \/ InnerExecutes(x) PROVE OneShotInv'
  BY <1>5, <1>6 DEF Rescind, InnerExecutes, serverVars, storeVars, worldVars
<1>7. CASE UNCHANGED vars
  BY <1>5, <1>7 DEF vars, serverVars, storeVars, worldVars
<1> QED
  BY <1>2, <1>3, <1>4, <1>6, <1>7, OneShotHandle DEF Next

(* Of all the answers to one elicitation at most one reaches the inner     *)
(* server, provided the inner application never mints a requestState twice *)
(* (the run serving_reuse shows that the proviso is needed).               *)
THEOREM ApprovalOneShotHolds == ASSUME ~InnerReusesState PROVE Spec => []ApprovalOneShot
<1>1. Init => OneShotInv
  BY DEF Init, OneShotInv, MintedOnce, SpendSettled, SpentOnce, PassedSpent, Cleared
<1>2. Typed /\ OneShotInv => ApprovalOneShot
  <2> SUFFICES ASSUME Typed, OneShotInv, NEW x \in sent, NEW y \in sent, x # y,
                      Answers(x) # None, Answers(x) = Answers(y)
               PROVE  FALSE
    BY DEF ApprovalOneShot
  <2>1. /\ x \in Exchange /\ y \in Exchange
        /\ <<x, Answers(x)>> \in spends /\ <<y, Answers(x)>> \in spends
    BY DEF Typed, TypeOK, OneShotInv, PassedSpent
  <2>2. Answers(x) \in Exchange
    BY <2>1 DEF Typed, TypeOK
  <2> QED
    BY <2>1, <2>2 DEF OneShotInv, SpentOnce
<1> QED
  BY <1>1, <1>2, InitInvariants, TypedInit, TypedNext, NonceNext, OwnedNext, OneShotNext, PTL
  DEF Spec
----------------------------------------------------------------------------
(* What a step of the handler does to the evidence store. *)
DiskFrame(x) ==
  /\ archived \subseteq archived'
  /\ \A y \in Exchange \ {x} : marker'[y] = marker[y]
  /\ RetentionConfigured /\ pc[x] = "commit" /\ pc'[x] = "dispatch" => marker'[x] = "pending"
  /\ marker'[x] # marker[x] =>
       \/ pc[x] \in {"reserve", "commit"}
       \/ pc[x] \in {"retain", "settle"} /\ x \in archived'
  /\ marker'[x] = "pending" /\ marker'[x] # marker[x] =>
       \/ pc[x] = "commit" /\ pc'[x] = "dispatch"
       \/ pc[x] = "commit" /\ pc'[x] = "done" /\ reply'[x].execution # "NothingExecuted"
       \/ pc[x] \in {"retain", "settle"}
  /\ /\ RetentionConfigured /\ pc[x] = "retain" /\ pc'[x] = "done"
     /\ reply'[x].cause \in {"Success", "Accepted"}
     => x \in archived'

(* Each step of the handler touches the evidence store only as its stage may. *)
LEMMA HandleDisk ==
  ASSUME Typed, NEW x \in Exchange, Handle(x)
  PROVE  DiskFrame(x)
<1>0. /\ pc \in [Exchange -> Stage] /\ reply \in [Exchange -> Reply \cup {None}]
      /\ marker \in [Exchange -> {"none", "reserved", "pending"}]
      /\ Live(progress[x])
  BY DEF Typed, TypeOK
<1>1. CASE ReserveRetention(x)
  BY <1>0, <1>1 DEF ReserveRetention, Was, DiskFrame
<1>2. CASE CommitRetention(x)
  <2>1. pc[x] = "commit" /\ archived' = archived
    BY <1>2 DEF CommitRetention, Was
  <2>2. CASE RetentionConfigured /\ marker' = [marker EXCEPT ![x] = "pending"]
             /\ pc' = [pc EXCEPT ![x] = "dispatch"]
    BY <1>0, <2>1, <2>2 DEF DiskFrame
  <2>3. CASE ~RetentionConfigured /\ UNCHANGED marker
    BY <2>1, <2>3 DEF DiskFrame
  <2>4. CASE RefuseUnretained(x) /\ UNCHANGED marker
    BY <1>0, <2>1, <2>4 DEF RefuseUnretained, Refuse, RefuseAt, To, DiskFrame
  <2>5. CASE /\ \E left \in {"reserved", "pending"} : marker' = [marker EXCEPT ![x] = left]
             /\ RefuseUnresolved(x)
    <3>1. /\ pc'[x] = "done"
          /\ reply'[x].execution = Disposition(progress[x], "NothingExecutedRetentionUnresolved")
      BY <1>0, <2>5 DEF RefuseUnresolved, RefuseAt, To
    <3>2. reply'[x].execution # "NothingExecuted"
      BY <1>0, <3>1, DispositionFacts, ServingAssumption DEF Refinement
    <3> QED
      BY <1>0, <2>1, <2>5, <3>1, <3>2 DEF DiskFrame
  <2> QED
    BY <1>2, <2>2, <2>3, <2>4, <2>5 DEF CommitRetention, Pass, To
<1>3. CASE RetainAccepted(x)
  <2>1. pc[x] = "retain"
    BY <1>3 DEF RetainAccepted, Was
  <2>2. CASE CompleteOk(x)
    BY <1>0, <2>1, <2>2 DEF CompleteOk, DiskFrame, diskVars
  <2>3. CASE CompleteFails(x) /\ Refuse(x, progress[x], "EvidenceRetentionIndeterminate")
    <3>1. reply'[x].cause = "EvidenceRetentionIndeterminate"
      BY <1>0, <2>3 DEF Refuse, RefuseAt
    <3> QED
      BY <2>1, <2>3, <3>1 DEF CompleteFails, DiskFrame
  <2> QED
    BY <1>3, <2>2, <2>3 DEF RetainAccepted
<1>4. CASE SettleRefusal(x)
  BY <1>0, <1>4 DEF SettleRefusal, CompleteOk, CompleteFails, Was, DiskFrame, diskVars
<1>5. CASE Verify(x) \/ BindTransport(x) \/ CheckAdmission(x) \/ SnapshotKey(x)
        \/ PrepareDispatch(x) \/ AcknowledgeNotification(x) \/ ObserveReply(x)
        \/ SignReply(x) \/ CheckPublication(x)
  BY <1>5 DEF Verify, BindTransport, CheckAdmission, SnapshotKey, PrepareDispatch,
     AcknowledgeNotification, ObserveReply, SignReply, CheckPublication, Was, DiskFrame, diskVars
<1>6. CASE PeekContinuation(x) \/ AdmitReplay(x) \/ RetireContinuation(x) \/ Dispatch(x)
        \/ DispatchReturns(x) \/ ReadReply(x) \/ RecordLeg(x)
  BY <1>6 DEF PeekContinuation, AdmitReplay, RetireContinuation, Dispatch, DispatchReturns,
     ReadReply, RecordLeg, Was, DiskFrame, diskVars
<1> QED
  BY <1>1, <1>2, <1>3, <1>4, <1>5, <1>6 DEF Handle

(* What is needed to show that the disk accounts for the crossings: past   *)
(* the dispatch an exchange was sent, the marker was renamed before it     *)
(* was, and a crossing marker is known to the machine that would have to   *)
(* answer for it.                                                          *)
LateSent == \A x \in Exchange : pc[x] \in Late => x \in sent

MarkedBefore ==
  RetentionConfigured =>
    \A x \in Exchange : pc[x] = "dispatch" \/ x \in sent => marker[x] = "pending" \/ x \in archived

ServedKept == RetentionConfigured => \A x \in Exchange : Served(x) => x \in archived

SettlesRefusal ==
  \A x \in Exchange : pc[x] = "settle" => reply[x].cause \notin {"Success", "Accepted"}

PendingKnown ==
  \A x \in Exchange :
    marker[x] = "pending" =>
      /\ pc[x] \notin {"done", "gone"} => Crossed(progress[x])
      /\ pc[x] \in Over => reply[x].execution # "NothingExecuted"

EvidenceInv == LateSent /\ MarkedBefore /\ ServedKept /\ SettlesRefusal /\ PendingKnown

(* Every step of the handler keeps the evidence in step with the dispatch. *)
LEMMA EvidenceHandle ==
  ASSUME Typed, NonceInv, HonestInv, EvidenceInv, NEW x \in Exchange, Handle(x)
  PROVE  EvidenceInv'
<1>f. WorldFrame(x) /\ DiskFrame(x)
  BY HandleWorld, HandleDisk
<1>e. PICK t \in Stage, q \in Progress :
        /\ pc' = [pc EXCEPT ![x] = t]
        /\ progress' = [progress EXCEPT ![x] = q]
        /\ Grows(progress[x], q)
        /\ Forward(pc[x], t)
        /\ t = "dispatch" => Crossed(q)
        /\ Answering(x, t, q)
  BY HandleEffect DEF Effect
<1>0. /\ pc \in [Exchange -> Stage] /\ progress \in [Exchange -> Progress]
      /\ reply \in [Exchange -> Reply \cup {None}]
      /\ Live(progress[x]) /\ Live(q)
  BY <1>e DEF Typed, TypeOK, Grows
<1>1. \A y \in Exchange \ {x} :
        /\ pc'[y] = pc[y] /\ progress'[y] = progress[y] /\ reply'[y] = reply[y]
        /\ marker'[y] = marker[y] /\ (y \in archived => y \in archived')
        /\ (y \in sent' <=> y \in sent)
  <2>1. \A y \in Exchange \ {x} : pc'[y] = pc[y] /\ progress'[y] = progress[y]
    BY <1>0, <1>e
  <2>2. \A y \in Exchange \ {x} : reply'[y] = reply[y]
    BY <1>0, <1>e DEF Answering
  <2> QED
    BY <1>f, <2>1, <2>2 DEF WorldFrame, DiskFrame
<1>2. pc'[x] = t /\ progress'[x] = q
  BY <1>0, <1>e
<1>3. LateSent'
  BY <1>1, <1>2, <1>e, <1>f DEF EvidenceInv, LateSent, Forward, WorldFrame
<1>4. MarkedBefore'
  <2> SUFFICES ASSUME RetentionConfigured, NEW y \in Exchange, pc'[y] = "dispatch" \/ y \in sent'
               PROVE  marker'[y] = "pending" \/ y \in archived'
    BY DEF MarkedBefore
  <2>1. CASE y # x
    BY <1>1, <2>1 DEF EvidenceInv, MarkedBefore
  <2>2. CASE y = x /\ t = "dispatch" /\ pc[x] = "commit"
    BY <1>2, <1>f, <2>2 DEF DiskFrame
  <2>3. CASE y = x /\ (pc[x] = "dispatch" \/ x \in sent)
    <3>1. pc[x] \notin {"reserve", "commit"}
      BY <2>3 DEF NonceInv, NotYetSent, Admitted
    <3>2. marker[x] = "pending" \/ x \in archived
      BY <2>3 DEF EvidenceInv, MarkedBefore
    <3> QED
      BY <1>f, <2>3, <3>1, <3>2 DEF DiskFrame
  <2>4. t = "dispatch" => pc[x] = "commit"
    BY <1>e DEF Forward
  <2> QED
    BY <1>2, <1>f, <2>1, <2>2, <2>3, <2>4 DEF WorldFrame
<1>5. SettlesRefusal'
  <2>1. t = "settle" => reply'[x].cause \notin {"Success", "Accepted"}
    BY <1>0, <1>e DEF Answering, Over
  <2> QED
    BY <1>1, <1>2, <2>1 DEF EvidenceInv, SettlesRefusal
<1>6. ServedKept'
  <2> SUFFICES ASSUME RetentionConfigured, NEW y \in Exchange, Served(y)' PROVE y \in archived'
    BY DEF ServedKept
  <2>1. CASE y # x
    BY <1>1, <2>1 DEF EvidenceInv, ServedKept, Served
  <2>2. CASE y = x
    <3>1. t = "done" /\ reply'[x].cause \in {"Success", "Accepted"}
      BY <1>2, <2>2 DEF Served
    <3>2. pc[x] # "settle" \/ reply' # reply
      BY <3>1 DEF EvidenceInv, SettlesRefusal
    <3>3. pc[x] = "retain"
      BY <1>0, <1>e, <3>1, <3>2 DEF Answering, Over
    <3> QED
      BY <1>2, <1>f, <2>2, <3>1, <3>3 DEF DiskFrame
  <2> QED
    BY <2>1, <2>2
<1>7. PendingKnown'
  <2> SUFFICES ASSUME marker'[x] = "pending"
               PROVE  /\ t \notin {"done", "gone"} => Crossed(q)
                      /\ t \in Over => reply'[x].execution # "NothingExecuted"
    BY <1>1, <1>2 DEF EvidenceInv, PendingKnown
  <2>1. Crossed(progress[x]) => Crossed(q)
    BY <1>0, <1>e DEF Crossed, Grows, Live, Received, CompletedContinuationOpen,
       RetentionCommitted
  <2>2. CASE pc[x] = "commit" /\ t = "dispatch"
    BY <1>e, <2>2 DEF Over
  <2>3. CASE pc[x] = "commit" /\ t = "done" /\ reply'[x].execution # "NothingExecuted"
    BY <2>3
  <2>4. CASE Crossed(progress[x]) /\ (reply' # reply \/ t \notin Over)
    <3>1. \A r \in Refinement : Disposition(q, r) = "PossiblyExecuted"
      BY <1>0, <2>1, <2>4, DispositionFacts
    <3> QED
      BY <1>0, <1>e, <2>1, <2>4, <3>1 DEF Answering
  <2>5. CASE Crossed(progress[x]) /\ reply' = reply /\ t \in Over
    <3>1. CASE pc[x] = "settle" /\ t = "done"
      <4>1. x \in sent
        BY <3>1 DEF EvidenceInv, LateSent, Late
      <4>2. reply[x].execution = "PossiblyExecuted"
        BY <3>1, <4>1 DEF EvidenceInv, SettlesRefusal, HonestInv, Honest, Over
      <4> QED
        BY <2>5, <3>1, <4>2
    <3>2. CASE ~(pc[x] = "settle" /\ t = "done")
      <4>1. \A r \in Refinement : Disposition(q, r) = "PossiblyExecuted"
        BY <1>0, <2>1, <2>5, DispositionFacts
      <4>2. reply'[x].execution = "PossiblyExecuted"
        BY <1>0, <1>e, <2>5, <3>2, <4>1 DEF Answering
      <4> QED
        BY <2>1, <2>5, <4>2
    <3> QED
      BY <3>1, <3>2
  <2>6. CASE pc[x] \in {"retain", "settle"}
    <3>1. Crossed(progress[x])
      BY <2>6 DEF EvidenceInv, LateSent, Late, HonestInv, SentIsKnown
    <3> QED
      BY <2>4, <2>5, <3>1
  <2>7. CASE marker[x] = "pending"
    <3>1. Crossed(progress[x])
      BY <1>e, <2>7 DEF EvidenceInv, PendingKnown, Forward
    <3> QED
      BY <2>4, <2>5, <3>1
  <2> QED
    BY <1>2, <1>f, <2>2, <2>3, <2>6, <2>7 DEF DiskFrame
<1> QED
  BY <1>3, <1>4, <1>5, <1>6, <1>7 DEF EvidenceInv

(* So does every step of the system, the queued rescind included. *)
LEMMA EvidenceNext == Typed /\ NonceInv /\ HonestInv /\ EvidenceInv /\ [Next]_vars => EvidenceInv'
<1> SUFFICES ASSUME Typed, NonceInv, HonestInv, EvidenceInv, [Next]_vars PROVE EvidenceInv'
  OBVIOUS
<1>0. /\ pc \in [Exchange -> Stage] /\ marker \in [Exchange -> {"none", "reserved", "pending"}]
  BY DEF Typed, TypeOK
<1>1. ASSUME NEW x \in Exchange, NEW t \in {"verify", "gone"}, pc' = [pc EXCEPT ![x] = t],
             t = "verify" => pc[x] = "idle", pc[x] # "done",
             UNCHANGED <<reply, progress, sent, marker, archived>>
      PROVE  EvidenceInv'
  <2>1. LateSent'
    BY <1>0, <1>1 DEF EvidenceInv, LateSent, Late
  <2>2. MarkedBefore'
    BY <1>0, <1>1 DEF EvidenceInv, MarkedBefore
  <2>3. ServedKept' /\ SettlesRefusal'
    BY <1>0, <1>1 DEF EvidenceInv, ServedKept, Served, SettlesRefusal
  <2>4. PendingKnown'
    BY <1>0, <1>1 DEF EvidenceInv, PendingKnown, Over
  <2> QED
    BY <2>1, <2>2, <2>3, <2>4 DEF EvidenceInv
<1>2. ASSUME NEW x \in Exchange, Receive(x) \/ Abandon(x) PROVE EvidenceInv'
  <2>1. \E t \in {"verify", "gone"} :
          /\ pc' = [pc EXCEPT ![x] = t]
          /\ t = "verify" => pc[x] = "idle"
          /\ pc[x] # "done"
          /\ UNCHANGED <<reply, progress, sent, marker, archived>>
    BY <1>2 DEF Receive, Abandon, Was, To, serverVars, diskVars, worldVars
  <2> QED
    BY <1>1, <2>1
<1>3. ASSUME NEW x \in Exchange, Rescind(x) PROVE EvidenceInv'
  <2>1. /\ marker[x] = "reserved" /\ marker' = [marker EXCEPT ![x] = "none"]
        /\ UNCHANGED <<pc, reply, progress, sent, archived>>
    BY <1>3 DEF Rescind, serverVars, worldVars
  <2>2. \A y \in Exchange : marker'[y] = "pending" <=> marker[y] = "pending"
    BY <1>0, <2>1
  <2> QED
    BY <2>1, <2>2 DEF EvidenceInv, LateSent, MarkedBefore, ServedKept, Served, SettlesRefusal,
       PendingKnown
<1>4. ASSUME UNCHANGED <<pc, reply, progress, sent, marker, archived>> PROVE EvidenceInv'
  BY <1>4 DEF EvidenceInv, LateSent, MarkedBefore, ServedKept, Served, SettlesRefusal,
     PendingKnown
<1>5. ASSUME NEW x \in Exchange, InnerExecutes(x) PROVE EvidenceInv'
  BY <1>4, <1>5 DEF InnerExecutes, serverVars, diskVars
<1>6. ASSUME NEW k \in Key, Expire(k) PROVE EvidenceInv'
  BY <1>4, <1>6 DEF Expire, serverVars, diskVars, worldVars
<1>7. CASE UNCHANGED vars
  BY <1>4, <1>7 DEF vars, serverVars, diskVars, worldVars
<1> QED
  BY <1>2, <1>3, <1>5, <1>6, <1>7, EvidenceHandle DEF Next

(* Nothing was sent or spent before any request arrives. *)
LEMMA HonestInit == Init => HonestInv
BY DEF Init, HonestInv, RunsOnlySent, SentIsKnown, SpentIsKnown, Honest, Spender, Over

(* And no marker stands. *)
LEMMA EvidenceInit == Init => EvidenceInv
BY DEF Init, EvidenceInv, LateSent, Late, MarkedBefore, ServedKept, Served, SettlesRefusal,
   PendingKnown

(* Every exchange the inner server was handed, and every success served,   *)
(* is accounted for in the evidence store, whoever was cancelled and       *)
(* whatever the store failed to do.                                        *)
THEOREM CrossingAccountedHolds == Spec => []CrossingAccounted
<1>1. Typed /\ EvidenceInv => CrossingAccounted
  BY DEF Typed, TypeOK, EvidenceInv, MarkedBefore, ServedKept, CrossingAccounted
<1> QED
  BY <1>1, InitInvariants, HonestInit, EvidenceInit, TypedInit, TypedNext, NonceNext, HonestNext,
     EvidenceNext, PTL DEF Spec

(* A client told plainly that nothing was executed leaves no marker that   *)
(* an auditor would read as a call that may have run.                      *)
THEOREM NoFalseCrossingHolds == Spec => []NoFalseCrossing
<1>1. EvidenceInv => NoFalseCrossing
  BY DEF EvidenceInv, PendingKnown, NoFalseCrossing, Refused, Over
<1> QED
  BY <1>1, InitInvariants, HonestInit, EvidenceInit, TypedInit, TypedNext, NonceNext, HonestNext,
     EvidenceNext, PTL DEF Spec
----------------------------------------------------------------------------
(* What a step of the handler does to the record of the leg it opens. *)
LegFrame(x) ==
  /\ stored \subseteq stored'
  /\ pc[x] = "record" /\ pc'[x] = "serve" => opens[x] = None \/ x \in stored'

(* Only a leg without an elicitation, or a stored one, is taken to be served. *)
LEMMA HandleLegs ==
  ASSUME Typed, NEW x \in Exchange, Handle(x)
  PROVE  LegFrame(x)
<1>0. pc \in [Exchange -> Stage]
  BY DEF Typed, TypeOK
<1>1. CASE RecordLeg(x)
  <2>1. Create(x) => stored \subseteq stored' /\ (cont[OpenKey(x)] = None => x \in stored')
    BY DEF Create
  <2>2. CASE opens[x] = None
    BY <1>1, <2>1, <2>2 DEF RecordLeg, LegFrame
  <2>3. CASE RefuseCapabilityAbsent(x) /\ UNCHANGED stored
    BY <1>0, <2>3 DEF RefuseCapabilityAbsent, Refuse, RefuseAt, To, LegFrame
  <2>4. CASE Create(x) /\ AfterCreate(x, cont[OpenKey(x)])
    BY <1>0, <2>1, <2>4 DEF AfterCreate, Refuse, RefuseAt, To, LegFrame
  <2>5. CASE (Create(x) \/ UNCHANGED stored) /\ SpendAttempt(x)
    BY <1>0, <1>1, <2>1, <2>5 DEF RecordLeg, SpendAttempt, Pass, Refuse, RefuseAt, To, LegFrame
  <2> QED
    BY <1>1, <2>2, <2>3, <2>4, <2>5 DEF RecordLeg
<1>2. CASE Verify(x) \/ BindTransport(x) \/ CheckAdmission(x) \/ SnapshotKey(x)
        \/ PrepareDispatch(x) \/ AcknowledgeNotification(x) \/ ObserveReply(x)
        \/ SignReply(x) \/ CheckPublication(x)
  BY <1>2 DEF Verify, BindTransport, CheckAdmission, SnapshotKey, PrepareDispatch,
     AcknowledgeNotification, ObserveReply, SignReply, CheckPublication, Was, LegFrame, worldVars
<1>3. CASE PeekContinuation(x) \/ AdmitReplay(x) \/ RetireContinuation(x) \/ Dispatch(x)
        \/ DispatchReturns(x) \/ ReadReply(x) \/ ReserveRetention(x) \/ CommitRetention(x)
        \/ RetainAccepted(x) \/ SettleRefusal(x)
  BY <1>3 DEF PeekContinuation, AdmitReplay, RetireContinuation, Dispatch, DispatchReturns,
     ReadReply, ReserveRetention, CommitRetention, RetainAccepted, SettleRefusal, Was, LegFrame,
     worldVars
<1> QED
  BY <1>1, <1>2, <1>3 DEF Handle

(* What is needed to show that a served elicitation was stored: a leg is   *)
(* opened only by reading a reply, and from the record to the answer it is *)
(* either not open or stored.                                              *)
Unopened == \A x \in Exchange : pc[x] \in Unread => opens[x] = None

LegStored ==
  \A x \in Exchange :
    pc[x] \in {"serve", "retain"} \/ Served(x) => opens[x] = None \/ x \in stored

LegInv == Unopened /\ LegStored

(* Every step of the handler preserves it. *)
LEMMA LegHandle ==
  ASSUME Typed, EvidenceInv, LegInv, NEW x \in Exchange, Handle(x)
  PROVE  LegInv'
<1>f. StoreFrame(x) /\ LegFrame(x)
  BY HandleStores, HandleLegs
<1>e. PICK t \in Stage, q \in Progress :
        /\ pc' = [pc EXCEPT ![x] = t]
        /\ Forward(pc[x], t)
        /\ Answering(x, t, q)
  BY HandleEffect DEF Effect
<1>0. /\ pc \in [Exchange -> Stage] /\ opens \in [Exchange -> ReqState \cup {None}]
      /\ reply \in [Exchange -> Reply \cup {None}]
  BY DEF Typed, TypeOK
<1>1. \A y \in Exchange \ {x} :
        pc'[y] = pc[y] /\ reply'[y] = reply[y] /\ opens'[y] = opens[y]
  <2>1. \A y \in Exchange \ {x} : reply'[y] = reply[y]
    BY <1>0, <1>e DEF Answering
  <2> QED
    BY <1>0, <1>e, <1>f, <2>1 DEF StoreFrame
<1>2. pc'[x] = t /\ stored \subseteq stored'
  BY <1>0, <1>e, <1>f DEF LegFrame
<1>3. t # "sign" => opens'[x] = opens[x]
  BY <1>2, <1>f DEF StoreFrame
<1>4. Unopened'
  <2>1. t \in Unread => pc[x] \in Unread /\ t # "sign"
    BY <1>e DEF Forward, Unread, Early, Admitted
  <2> QED
    BY <1>1, <1>2, <1>3, <2>1 DEF LegInv, Unopened
<1>5. LegStored'
  <2> SUFFICES ASSUME NEW y \in Exchange, pc'[y] \in {"serve", "retain"} \/ Served(y)'
               PROVE  opens'[y] = None \/ y \in stored'
    BY DEF LegStored
  <2>1. CASE y # x
    BY <1>1, <1>2, <2>1 DEF LegInv, LegStored, Served
  <2>2. CASE y = x /\ t = "serve"
    BY <1>2, <1>3, <1>e, <1>f, <2>2 DEF Forward, LegFrame
  <2>3. CASE y = x /\ t = "retain"
    <3>1. pc[x] = "serve" \/ pc[x] \in Unread
      BY <1>e, <2>3 DEF Forward, Unread
    <3> QED
      BY <1>2, <1>3, <2>3, <3>1 DEF LegInv, LegStored, Unopened
  <2>4. CASE y = x /\ t = "done" /\ reply'[x].cause \in {"Success", "Accepted"}
    <3>1. pc[x] # "settle" \/ reply' # reply
      BY <2>4 DEF EvidenceInv, SettlesRefusal
    <3>2. pc[x] = "retain"
      BY <1>0, <1>e, <2>4, <3>1 DEF Answering, Over
    <3> QED
      BY <1>2, <1>3, <2>4, <3>2 DEF LegInv, LegStored
  <2> QED
    BY <1>2, <2>1, <2>2, <2>3, <2>4 DEF Served
<1> QED
  BY <1>4, <1>5 DEF LegInv

(* So does every step of the system. *)
LEMMA LegNext == Typed /\ EvidenceInv /\ LegInv /\ [Next]_vars => LegInv'
<1> SUFFICES ASSUME Typed, EvidenceInv, LegInv, [Next]_vars PROVE LegInv'
  OBVIOUS
<1>0. pc \in [Exchange -> Stage]
  BY DEF Typed, TypeOK
<1>1. ASSUME NEW x \in Exchange, Receive(x) \/ Abandon(x) PROVE LegInv'
  <2>1. \E t \in {"verify", "gone"} :
          /\ pc' = [pc EXCEPT ![x] = t]
          /\ t = "verify" => pc[x] = "idle"
          /\ UNCHANGED <<reply, opens, stored>>
    BY <1>1 DEF Receive, Abandon, Was, To, serverVars, worldVars
  <2> QED
    BY <1>0, <2>1 DEF LegInv, Unopened, LegStored, Served, Unread, Early, Admitted
<1>2. ASSUME UNCHANGED <<pc, reply, opens, stored>> PROVE LegInv'
  BY <1>2 DEF LegInv, Unopened, LegStored, Served
<1>3. ASSUME NEW x \in Exchange, Rescind(x) \/ InnerExecutes(x) PROVE LegInv'
  BY <1>2, <1>3 DEF Rescind, InnerExecutes, serverVars, worldVars
<1>4. ASSUME NEW k \in Key, Expire(k) PROVE LegInv'
  BY <1>2, <1>4 DEF Expire, serverVars, worldVars
<1>5. CASE UNCHANGED vars
  BY <1>2, <1>5 DEF vars, serverVars, worldVars
<1> QED
  BY <1>1, <1>3, <1>4, <1>5, LegHandle DEF Next

(* A client that is served an elicitation holds one whose bases reached    *)
(* the shared store: every replica can verify the answer.                  *)
THEOREM ServedLegWasStoredHolds == Spec => []ServedLegWasStored
<1>1. Init => LegInv
  BY DEF Init, LegInv, Unopened, LegStored, Served
<1>2. LegInv => ServedLegWasStored
  BY DEF LegInv, LegStored, ServedLegWasStored
<1> QED
  BY <1>1, <1>2, InitInvariants, HonestInit, EvidenceInit, TypedInit, TypedNext, NonceNext,
     HonestNext, EvidenceNext, LegNext, PTL DEF Spec
----------------------------------------------------------------------------
(* The events that move the machine one position on. *)
Ordinary ==
  {"SignatureVerified", "TransportBindingChecked", "AdmissionCurrencyChecked",
   "ContinuationPrepared", "ReplayAdmitted", "DelegatedKeySnapshotted",
   "ContinuationRetired", "ForwardBodyPrepared", "InnerPlaneAccepted",
   "RetentionCommitted", "BackendDispatched", "ResponseObserved", "EnvelopeValidated",
   "ResponseClassified", "ResponseSigned", "OpenLegRecorded", "ContinuationNotRequired",
   "EvidenceRetained"}

(* Where each of them leads. *)
LEMMA Positions ==
  /\ Establishes("SignatureVerified") = 1 /\ Establishes("TransportBindingChecked") = 2
  /\ Establishes("AdmissionCurrencyChecked") = 3 /\ Establishes("ContinuationPrepared") = 4
  /\ Establishes("ReplayAdmitted") = 5 /\ Establishes("DelegatedKeySnapshotted") = 6
  /\ Establishes("ContinuationRetired") = 7 /\ Establishes("ForwardBodyPrepared") = 8
  /\ Establishes("InnerPlaneAccepted") = 9 /\ Establishes("RetentionCommitted") = 10
  /\ Establishes("BackendDispatched") = 11 /\ Establishes("ResponseObserved") = 12
  /\ Establishes("EnvelopeValidated") = 13 /\ Establishes("ResponseClassified") = 14
  /\ Establishes("ResponseSigned") = 15 /\ Establishes("OpenLegRecorded") = 16
  /\ Establishes("ContinuationNotRequired") = 16 /\ Establishes("EvidenceRetained") = 17
  /\ Establishes("NotificationAcknowledged") = 18 /\ Establishes("TerminalResponseServed") = 19
  /\ Establishes("OpenLegResponseServed") = 20
BY DEF Establishes, Established, Verified, TransportBound, AdmissionChecked,
   ContinuationPrepared, ReplayAdmitted, Answerable, ContinuationRetired, Forwarded,
   InnerPlaneAccepted, RetentionCommitted, Dispatched, ResponseObserved, ResponseValidated,
   ResponseClassified, ResponseSigned, ContinuationSettled, Retained, AcknowledgedNotification,
   CompletedTerminal, CompletedContinuationOpen

(* q is p at position n, with nothing latched. *)
Clean(p, q, n) ==
  Live(q) /\ q.anomaly = "None" /\ q.request = n /\ q.origin = p.origin /\ q.openLeg = p.openLeg

(* A legal step whose result violates nothing latches nothing. *)
LEMMA AdvanceClean ==
  ASSUME NEW p, Live(p), p.anomaly = "None", NEW e \in Event, Legal(p.request, e),
         Establishes(e) > p.request,
         IsSuccessTerminal(Establishes(e)) => p.origin # "DispatchIndeterminate",
         Establishes(e) = CompletedTerminal => p.openLeg = "NotApplicable",
         Establishes(e) = CompletedContinuationOpen => p.openLeg = "Recorded"
  PROVE  Clean(p, Advance(p, e), Establishes(e))
<1> DEFINE n == Establishes(e)
           s == Synced(p, n)
<1>1. Raise(p, e) = n
  BY DEF Raise
<1>2. /\ s.request = n /\ s.origin = p.origin /\ s.openLeg = p.openLeg /\ s.anomaly = "None"
      /\ s.backend = SyncBackend(n)
  BY DEF Synced
<1>3. ~InvariantViolation(s)
  BY <1>2 DEF InvariantViolation
<1>4. Advance(p, e) = s
  BY <1>1, <1>3 DEF Advance, LatchIf
<1>5. Live(Advance(p, e))
  BY AdvanceFacts
<1> HIDE DEF s
<1> QED
  BY <1>2, <1>4, <1>5 DEF Clean

(* The next event of the pipeline is always legal. *)
LEMMA OrdinaryAdvance ==
  ASSUME NEW p, Live(p), p.anomaly = "None", NEW e \in Ordinary, p.request + 1 = Establishes(e)
  PROVE  Clean(p, Advance(p, e), Establishes(e))
<1>1. e \in Event
  BY EventNames DEF Ordinary
<1>2. Establishes(e) \in 1 .. 17
  BY Positions DEF Ordinary
<1>3. Legal(p.request, e) /\ Establishes(e) > p.request
  BY <1>2 DEF Legal, IsTerminal, AcknowledgedNotification, Step, Ordinary, Live, Received, CompletedContinuationOpen
<1> QED
  BY <1>1, <1>2, <1>3, AdvanceClean
  DEF IsSuccessTerminal, AcknowledgedNotification, CompletedTerminal, CompletedContinuationOpen

(* The three ways a success ends, each from where the pipeline reports it. *)
LEMMA LastAdvance ==
  ASSUME NEW p, Live(p), p.anomaly = "None", p.origin = "BackendReplied"
  PROVE  /\ p.request = 11 => Clean(p, Advance(p, "NotificationAcknowledged"), 18)
         /\ p.request = 17 /\ p.openLeg = "NotApplicable"
              => Clean(p, Advance(p, "TerminalResponseServed"), 19)
         /\ p.request = 17 /\ p.openLeg = "Recorded"
              => Clean(p, Advance(p, "OpenLegResponseServed"), 20)
<1>1. {"NotificationAcknowledged", "TerminalResponseServed", "OpenLegResponseServed"} \subseteq Event
  BY EventNames
<1>2. p.request = 11 => Clean(p, Advance(p, "NotificationAcknowledged"), 18)
  <2> SUFFICES ASSUME p.request = 11 PROVE Clean(p, Advance(p, "NotificationAcknowledged"), 18)
    OBVIOUS
  <2>1. Legal(p.request, "NotificationAcknowledged")
    BY DEF Legal, IsTerminal, AcknowledgedNotification, Step, Dispatched
  <2> QED
    BY <1>1, <2>1, Positions, AdvanceClean DEF CompletedTerminal, CompletedContinuationOpen
<1>3. p.request = 17 => /\ Legal(p.request, "TerminalResponseServed")
                        /\ Legal(p.request, "OpenLegResponseServed")
  BY DEF Legal, IsTerminal, AcknowledgedNotification, Step, Retained
<1>4. p.request = 17 /\ p.openLeg = "NotApplicable"
        => Clean(p, Advance(p, "TerminalResponseServed"), 19)
  BY <1>1, <1>3, Positions, AdvanceClean DEF CompletedTerminal, CompletedContinuationOpen
<1>5. p.request = 17 /\ p.openLeg = "Recorded"
        => Clean(p, Advance(p, "OpenLegResponseServed"), 20)
  BY <1>1, <1>3, Positions, AdvanceClean DEF CompletedTerminal, CompletedContinuationOpen
<1> QED
  BY <1>2, <1>4, <1>5

(* So a publication that is due is not refused. *)
LEMMA PublishClean ==
  ASSUME NEW p, Live(p), p.anomaly = "None", p.origin = "BackendReplied", p.request = 16,
         NEW success \in {"Terminal", "OpenLeg"},
         p.openLeg = IF success = "OpenLeg" THEN "Recorded" ELSE "NotApplicable"
  PROVE  Publish(p, success).anomaly = "None" /\ MayPublish(p, success)
<1> DEFINE r == Advance(p, "EvidenceRetained")
<1>1. Clean(p, r, 17)
  BY Positions, OrdinaryAdvance DEF Ordinary
<1>2. Publish(p, success) = IF success = "OpenLeg" THEN Advance(r, "OpenLegResponseServed")
                                                   ELSE Advance(r, "TerminalResponseServed")
  BY DEF Publish
<1> HIDE DEF r
<1>3. CASE success = "OpenLeg"
  BY <1>1, <1>2, <1>3, LastAdvance DEF Clean, MayPublish, Refuses, IsSuccessTerminal,
     CompletedContinuationOpen
<1>4. CASE success = "Terminal"
  BY <1>1, <1>2, <1>4, LastAdvance DEF Clean, MayPublish, Refuses, IsSuccessTerminal,
     CompletedTerminal
<1> QED
  BY <1>3, <1>4

----------------------------------------------------------------------------
(* The position of the machine at each stage of the handler. *)
Place ==
  [idle |-> 0, verify |-> 0, bind |-> 1, admission |-> 2, peek |-> 3, replay |-> 4,
   snapshot |-> 5, retire |-> 6, prepare |-> 7, reserve |-> 9, commit |-> 9, dispatch |-> 10,
   await |-> 11, acknowledge |-> 11, observe |-> 11, read |-> 12, sign |-> 14, record |-> 15,
   serve |-> 16]

(* What the machine of an exchange knows of its leg once it is settled. *)
Settled(x) ==
  /\ progress[x].origin = "BackendReplied"
  /\ progress[x].openLeg = IF opens[x] = None THEN "NotApplicable" ELSE "Recorded"

(* The handler and its machine walk in step: nothing is latched, the       *)
(* machine stands where the stage has it, and its sibling machines know    *)
(* the reply and the leg by the time the answer depends on them.           *)
InStep(x) ==
  LET p == progress[x] IN
  /\ p.anomaly = "None"
  /\ pc[x] \in DOMAIN Place => p.request = Place[pc[x]]
  /\ pc[x] \in Unread \ {"read"} => p.origin = "Undetermined"
  /\ pc[x] \in {"read", "sign", "record"} => p.origin = "BackendReplied"
  /\ pc[x] \in Unread => p.openLeg = "NotApplicable"
  /\ pc[x] \in {"sign", "record"} => p.openLeg = IF opens[x] = None THEN "NotApplicable" ELSE "Required"
  /\ pc[x] = "serve" => Settled(x)
  /\ pc[x] = "retain" /\ req[x].kind = "call" => p.request = 16 /\ Settled(x)
  /\ pc[x] = "acknowledge" => req[x].kind = "notification"
  /\ pc[x] \in {"observe", "read", "sign", "record", "serve"} => req[x].kind = "call"

Walking == \A x \in Exchange : InStep(x)

(* What a step of the handler does to the machine. *)
Walks(x) ==
  /\ InStep(x)'
  /\ pc[x] \notin Late /\ pc'[x] \in Over => ~Crossed(progress'[x])

(* Refusing keeps step, if what is known so far is clean. *)
LEMMA WalkRefuse ==
  ASSUME Typed, NEW x \in Exchange, NEW t \in Over, NEW q, q.anomaly = "None",
         To(x, t), Learn(x, q), pc[x] \notin Late => ~Crossed(q)
  PROVE  Walks(x)
<1>1. pc'[x] = t /\ progress'[x] = q
  BY DEF Typed, TypeOK, To, Learn
<1>2. t \notin DOMAIN Place /\ t \notin Unread
  BY DEF Over, Place, Unread, Early, Admitted
<1> QED
  BY <1>1, <1>2 DEF Walks, InStep, Over

(* So does going on, before the crossing. *)
LEMMA WalkOn ==
  ASSUME Typed, NEW x \in Exchange, InStep(x), pc[x] \in Early \cup Admitted,
         NEW t \in Early \cup Admitted \cup {"await"}, NEW q, To(x, t), Learn(x, q),
         Clean(progress[x], q, Place[t])
  PROVE  Walks(x)
<1>1. pc'[x] = t /\ progress'[x] = q
  BY DEF Typed, TypeOK, To, Learn
<1>2. t \in Unread \ {"read"} /\ t \notin Over
      /\ t \notin {"read", "sign", "record", "serve", "retain", "acknowledge", "observe"}
  BY DEF Over, Unread, Early, Admitted
<1>3. progress[x].origin = "Undetermined" /\ progress[x].openLeg = "NotApplicable"
  BY DEF InStep, Unread, Early, Admitted
<1> QED
  BY <1>1, <1>2, <1>3 DEF Walks, InStep, Clean

(* Every step of the handler keeps the walk. *)
LEMMA WalkHandle ==
  ASSUME Typed, LegInv, Walking, NEW x \in Exchange, Handle(x)
  PROVE  Walks(x)
<1> DEFINE p == progress[x]
<1>p. Live(p) /\ InStep(x) /\ p.anomaly = "None"
  BY DEF Typed, Walking, InStep
<1>r. \A q : q.anomaly = "None" /\ (pc[x] \notin Late => ~Crossed(q)) =>
        /\ \A c : Refuse(x, q, c) \/ RefuseRetained(x, q, c) => Walks(x)
        /\ \A c, r : RefuseAt(x, q, c, r, "done") => Walks(x)
  BY WalkRefuse DEF Refuse, RefuseRetained, RefuseAt, Over
<1>o. \A q : \A t \in Early \cup Admitted \cup {"await"} :
        pc[x] \in Early \cup Admitted /\ Pass(x, q, t) /\ Clean(p, q, Place[t]) => Walks(x)
  BY <1>p, WalkOn DEF Pass
<1>a. \A q : \A e \in Ordinary : Live(q) /\ q.anomaly = "None" /\ q.request + 1 = Establishes(e)
        => Clean(q, Advance(q, e), Establishes(e))
  BY OrdinaryAdvance
<1>s. pc[x] \in DOMAIN Place => p.request = Place[pc[x]]
  BY <1>p DEF InStep
<1> HIDE DEF p
<1>1. CASE Verify(x)
  <2>1. p.request = 0 /\ ~Crossed(p) /\ pc[x] \in Early
    BY <1>1, <1>s DEF Verify, Was, Place, Early, Crossed, RetentionCommitted
  <2>2. Clean(p, Advance(p, "SignatureVerified"), Place["bind"])
    BY <1>a, <1>p, <2>1, Positions DEF Ordinary, Place
  <2> QED
    BY <1>1, <1>p, <1>r, <1>o, <2>1, <2>2 DEF Verify, Early, p
<1>2. CASE BindTransport(x)
  <2>1. p.request = 1 /\ ~Crossed(p) /\ pc[x] \in Early
    BY <1>2, <1>s DEF BindTransport, Was, Place, Early, Crossed, RetentionCommitted
  <2>2. Clean(p, Advance(p, "TransportBindingChecked"), Place["admission"])
    BY <1>a, <1>p, <2>1, Positions DEF Ordinary, Place
  <2> QED
    BY <1>2, <1>p, <1>r, <1>o, <2>1, <2>2 DEF BindTransport, Early, p
<1>3. CASE CheckAdmission(x)
  <2>1. p.request = 2 /\ ~Crossed(p) /\ pc[x] \in Early
    BY <1>3, <1>s DEF CheckAdmission, Was, Place, Early, Crossed, RetentionCommitted
  <2>2. Clean(p, Advance(p, "AdmissionCurrencyChecked"), Place["peek"])
        /\ Place["peek"] = 3
    BY <1>a, <1>p, <2>1, Positions DEF Ordinary, Place
  <2>3. Advance(p, "AdmissionCurrencyChecked").anomaly = "None"
        /\ ~Crossed(Advance(p, "AdmissionCurrencyChecked"))
    BY <2>2 DEF Clean, Crossed, RetentionCommitted
  <2> QED
    BY <1>3, <1>p, <1>r, <1>o, <2>1, <2>2, <2>3 DEF CheckAdmission, Early, p
<1>4. CASE PeekContinuation(x)
  <2> DEFINE q == Advance(p, "ContinuationPrepared")
  <2>1. p.request = 3 /\ ~Crossed(p) /\ pc[x] \in Early
    BY <1>4, <1>s DEF PeekContinuation, Was, Place, Early, Crossed, RetentionCommitted
  <2>2. Clean(p, q, Place["replay"])
    BY <1>a, <1>p, <2>1, Positions DEF Ordinary, Place
  <2>3. Clean(p, ObserveContinuation(q, "Peeked"), Place["replay"])
    BY <2>2 DEF Clean, ObserveContinuation, Live, Progress, ContinuationState
  <2> HIDE DEF q
  <2> QED
    BY <1>4, <1>p, <1>r, <1>o, <2>1, <2>2, <2>3 DEF PeekContinuation, Early, p, q
<1>5. CASE AdmitReplay(x)
  <2>1. p.request = 4 /\ ~Crossed(p) /\ pc[x] \in Early
    BY <1>5, <1>s DEF AdmitReplay, Was, Place, Early, Crossed, RetentionCommitted
  <2>2. Clean(p, Advance(p, "ReplayAdmitted"), Place["snapshot"])
    BY <1>a, <1>p, <2>1, Positions DEF Ordinary, Place
  <2> QED
    BY <1>5, <1>p, <1>r, <1>o, <2>1, <2>2 DEF AdmitReplay, TierUnavailable, Early, Admitted, p
<1>6. CASE SnapshotKey(x)
  <2>1. p.request = 5 /\ ~Crossed(p) /\ pc[x] \in Admitted
    BY <1>6, <1>s DEF SnapshotKey, Was, Place, Admitted, Crossed, RetentionCommitted
  <2>2. Clean(p, Advance(p, "DelegatedKeySnapshotted"), Place["retire"])
    BY <1>a, <1>p, <2>1, Positions DEF Ordinary, Place
  <2> QED
    BY <1>6, <1>p, <1>r, <1>o, <2>1, <2>2 DEF SnapshotKey, Admitted, p
<1>7. CASE RetireContinuation(x)
  <2> DEFINE c == ObserveContinuation(p, "Consumed")
  <2>1. p.request = 6 /\ ~Crossed(p) /\ pc[x] \in Admitted
    BY <1>7, <1>s DEF RetireContinuation, Was, Place, Admitted, Crossed, RetentionCommitted
  <2>2. Clean(p, c, 6)
    BY <1>p, <2>1 DEF Clean, ObserveContinuation, Live, Progress, ContinuationState
  <2> HIDE DEF c
  <2>3. Clean(p, Advance(p, "ContinuationRetired"), Place["prepare"])
    BY <1>a, <1>p, <2>1, Positions DEF Ordinary, Place
  <2>4. Clean(p, Advance(c, "ContinuationRetired"), Place["prepare"])
    <3>1. Clean(c, Advance(c, "ContinuationRetired"), Place["prepare"])
      BY <1>a, <2>2, Positions DEF Clean, Ordinary, Place
    <3> QED
      BY <2>2, <3>1 DEF Clean
  <2>5. c.anomaly = "None" /\ ~Crossed(c)
    BY <2>2 DEF Clean, Crossed, RetentionCommitted
  <2> QED
    BY <1>7, <1>p, <1>r, <1>o, <2>1, <2>3, <2>4, <2>5
    DEF RetireContinuation, AlreadyAnswered, LostConsume, Admitted, p, c
<1>8. CASE PrepareDispatch(x)
  <2> DEFINE f == Advance(p, "ForwardBodyPrepared")
             a == Advance(f, "InnerPlaneAccepted")
  <2>1. p.request = 7 /\ ~Crossed(p) /\ pc[x] \in Admitted
    BY <1>8, <1>s DEF PrepareDispatch, Was, Place, Admitted, Crossed, RetentionCommitted
  <2>2. Clean(p, f, 8)
    BY <1>a, <1>p, <2>1, Positions DEF Ordinary
  <2> HIDE DEF f
  <2>3. Clean(f, a, 9)
    BY <1>a, <2>2, Positions DEF Clean, Ordinary
  <2> HIDE DEF a
  <2>4. Clean(p, a, Place["reserve"]) /\ ~Crossed(f) /\ ~Crossed(a)
    BY <2>2, <2>3 DEF Clean, Place, Crossed, RetentionCommitted
  <2>5. f.anomaly = "None" /\ a.anomaly = "None"
    BY <2>2, <2>3 DEF Clean
  <2> QED
    BY <1>8, <1>p, <1>r, <1>o, <2>1, <2>4, <2>5 DEF PrepareDispatch, Admitted, p, f, a
<1>9. CASE ReserveRetention(x)
  <2>1. p.request = 9 /\ ~Crossed(p) /\ pc[x] \in Admitted
    BY <1>9, <1>s DEF ReserveRetention, Was, Place, Admitted, Crossed, RetentionCommitted
  <2>2. Clean(p, p, Place["commit"])
    BY <1>p, <2>1 DEF Clean, Place
  <2> QED
    BY <1>9, <1>p, <1>r, <1>o, <2>1, <2>2
    DEF ReserveRetention, RefuseUnretained, RefuseUnresolved, Admitted, p
<1>10. CASE CommitRetention(x)
  <2>1. p.request = 9 /\ ~Crossed(p) /\ pc[x] \in Admitted
    BY <1>10, <1>s DEF CommitRetention, Was, Place, Admitted, Crossed, RetentionCommitted
  <2>2. Clean(p, Advance(p, "RetentionCommitted"), Place["dispatch"])
    BY <1>a, <1>p, <2>1, Positions DEF Ordinary, Place
  <2> QED
    BY <1>10, <1>p, <1>r, <1>o, <2>1, <2>2
    DEF CommitRetention, RefuseUnretained, RefuseUnresolved, Admitted, p
<1>11. CASE Dispatch(x)
  <2>1. p.request = 10 /\ pc[x] \in Admitted
    BY <1>11, <1>s DEF Dispatch, Was, Place, Admitted
  <2>2. Clean(p, Advance(p, "BackendDispatched"), Place["await"])
    BY <1>a, <1>p, <2>1, Positions DEF Ordinary, Place
  <2> QED
    BY <1>11, <1>o, <2>1, <2>2 DEF Dispatch, p
<1>12. CASE DispatchReturns(x)
  <2>1. /\ pc[x] = "await" /\ pc'[x] = Resume(x) /\ UNCHANGED <<req, progress, opens>>
    BY <1>12 DEF DispatchReturns, Was, To, Typed, TypeOK
  <2>2. req[x].kind \in Kind
    BY <2>1 DEF Typed, Asked, Request
  <2>3. p.request = 11 /\ p.origin = "Undetermined" /\ p.openLeg = "NotApplicable"
    BY <1>p, <1>s, <2>1 DEF InStep, Place, Unread, p
  <2> QED
    BY <1>p, <2>1, <2>2, <2>3 DEF Resume, Kind, Walks, InStep, Place, Over, p
<1>l. \A q, t : pc[x] \in Late /\ To(x, t) /\ Learn(x, q) => pc'[x] = t /\ progress'[x] = q
  BY DEF To, Learn, Typed, TypeOK
<1>13. CASE AcknowledgeNotification(x)
  <2> DEFINE replied == ObserveOrigin(p, "BackendReplied")
             failed == ObserveOrigin(p, "DispatchIndeterminate")
             acked == Advance(replied, "NotificationAcknowledged")
  <2>1. pc[x] = "acknowledge" /\ pc[x] \in Late /\ p.request = 11 /\ p.origin = "Undetermined"
        /\ req[x].kind = "notification"
    BY <1>13, <1>p, <1>s DEF AcknowledgeNotification, Was, Late, InStep, Place, Unread, p
  <2>2. /\ Live(replied) /\ replied.anomaly = "None" /\ replied.request = 11
        /\ replied.origin = "BackendReplied" /\ failed.anomaly = "None"
    BY <1>p, <2>1, ObserverFacts DEF ObserveOrigin, OriginRank, Live, Progress, ResponseOrigin
  <2> HIDE DEF replied, failed
  <2>3. Clean(replied, acked, 18)
    BY <2>2, LastAdvance
  <2>4. MayEstablish(replied, "NotificationAcknowledged") /\ acked.anomaly = "None"
    BY <2>3 DEF MayEstablish, Refuses, Clean, IsSuccessTerminal, AcknowledgedNotification
  <2> HIDE DEF acked
  <2>5. CASE Pass(x, acked, "retain") /\ UNCHANGED req
    <3>1. pc'[x] = "retain" /\ progress'[x] = acked /\ req'[x].kind # "call"
      BY <2>1, <2>5, <1>l DEF Pass
    <3> QED
      BY <2>4, <3>1 DEF Walks, InStep, Place, Unread, Early, Admitted, Over
  <2> QED
    BY <1>13, <1>r, <2>1, <2>2, <2>4, <2>5 DEF AcknowledgeNotification, p, replied, failed, acked
<1>14. CASE ObserveReply(x)
  <2> DEFINE replied == ObserveOrigin(p, "BackendReplied")
             failed == ObserveOrigin(p, "DispatchIndeterminate")
             q == Advance(replied, "ResponseObserved")
  <2>1. /\ pc[x] = "observe" /\ pc[x] \in Late /\ p.request = 11 /\ p.origin = "Undetermined"
        /\ p.openLeg = "NotApplicable" /\ req[x].kind = "call" /\ UNCHANGED <<req, opens>>
    BY <1>14, <1>p, <1>s DEF ObserveReply, Was, Late, InStep, Place, Unread, p
  <2>2. /\ Live(replied) /\ replied.anomaly = "None" /\ replied.request = 11
        /\ replied.origin = "BackendReplied" /\ replied.openLeg = "NotApplicable"
        /\ failed.anomaly = "None"
    BY <1>p, <2>1, ObserverFacts DEF ObserveOrigin, OriginRank, Live, Progress, ResponseOrigin
  <2> HIDE DEF replied, failed
  <2>3. Clean(replied, q, 12)
    BY <1>a, <2>2, Positions DEF Ordinary
  <2> HIDE DEF q
  <2>4. CASE Pass(x, q, "read")
    <3>1. pc'[x] = "read" /\ progress'[x] = q
      BY <2>1, <2>4, <1>l DEF Pass
    <3> QED
      BY <2>1, <2>2, <2>3, <3>1 DEF Clean, Walks, InStep, Place, Unread, Over
  <2> QED
    BY <1>14, <1>p, <1>r, <2>1, <2>2, <2>4 DEF ObserveReply, p, replied, failed, q
<1>15. CASE ReadReply(x)
  <2> DEFINE v == Advance(p, "EnvelopeValidated")
             c == Advance(v, "ResponseClassified")
  <2>1. /\ pc[x] = "read" /\ pc[x] \in Late /\ p.request = 12 /\ p.origin = "BackendReplied"
        /\ p.openLeg = "NotApplicable" /\ req[x].kind = "call" /\ UNCHANGED req
        /\ opens[x] = None
    BY <1>15, <1>p, <1>s DEF ReadReply, Was, Late, InStep, Place, Unread, p, LegInv, Unopened
  <2>2. Clean(p, v, 13)
    BY <1>a, <1>p, <2>1, Positions DEF Ordinary
  <2> HIDE DEF v
  <2>3. Clean(v, c, 14)
    BY <1>a, <2>2, Positions DEF Clean, Ordinary
  <2> HIDE DEF c
  <2>4. /\ Live(c) /\ c.anomaly = "None" /\ v.anomaly = "None" /\ c.request = 14
        /\ c.origin = "BackendReplied" /\ c.openLeg = "NotApplicable"
    BY <2>1, <2>2, <2>3 DEF Clean
  <2>5. /\ ObserveOpenLeg(c, "NotApplicable") = c
        /\ ObserveOpenLeg(c, "Required") = [c EXCEPT !.openLeg = "Required"]
    BY <2>4 DEF ObserveOpenLeg, OpenLegRank
  <2>6. CASE Pass(x, c, "sign") /\ UNCHANGED opens
    <3>1. pc'[x] = "sign" /\ progress'[x] = c
      BY <2>1, <2>6, <1>l DEF Pass
    <3> QED
      BY <2>1, <2>4, <2>6, <3>1 DEF Walks, InStep, Place, Unread, Early, Admitted, Over
  <2>7. ASSUME NEW s \in Mintable, opens' = [opens EXCEPT ![x] = s],
               Pass(x, [c EXCEPT !.openLeg = "Required"], "sign")
        PROVE  Walks(x)
    <3>1. pc'[x] = "sign" /\ progress'[x] = [c EXCEPT !.openLeg = "Required"]
      BY <2>1, <2>7, <1>l DEF Pass
    <3>2. opens'[x] = s /\ s # None
      BY <2>7, ServingAssumption DEF ServingAssumption, Mintable, Typed, TypeOK
    <3>3. /\ progress'[x].anomaly = "None" /\ progress'[x].request = 14
          /\ progress'[x].origin = "BackendReplied" /\ progress'[x].openLeg = "Required"
      BY <2>4, <3>1 DEF Live, Progress
    <3> QED
      BY <2>1, <3>1, <3>2, <3>3 DEF Walks, InStep, Place, Unread, Early, Admitted, Over
  <2> QED
    BY <1>15, <1>p, <1>r, <2>1, <2>4, <2>5, <2>6, <2>7 DEF ReadReply, p, v, c
<1>16. CASE SignReply(x)
  <2> DEFINE q == Advance(p, "ResponseSigned")
  <2>1. /\ pc[x] = "sign" /\ pc[x] \in Late /\ p.request = 14 /\ p.origin = "BackendReplied"
        /\ p.openLeg = (IF opens[x] = None THEN "NotApplicable" ELSE "Required")
        /\ req[x].kind = "call" /\ UNCHANGED <<req, opens>>
    BY <1>16, <1>p, <1>s DEF SignReply, Was, Late, InStep, Place, p
  <2>2. Clean(p, q, 15)
    BY <1>a, <1>p, <2>1, Positions DEF Ordinary
  <2> HIDE DEF q
  <2>3. CASE Pass(x, q, "record")
    <3>1. pc'[x] = "record" /\ progress'[x] = q
      BY <2>1, <2>3, <1>l DEF Pass
    <3> QED
      BY <2>1, <2>2, <3>1 DEF Clean, Walks, InStep, Place, Unread, Early, Admitted, Over
  <2> QED
    BY <1>16, <1>p, <1>r, <2>1, <2>3 DEF SignReply, p, q
<1>17. CASE RecordLeg(x)
  <2> DEFINE n == Advance(p, "ContinuationNotRequired")
             o == ObserveOpenLeg(p, "Recorded")
  <2>1. /\ pc[x] = "record" /\ pc[x] \in Late /\ p.request = 15 /\ p.origin = "BackendReplied"
        /\ p.openLeg = (IF opens[x] = None THEN "NotApplicable" ELSE "Required")
        /\ req[x].kind = "call" /\ UNCHANGED <<req, opens>>
    BY <1>17, <1>p, <1>s DEF RecordLeg, Was, Late, InStep, Place, p
  <2>2. Clean(p, n, 16)
    BY <1>a, <1>p, <2>1, Positions DEF Ordinary
  <2> HIDE DEF n
  <2>3. /\ Live(o) /\ o.anomaly = "None" /\ o.request = 15 /\ o.origin = "BackendReplied"
        /\ o.openLeg = "Recorded"
    BY <1>p, <2>1 DEF ObserveOpenLeg, OpenLegRank, OpenLeg, Live, Progress
  <2> HIDE DEF o
  <2>4. Clean(o, Recorded(p), 16)
    BY <1>a, <2>3, Positions DEF Ordinary, Recorded, o
  <2>5. ASSUME opens[x] = None, Pass(x, n, "serve") PROVE Walks(x)
    <3>1. pc'[x] = "serve" /\ progress'[x] = n
      BY <2>1, <2>5, <1>l DEF Pass
    <3> QED
      BY <2>1, <2>2, <2>5, <3>1 DEF Clean, Settled, Walks, InStep, Place, Unread, Early, Admitted, Over
  <2>6. ASSUME opens[x] # None, Pass(x, Recorded(p), "serve") PROVE Walks(x)
    <3>1. pc'[x] = "serve" /\ progress'[x] = Recorded(p)
      BY <2>1, <2>6, <1>l DEF Pass
    <3> QED
      BY <2>1, <2>3, <2>4, <2>6, <3>1
      DEF Clean, Settled, Walks, InStep, Place, Unread, Early, Admitted, Over
  <2>7. CASE Pass(x, p, "record")
    <3>1. pc'[x] = "record" /\ progress'[x] = p
      BY <2>1, <2>7, <1>l DEF Pass
    <3> QED
      BY <1>p, <2>1, <3>1 DEF Walks, InStep, Place, Unread, Early, Admitted, Over
  <2> QED
    BY <1>17, <1>p, <1>r, <2>1, <2>5, <2>6, <2>7
    DEF RecordLeg, RefuseCapabilityAbsent, AfterCreate, SpendAttempt, p, n
<1>18. CASE CheckPublication(x)
  <2>1. /\ pc[x] = "serve" /\ pc[x] \in Late /\ p.request = 16 /\ Settled(x)
        /\ req[x].kind = "call" /\ UNCHANGED <<req, opens>>
    BY <1>18, <1>p, <1>s DEF CheckPublication, Was, Late, InStep, Place, p
  <2>2. MayPublish(p, SuccessOf(x))
    BY <1>p, <2>1, PublishClean DEF SuccessOf, Settled, p
  <2>3. pc'[x] = "retain" /\ progress'[x] = p
    BY <1>18, <2>1, <2>2, <1>l DEF CheckPublication, Pass, p
  <2> QED
    BY <1>p, <2>1, <2>3 DEF Settled, Walks, InStep, Place, Unread, Early, Admitted, Over, p
<1>19. CASE RetainAccepted(x)
  <2>1. pc[x] = "retain" /\ pc[x] \in Late
    BY <1>19 DEF RetainAccepted, Was, Late
  <2>2. req[x].kind \in Kind
    BY <2>1 DEF Typed, Asked, Request
  <2>3. Accepted(x).anomaly = "None"
    <3>1. CASE req[x].kind = "notification"
      BY <1>p, <3>1 DEF Accepted, p
    <3>2. CASE req[x].kind = "call"
      BY <1>p, <2>1, <3>2, PublishClean DEF Accepted, SuccessOf, Settled, InStep, p
    <3> QED
      BY <2>2, <3>1, <3>2 DEF Kind
  <2>4. CASE To(x, "done") /\ Learn(x, Accepted(x))
    BY <2>1, <2>3, <2>4, WalkRefuse DEF Over
  <2> QED
    BY <1>19, <1>p, <1>r, <2>1, <2>4 DEF RetainAccepted, p
<1>20. CASE SettleRefusal(x)
  <2>1. pc[x] \in Late /\ To(x, "done") /\ progress' = progress
    BY <1>20 DEF SettleRefusal, Was, Late, serverVars
  <2>2. Learn(x, p)
    BY <2>1 DEF Learn, Typed, TypeOK, p
  <2> QED
    BY <1>p, <2>1, <2>2, WalkRefuse DEF Over
<1> QED
  BY <1>1, <1>2, <1>3, <1>4, <1>5, <1>6, <1>7, <1>8, <1>9, <1>10, <1>11, <1>12, <1>13, <1>14,
     <1>15, <1>16, <1>17, <1>18, <1>19, <1>20 DEF Handle

----------------------------------------------------------------------------
(* A warning that the call may have run is of a call that was sent. *)
WarnedSent ==
  \A x \in Exchange : pc[x] \in Over /\ reply[x].execution = "PossiblyExecuted" => x \in sent

WalkInv == Walking /\ WarnedSent

(* A refusal before the crossing, with nothing latched, warns of nothing. *)
LEMMA QuietDisposition ==
  ASSUME NEW p, Live(p), p.anomaly = "None", ~Crossed(p), NEW r \in Refinement
  PROVE  Disposition(p, r) # "PossiblyExecuted"
<1>1. RetrySemanticsOf(p) # "NotRetrySafe"
  BY DEF RetrySemanticsOf, BackendMayHaveExecuted, Crossed
<1> QED
  BY <1>1, ServingAssumption DEF Disposition, Refinement

(* Every step of the handler preserves it. *)
LEMMA WalkInvHandle ==
  ASSUME Typed, NonceInv, EvidenceInv, LegInv, WalkInv, NEW x \in Exchange, Handle(x)
  PROVE  WalkInv'
<1>w. Walks(x) /\ WorldFrame(x) /\ StoreFrame(x)
  BY WalkHandle, HandleWorld, HandleStores DEF WalkInv
<1>e. PICK t \in Stage, q \in Progress :
        /\ pc' = [pc EXCEPT ![x] = t]
        /\ progress' = [progress EXCEPT ![x] = q]
        /\ Grows(progress[x], q)
        /\ Forward(pc[x], t)
        /\ Answering(x, t, q)
  BY HandleEffect DEF Effect
<1>0. /\ pc \in [Exchange -> Stage] /\ progress \in [Exchange -> Progress]
      /\ reply \in [Exchange -> Reply \cup {None}] /\ Live(q)
  BY <1>e DEF Typed, TypeOK, Grows
<1>1. \A y \in Exchange \ {x} : pc'[y] = pc[y] /\ progress'[y] = progress[y] /\ reply'[y] = reply[y]
  <2>1. \A y \in Exchange \ {x} : reply'[y] = reply[y]
    BY <1>0, <1>e DEF Answering
  <2> QED
    BY <1>0, <1>e, <2>1
<1>2. pc'[x] = t /\ progress'[x] = q
  BY <1>0, <1>e
<1>3. req' = req /\ \A y \in Exchange \ {x} : opens'[y] = opens[y]
  BY <1>w DEF StoreFrame, WorldFrame, Typed, TypeOK
<1>4. Walking'
  <2> SUFFICES ASSUME NEW y \in Exchange PROVE InStep(y)'
    BY DEF Walking
  <2>1. CASE y = x
    BY <1>w, <2>1 DEF Walks
  <2>2. CASE y # x
    BY <1>1, <1>3, <2>2 DEF WalkInv, Walking, InStep, Settled
  <2> QED
    BY <2>1, <2>2
<1>5. sent \subseteq sent'
  BY <1>w DEF WorldFrame
<1>6. WarnedSent'
  <2> SUFFICES ASSUME NEW y \in Exchange, pc'[y] \in Over, reply'[y].execution = "PossiblyExecuted"
               PROVE  y \in sent'
    BY DEF WarnedSent
  <2>1. CASE y # x
    BY <1>1, <1>5, <2>1 DEF WalkInv, WarnedSent
  <2>2. CASE y = x /\ pc[x] \in Late
    BY <1>5, <2>2 DEF EvidenceInv, LateSent
  <2>3. CASE y = x /\ pc[x] \notin Late
    <3>1. ~Crossed(q) /\ q.anomaly = "None"
      BY <1>2, <1>w, <1>4, <2>3 DEF Walks, Walking, InStep
    <3>2. PICK c \in Cause, r \in Refinement :
            reply' = [reply EXCEPT ![x] = [cause |-> c, execution |-> Disposition(q, r)]]
      BY <1>e, <1>2, <2>3 DEF Answering, Late
    <3>3. reply'[x].execution = Disposition(q, r)
      BY <1>0, <3>2
    <3> QED
      BY <1>0, <2>3, <3>1, <3>3, QuietDisposition
  <2> QED
    BY <2>1, <2>2, <2>3
<1> QED
  BY <1>4, <1>6 DEF WalkInv

(* So does every step of the system. *)
LEMMA WalkNext ==
  Typed /\ NonceInv /\ EvidenceInv /\ LegInv /\ WalkInv /\ [Next]_vars => WalkInv'
<1> SUFFICES ASSUME Typed, NonceInv, EvidenceInv, LegInv, WalkInv, [Next]_vars PROVE WalkInv'
  OBVIOUS
<1>0. pc \in [Exchange -> Stage] /\ req \in [Exchange -> Request \cup {None}]
  BY DEF Typed, TypeOK
<1>1. ASSUME NEW x \in Exchange, Receive(x) PROVE WalkInv'
  <2>1. /\ pc[x] = "idle" /\ pc' = [pc EXCEPT ![x] = "verify"]
        /\ \A y \in Exchange \ {x} : req'[y] = req[y]
        /\ UNCHANGED <<reply, progress, opens, sent>>
    BY <1>0, <1>1 DEF Receive, Was, To, serverVars, worldVars
  <2>2. \A y \in Exchange \ {x} : pc'[y] = pc[y]
    BY <1>0, <2>1
  <2>3. pc'[x] = "verify"
    BY <1>0, <2>1
  <2>4. ASSUME NEW y \in Exchange PROVE InStep(y)'
    <3>1. CASE y = x
      BY <2>1, <2>3, <3>1 DEF WalkInv, Walking, InStep, Place, Unread, Early, Admitted
    <3>2. CASE y # x
      BY <2>1, <2>2, <3>2 DEF WalkInv, Walking, InStep, Settled
    <3> QED
      BY <3>1, <3>2
  <2>5. WarnedSent'
    BY <2>1, <2>2, <2>3 DEF WalkInv, WarnedSent, Over
  <2> QED
    BY <2>4, <2>5 DEF WalkInv, Walking
<1>2. ASSUME NEW x \in Exchange, Abandon(x) PROVE WalkInv'
  <2>1. pc' = [pc EXCEPT ![x] = "gone"] /\ UNCHANGED <<req, reply, progress, opens, sent>>
    BY <1>2 DEF Abandon, To, serverVars, worldVars
  <2>2. pc'[x] = "gone" /\ \A y \in Exchange \ {x} : pc'[y] = pc[y]
    BY <1>0, <2>1
  <2>3. ASSUME NEW y \in Exchange PROVE InStep(y)'
    <3>1. CASE y = x
      BY <2>1, <2>2, <3>1 DEF WalkInv, Walking, InStep, Place, Unread, Early, Admitted
    <3>2. CASE y # x
      BY <2>1, <2>2, <3>2 DEF WalkInv, Walking, InStep, Settled
    <3> QED
      BY <3>1, <3>2
  <2>4. WarnedSent'
    BY <2>1, <2>2 DEF WalkInv, WarnedSent, Over
  <2> QED
    BY <2>3, <2>4 DEF WalkInv, Walking
<1>3. ASSUME UNCHANGED <<pc, req, reply, progress, opens, sent>> PROVE WalkInv'
  BY <1>3 DEF WalkInv, Walking, InStep, Settled, WarnedSent
<1>4. ASSUME NEW x \in Exchange, Rescind(x) \/ InnerExecutes(x) PROVE WalkInv'
  BY <1>3, <1>4 DEF Rescind, InnerExecutes, serverVars, worldVars
<1>5. ASSUME NEW k \in Key, Expire(k) PROVE WalkInv'
  BY <1>3, <1>5 DEF Expire, serverVars, worldVars
<1>6. CASE UNCHANGED vars
  BY <1>3, <1>6 DEF vars, serverVars, worldVars
<1> QED
  BY <1>1, <1>2, <1>4, <1>5, <1>6, WalkInvHandle DEF Next

(* The pipeline overstates nothing: no interleaving, outage or failed call *)
(* makes handle leave its machine's path, so that no anomaly is latched,   *)
(* no due publication is refused, and a client is warned that its call may *)
(* have run only when it was handed to the inner plane.                    *)
THEOREM NothingOverstatedHolds == Spec => []NothingOverstated
<1>1. Init => WalkInv
  BY DEF Init, NewProgress, Received, WalkInv, Walking, InStep, Place, WarnedSent, Unread, Early,
     Admitted, Over
<1>2. Init => LegInv
  BY DEF Init, LegInv, Unopened, LegStored, Served
<1>3. Typed /\ WalkInv => NothingOverstated
  BY DEF Typed, WalkInv, Walking, InStep, WarnedSent, NothingOverstated, NoFalseAlarm, NoAnomaly,
     Refused, Over
<1> QED
  BY <1>1, <1>2, <1>3, InitInvariants, HonestInit, EvidenceInit, TypedInit, TypedNext, NonceNext,
     HonestNext, EvidenceNext, LegNext, WalkNext, PTL DEF Spec

-----------------------------------------------------------------------------
(* What a client is told, for every number of calls, transmissions, copies *)
(* of them and exchanges: the invariants of the pipeline that an answer    *)
(* rests on, then what the client makes of the answer.                     *)

(* The pipeline's own invariants, proved with its theorems. *)
Base == Typed /\ NonceInv /\ HonestInv /\ EvidenceInv /\ LegInv /\ WalkInv

(* They hold initially. *)
LEMMA BaseInit == Init => Base
<1>1. Init => WalkInv
  BY DEF Init, NewProgress, Received, WalkInv, Walking, InStep, Place, WarnedSent, Unread, Early,
     Admitted, Over
<1>2. Init => LegInv
  BY DEF Init, LegInv, Unopened, LegStored, Served
<1> QED
  BY <1>1, <1>2, TypedInit, InitInvariants, HonestInit, EvidenceInit DEF Base

(* And are kept together. *)
LEMMA BaseNext == Base /\ [Next]_vars => Base'
BY TypedNext, NonceNext, HonestNext, EvidenceNext, LegNext, WalkNext DEF Base

----------------------------------------------------------------------------
(* The nonce of the exchange was burned for it, whatever became of it. *)
Burned(x) == progress[x].request >= ReplayAdmitted

BurnedInv ==
  /\ \A x \in Exchange : Burned(x) => ReplayKey(x) \in nonces
  /\ \A x, y \in Exchange : x # y /\ Burned(x) /\ Burned(y) => ReplayKey(x) # ReplayKey(y)

(* A refusal that carries no contract. *)
Silent(x) ==
  reply[x].execution = "NothingExecuted" /\ reply[x].cause # "EvidenceRetentionIndeterminate"

(* An exchange refused before its nonce was burned is refused in silence. *)
SilentInv ==
  \A x \in Exchange :
    /\ pc[x] \in Early => ~Spent(progress[x])
    /\ pc[x] = "done" /\ ~Burned(x) => Silent(x)

(* A reply is of an exchange that the inner server acted on. *)
RanInv ==
  \A x \in Exchange :
    /\ pc[x] \in {"acknowledge", "observe"} =>
         outcome[x] \in Outcome /\ (outcome[x] # "Indeterminate" => x \in executed)
    /\ pc[x] \in {"read", "sign", "record", "serve", "retain"} => x \in executed
    /\ Served(x) => x \in executed

AnswerInv == BurnedInv /\ SilentInv /\ RanInv

(* What a step before the nonce is burned may do. *)
EarlyFrame(x) ==
  /\ pc'[x] \in Early \cup {"snapshot", "done"}
  /\ pc'[x] \in Early => ~Spent(progress'[x])
  /\ pc'[x] # "snapshot" => progress'[x].request < ReplayAdmitted
  /\ pc'[x] = "done" => Silent(x)'

(* Refusing there is silent. *)
LEMMA EarlyRefusal ==
  ASSUME Typed, NEW x \in Exchange, NEW q, NEW c, c # "EvidenceRetentionIndeterminate",
         Live(q), q.anomaly = "None", q.request < ReplayAdmitted, ~Spent(q), Refuse(x, q, c)
  PROVE  EarlyFrame(x)
<1>1. pc'[x] = "done" /\ progress'[x] = q
      /\ reply'[x] = [cause |-> c, execution |-> Disposition(q, None)]
  BY DEF Typed, TypeOK, Refuse, RefuseAt, To, Learn
<1>2. RetrySemanticsOf(q) = "SafeNothingExecuted"
  BY DEF RetrySemanticsOf, BackendMayHaveExecuted, Spent, Live, Received,
     CompletedContinuationOpen, ReplayAdmitted, RetentionCommitted
<1>3. Disposition(q, None) = "NothingExecuted"
  BY <1>2 DEF Disposition
<1> QED
  BY <1>1, <1>3 DEF EarlyFrame, Silent, Early

(* Going on before the burning spends nothing. *)
LEMMA EarlyPass ==
  ASSUME Typed, NEW x \in Exchange, NEW q, NEW t \in Early, Pass(x, q, t),
         q.request < ReplayAdmitted, ~Spent(q)
  PROVE  EarlyFrame(x)
<1>1. pc'[x] = t /\ progress'[x] = q
  BY DEF Typed, TypeOK, Pass, To, Learn
<1> QED
  BY <1>1 DEF EarlyFrame, Early

(* Every such step of the handler is one of the two, or the burning. *)
LEMMA HandleEarly ==
  ASSUME Base, SilentInv, NEW x \in Exchange, Handle(x), pc[x] \in Early
  PROVE  EarlyFrame(x)
<1> DEFINE p == progress[x]
<1>p. /\ Typed /\ Live(p) /\ p.anomaly = "None" /\ ~Spent(p)
      /\ pc[x] \in DOMAIN Place => p.request = Place[pc[x]]
  BY DEF Base, Typed, WalkInv, Walking, InStep, SilentInv
<1>a. \A e \in Ordinary : p.request + 1 = Establishes(e)
        => Clean(p, Advance(p, e), Establishes(e))
  BY <1>p, OrdinaryAdvance
<1>c. \A e \in Event : Advance(p, e).continuation = p.continuation
  BY <1>p, AdvanceFacts
<1>r. \A q, c : /\ Refuse(x, q, c) /\ c # "EvidenceRetentionIndeterminate"
                /\ Live(q) /\ q.anomaly = "None" /\ q.request < ReplayAdmitted /\ ~Spent(q)
                => EarlyFrame(x)
  BY <1>p, EarlyRefusal
<1>o. \A q : \A t \in Early : Pass(x, q, t) /\ q.request < ReplayAdmitted /\ ~Spent(q) => EarlyFrame(x)
  BY <1>p, EarlyPass
<1>h. Verify(x) \/ BindTransport(x) \/ CheckAdmission(x) \/ PeekContinuation(x) \/ AdmitReplay(x)
  BY DEF Handle, Was, Early, SnapshotKey, RetireContinuation, PrepareDispatch, ReserveRetention,
     CommitRetention, Dispatch, DispatchReturns, AcknowledgeNotification, ObserveReply, ReadReply,
     SignReply, RecordLeg, CheckPublication, RetainAccepted, SettleRefusal
<1> HIDE DEF p
<1>1. CASE Verify(x)
  <2>1. p.request = 0
    BY <1>1, <1>p DEF Verify, Was, Place
  <2>2. Clean(p, Advance(p, "SignatureVerified"), 1) /\ ~Spent(Advance(p, "SignatureVerified"))
    BY <1>a, <1>c, <1>p, <2>1, Positions, EventNames DEF Ordinary, Spent
  <2> QED
    BY <1>1, <1>p, <1>r, <1>o, <2>1, <2>2 DEF Verify, Early, Clean, ReplayAdmitted, p
<1>2. CASE BindTransport(x)
  <2>1. p.request = 1
    BY <1>2, <1>p DEF BindTransport, Was, Place
  <2>2. /\ Clean(p, Advance(p, "TransportBindingChecked"), 2)
        /\ ~Spent(Advance(p, "TransportBindingChecked"))
    BY <1>a, <1>c, <1>p, <2>1, Positions, EventNames DEF Ordinary, Spent
  <2> QED
    BY <1>2, <1>p, <1>r, <1>o, <2>1, <2>2 DEF BindTransport, Early, Clean, ReplayAdmitted, p
<1>3. CASE CheckAdmission(x)
  <2>1. p.request = 2
    BY <1>3, <1>p DEF CheckAdmission, Was, Place
  <2>2. /\ Clean(p, Advance(p, "AdmissionCurrencyChecked"), 3)
        /\ ~Spent(Advance(p, "AdmissionCurrencyChecked"))
    BY <1>a, <1>c, <1>p, <2>1, Positions, EventNames DEF Ordinary, Spent
  <2> QED
    BY <1>3, <1>p, <1>r, <1>o, <2>1, <2>2 DEF CheckAdmission, Early, Clean, ReplayAdmitted, p
<1>4. CASE PeekContinuation(x)
  <2> DEFINE q == Advance(p, "ContinuationPrepared")
  <2>1. p.request = 3
    BY <1>4, <1>p DEF PeekContinuation, Was, Place
  <2>2. Clean(p, q, 4) /\ ~Spent(q)
    BY <1>a, <1>c, <1>p, <2>1, Positions, EventNames DEF Ordinary, Spent
  <2>3. Clean(p, ObserveContinuation(q, "Peeked"), 4) /\ ~Spent(ObserveContinuation(q, "Peeked"))
    BY <2>2 DEF Clean, ObserveContinuation, Live, Progress, ContinuationState, Spent
  <2> HIDE DEF q
  <2> QED
    BY <1>4, <1>p, <1>r, <1>o, <2>1, <2>2, <2>3 DEF PeekContinuation, Early, Clean, ReplayAdmitted, p, q
<1>5. CASE AdmitReplay(x)
  <2>1. p.request = 4
    BY <1>5, <1>p DEF AdmitReplay, Was, Place
  <2>2. ASSUME Pass(x, Advance(p, "ReplayAdmitted"), "snapshot") PROVE EarlyFrame(x)
    BY <1>p, <2>2 DEF Pass, To, Typed, TypeOK, EarlyFrame, Early
  <2> QED
    BY <1>5, <1>p, <1>r, <2>1, <2>2 DEF AdmitReplay, TierUnavailable, ReplayAdmitted, p
<1> QED
  BY <1>h, <1>1, <1>2, <1>3, <1>4, <1>5

(* What a step of the handler does to the outcome of the dispatch. *)
RunFrame(x) ==
  /\ pc'[x] \in {"acknowledge", "observe"} =>
       outcome'[x] \in Outcome /\ (outcome'[x] # "Indeterminate" => x \in executed)
  /\ pc'[x] \in {"read", "sign", "record", "serve", "retain"} =>
       \/ pc[x] \in {"read", "sign", "record", "serve"}
       \/ pc[x] \in {"acknowledge", "observe"} /\ outcome[x] # "Indeterminate"
  /\ \A y \in Exchange \ {x} : outcome'[y] = outcome[y]

(* Every step of the handler is such a step. *)
LEMMA HandleRuns ==
  ASSUME Typed, NEW x \in Exchange, Handle(x)
  PROVE  RunFrame(x)
<1>0. pc \in [Exchange -> Stage] /\ outcome \in [Exchange -> Outcome \cup {None}]
  BY DEF Typed, TypeOK
<1>1. ASSUME NEW t, To(x, t), outcome' = outcome,
             t \notin {"acknowledge", "observe", "read", "sign", "record", "serve", "retain"}
      PROVE  RunFrame(x)
  BY <1>0, <1>1 DEF To, RunFrame
<1>2. ASSUME NEW t, To(x, t), outcome' = outcome, t \notin {"acknowledge", "observe"},
             \/ pc[x] \in {"read", "sign", "record", "serve"}
             \/ pc[x] \in {"acknowledge", "observe"} /\ outcome[x] # "Indeterminate"
      PROVE  RunFrame(x)
  BY <1>0, <1>2 DEF To, RunFrame
<1>3. CASE Verify(x) \/ BindTransport(x) \/ CheckAdmission(x) \/ SnapshotKey(x) \/ PrepareDispatch(x)
  BY <1>1, <1>3 DEF Verify, BindTransport, CheckAdmission, SnapshotKey, PrepareDispatch, Pass,
     Refuse, RefuseAt
<1>4. CASE PeekContinuation(x) \/ AdmitReplay(x) \/ RetireContinuation(x)
  BY <1>1, <1>4 DEF PeekContinuation, AdmitReplay, TierUnavailable, RetireContinuation,
     AlreadyAnswered, Pass, Refuse, RefuseAt
<1>5. CASE ReserveRetention(x) \/ CommitRetention(x) \/ Dispatch(x) \/ SettleRefusal(x)
  BY <1>1, <1>5 DEF ReserveRetention, CommitRetention, Dispatch, SettleRefusal, RefuseUnretained,
     RefuseUnresolved, Pass, Refuse, RefuseAt, serverVars
<1>6. CASE DispatchReturns(x)
  <2>1. PICK o \in Outcome : outcome' = [outcome EXCEPT ![x] = o]
                             /\ (o # "Indeterminate" => x \in executed)
    BY <1>6 DEF DispatchReturns, Outcome
  <2>2. pc'[x] \in {"acknowledge", "observe"}
    BY <1>0, <1>6 DEF DispatchReturns, To, Resume
  <2> QED
    BY <1>0, <2>1, <2>2 DEF RunFrame
<1>7. CASE AcknowledgeNotification(x)
  <2>1. outcome' = outcome /\ pc[x] = "acknowledge"
    BY <1>7 DEF AcknowledgeNotification, Was
  <2>2. \/ outcome[x] = "Indeterminate" /\ To(x, "settle")
        \/ outcome[x] # "Indeterminate" /\ \E t \in {"retain", "settle", "done"} : To(x, t)
    BY <1>7 DEF AcknowledgeNotification, RefuseRetained, RefuseAt, Refuse, Pass
  <2> QED
    BY <1>1, <1>2, <2>1, <2>2
<1>8. CASE ObserveReply(x)
  <2>1. outcome' = outcome /\ pc[x] = "observe"
    BY <1>8 DEF ObserveReply, Was
  <2>2. (outcome[x] # "Indeterminate" /\ To(x, "read")) \/ To(x, "settle")
    BY <1>8 DEF ObserveReply, RefuseRetained, RefuseAt, Pass
  <2> QED
    BY <1>1, <1>2, <2>1, <2>2
<1>9. CASE ReadReply(x)
  <2>1. outcome' = outcome /\ pc[x] = "read" /\ \E t \in {"sign", "settle"} : To(x, t)
    BY <1>9 DEF ReadReply, Was, RefuseRetained, RefuseAt, Pass
  <2> QED
    BY <1>2, <2>1
<1>10. CASE SignReply(x) \/ CheckPublication(x)
  <2>1. outcome' = outcome /\ pc[x] \in {"sign", "serve"}
        /\ \E t \in {"record", "retain", "settle", "done"} : To(x, t)
    BY <1>10 DEF SignReply, CheckPublication, Was, RefuseRetained, Refuse, RefuseAt, Pass
  <2> QED
    BY <1>2, <2>1
<1>11. CASE RecordLeg(x)
  <2>1. outcome' = outcome /\ pc[x] = "record" /\ \E t \in {"record", "serve", "done"} : To(x, t)
    BY <1>11 DEF RecordLeg, Was, RefuseCapabilityAbsent, AfterCreate, SpendAttempt, Refuse,
       RefuseAt, Pass
  <2> QED
    BY <1>2, <2>1
<1>12. CASE RetainAccepted(x)
  <2>1. outcome' = outcome /\ To(x, "done")
    BY <1>12 DEF RetainAccepted, Refuse, RefuseAt
  <2> QED
    BY <1>1, <2>1
<1> QED
  BY <1>3, <1>4, <1>5, <1>6, <1>7, <1>8, <1>9, <1>10, <1>11, <1>12 DEF Handle

----------------------------------------------------------------------------
(* Every step of the handler keeps what an answer rests on. *)
LEMMA AnswerHandle ==
  ASSUME Base, AnswerInv, NEW x \in Exchange, Handle(x)
  PROVE  AnswerInv'
<1>b. Typed /\ NonceInv /\ HonestInv /\ EvidenceInv /\ Walking
  BY DEF Base, WalkInv
<1>f. StoreFrame(x) /\ WorldFrame(x) /\ RunFrame(x)
  BY <1>b, HandleStores, HandleWorld, HandleRuns
<1>e. PICK t \in Stage, q \in Progress :
        /\ pc' = [pc EXCEPT ![x] = t]
        /\ progress' = [progress EXCEPT ![x] = q]
        /\ Grows(progress[x], q)
        /\ Forward(pc[x], t)
        /\ Answering(x, t, q)
  BY <1>b, HandleEffect DEF Effect
<1>0. /\ pc \in [Exchange -> Stage] /\ progress \in [Exchange -> Progress]
      /\ reply \in [Exchange -> Reply \cup {None}] /\ Live(progress[x]) /\ Live(q)
  BY <1>b, <1>e DEF Typed, TypeOK, Grows
<1>1. \A y \in Exchange \ {x} : pc'[y] = pc[y] /\ progress'[y] = progress[y] /\ reply'[y] = reply[y]
  <2>1. \A y \in Exchange \ {x} : reply'[y] = reply[y]
    BY <1>0, <1>e DEF Answering
  <2> QED
    BY <1>0, <1>e, <2>1
<1>2. pc'[x] = t /\ progress'[x] = q
  BY <1>0, <1>e
<1>3. req' = req /\ executed' = executed /\ nonces \subseteq nonces'
      /\ \A y \in Exchange : ReplayKey(y)' = ReplayKey(y)
  BY <1>f DEF WorldFrame, StoreFrame, ReplayKey
<1>4. pc[x] \in Early => EarlyFrame(x)
  BY HandleEarly DEF AnswerInv
<1>5. pc[x] \notin Early => Burned(x)
  <2>1. pc[x] \in Admitted => Burned(x)
    BY <1>b DEF Walking, InStep, Place, Admitted, Burned, ReplayAdmitted
  <2>2. pc[x] \in Late => Burned(x)
    BY <1>b, <1>0 DEF EvidenceInv, LateSent, HonestInv, SentIsKnown, Crossed, Burned, ReplayAdmitted,
       RetentionCommitted, Live, Received, CompletedContinuationOpen
  <2>3. pc[x] \in Early \cup Admitted \cup Late
    BY <1>0, <1>e DEF Forward, Stage, Early, Admitted, Late
  <2> QED
    BY <2>1, <2>2, <2>3
<1>6. Burned(x) => Burned(x)'
  BY <1>0, <1>2, <1>e DEF Burned, Grows, Live, Received, CompletedContinuationOpen, ReplayAdmitted
<1>7. Burned(x)' => Burned(x) \/ (ReplayKey(x) \notin nonces /\ ReplayKey(x) \in nonces')
  <2> SUFFICES ASSUME Burned(x)', ~Burned(x)
               PROVE  ReplayKey(x) \notin nonces /\ ReplayKey(x) \in nonces'
    OBVIOUS
  <2>1. pc'[x] = "snapshot"
    BY <1>0, <1>2, <1>4, <1>5 DEF EarlyFrame, Burned, ReplayAdmitted, Live, Received,
       CompletedContinuationOpen
  <2>2. pc[x] \in Early /\ pc[x] \in Admitted \cup {"replay"}
    BY <1>2, <1>5, <1>e, <2>1 DEF Forward, Admitted
  <2>3. pc[x] = "replay" /\ pc'[x] \in Admitted
    BY <2>1, <2>2 DEF Early, Admitted
  <2> QED
    BY <1>f, <2>3 DEF StoreFrame
<1>8. \A y \in Exchange \ {x} : Burned(y)' <=> Burned(y)
  BY <1>1 DEF Burned
<1>9. BurnedInv'
  <2>1. \A y \in Exchange : Burned(y)' => ReplayKey(y) \in nonces'
    BY <1>3, <1>7, <1>8 DEF AnswerInv, BurnedInv
  <2>2. ASSUME NEW y \in Exchange, NEW z \in Exchange, y # z, Burned(y)', Burned(z)'
        PROVE  ReplayKey(y) # ReplayKey(z)
    BY <1>7, <1>8, <2>2 DEF AnswerInv, BurnedInv
  <2> QED
    BY <1>3, <2>1, <2>2 DEF BurnedInv
<1>10. SilentInv'
  <2>1. t \in Early => pc[x] \in Early
    BY <1>e DEF Forward
  <2>2. /\ pc'[x] \in Early => ~Spent(progress'[x])
        /\ pc'[x] = "done" /\ ~Burned(x)' => Silent(x)'
    BY <1>2, <1>4, <1>5, <1>6, <2>1 DEF EarlyFrame
  <2> QED
    BY <1>1, <2>2 DEF AnswerInv, SilentInv, Silent, Burned
<1>11. RanInv'
  <2>1. \A y \in Exchange \ {x} : outcome'[y] = outcome[y]
    BY <1>f DEF RunFrame
  <2>2. t \in {"read", "sign", "record", "serve", "retain"} => x \in executed
    BY <1>2, <1>f DEF RunFrame, AnswerInv, RanInv
  <2>3. Served(x)' => x \in executed
    <3> SUFFICES ASSUME Served(x)' PROVE x \in executed
      OBVIOUS
    <3>1. t = "done" /\ reply'[x].cause \in {"Success", "Accepted"}
      BY <1>2 DEF Served
    <3>2. pc[x] # "settle" \/ reply' # reply
      BY <1>b, <3>1 DEF EvidenceInv, SettlesRefusal
    <3>3. pc[x] = "retain"
      BY <1>0, <1>e, <3>1, <3>2 DEF Answering, Over
    <3> QED
      BY <3>3 DEF AnswerInv, RanInv
  <2>4. t \in {"acknowledge", "observe"} =>
          outcome'[x] \in Outcome /\ (outcome'[x] # "Indeterminate" => x \in executed)
    BY <1>2, <1>f DEF RunFrame
  <2> SUFFICES ASSUME NEW y \in Exchange
               PROVE  /\ pc'[y] \in {"acknowledge", "observe"} =>
                           outcome'[y] \in Outcome /\ (outcome'[y] # "Indeterminate" => y \in executed')
                      /\ pc'[y] \in {"read", "sign", "record", "serve", "retain"} => y \in executed'
                      /\ Served(y)' => y \in executed'
    BY DEF RanInv
  <2>5. CASE y = x
    BY <1>2, <1>3, <2>2, <2>3, <2>4, <2>5
  <2>6. CASE y # x
    BY <1>1, <1>3, <2>1, <2>6 DEF AnswerInv, RanInv, Served
  <2> QED
    BY <2>5, <2>6
<1> QED
  BY <1>9, <1>10, <1>11 DEF AnswerInv

(* So does every step of the system. *)
LEMMA AnswerNext == Base /\ AnswerInv /\ [Next]_vars => AnswerInv'
<1> SUFFICES ASSUME Base, AnswerInv, [Next]_vars PROVE AnswerInv'
  OBVIOUS
<1>0. /\ pc \in [Exchange -> Stage] /\ req \in [Exchange -> Request \cup {None}]
      /\ Walking
  BY DEF Base, Typed, TypeOK, WalkInv
<1>1. ASSUME NEW x \in Exchange, Receive(x) PROVE AnswerInv'
  <2>1. /\ pc[x] = "idle" /\ pc' = [pc EXCEPT ![x] = "verify"]
        /\ \A y \in Exchange \ {x} : req'[y] = req[y]
        /\ UNCHANGED <<reply, progress, outcome, executed, nonces>>
    BY <1>0, <1>1 DEF Receive, Was, To, serverVars, storeVars, worldVars
  <2>2. pc'[x] = "verify" /\ \A y \in Exchange \ {x} : pc'[y] = pc[y]
    BY <1>0, <2>1
  <2>3. ~Burned(x)
    BY <1>0, <2>1 DEF Walking, InStep, Place, Burned, ReplayAdmitted
  <2>4. BurnedInv'
    <3>1. \A y \in Exchange : Burned(y)' <=> Burned(y)
      BY <2>1 DEF Burned
    <3>2. \A y \in Exchange \ {x} : ReplayKey(y)' = ReplayKey(y)
      BY <2>1 DEF ReplayKey
    <3> QED
      BY <2>1, <2>3, <3>1, <3>2 DEF AnswerInv, BurnedInv
  <2>5. SilentInv'
    BY <2>1, <2>2 DEF AnswerInv, SilentInv, Silent, Burned, Early
  <2>6. RanInv'
    BY <2>1, <2>2 DEF AnswerInv, RanInv, Served
  <2> QED
    BY <2>4, <2>5, <2>6 DEF AnswerInv
<1>2. ASSUME NEW x \in Exchange, Abandon(x) PROVE AnswerInv'
  <2>1. pc' = [pc EXCEPT ![x] = "gone"]
        /\ UNCHANGED <<req, reply, progress, outcome, executed, nonces>>
    BY <1>2 DEF Abandon, To, serverVars, storeVars, worldVars
  <2>2. pc'[x] = "gone" /\ \A y \in Exchange \ {x} : pc'[y] = pc[y]
    BY <1>0, <2>1
  <2>3. BurnedInv'
    BY <2>1 DEF AnswerInv, BurnedInv, Burned, ReplayKey
  <2>4. SilentInv' /\ RanInv'
    BY <2>1, <2>2 DEF AnswerInv, SilentInv, Silent, Burned, Early, RanInv, Served
  <2> QED
    BY <2>3, <2>4 DEF AnswerInv
<1>3. ASSUME NEW x \in Exchange, InnerExecutes(x) PROVE AnswerInv'
  <2>1. UNCHANGED <<pc, req, reply, progress, outcome, nonces>> /\ executed \subseteq executed'
    BY <1>3 DEF InnerExecutes, serverVars, storeVars
  <2> QED
    BY <2>1 DEF AnswerInv, BurnedInv, Burned, ReplayKey, SilentInv, Silent, RanInv, Served
<1>4. ASSUME UNCHANGED <<pc, req, reply, progress, outcome, executed, nonces>> PROVE AnswerInv'
  BY <1>4 DEF AnswerInv, BurnedInv, Burned, ReplayKey, SilentInv, Silent, RanInv, Served
<1>5. ASSUME NEW x \in Exchange, Rescind(x) PROVE AnswerInv'
  BY <1>4, <1>5 DEF Rescind, serverVars, storeVars, worldVars
<1>6. ASSUME NEW k \in Key, Expire(k) PROVE AnswerInv'
  BY <1>4, <1>6 DEF Expire, serverVars, storeVars, worldVars
<1>7. CASE UNCHANGED vars
  BY <1>4, <1>7 DEF vars, serverVars, storeVars, worldVars
<1> QED
  BY <1>1, <1>2, <1>3, <1>5, <1>6, <1>7, AnswerHandle DEF Next

(* An answered exchange stays as it was answered, and a request as it was read. *)
Frozen ==
  \A x \in Exchange :
    /\ pc[x] = "done" => pc'[x] = "done" /\ reply'[x] = reply[x]
    /\ req[x] # None => req'[x] = req[x]

(* Requests are read when they arrive, and nobody else changes one. *)
ArrivedInv == \A x \in Exchange : pc[x] = "idle" => req[x] = None

(* Every step of the system leaves the answered ones alone. *)
LEMMA StepFrozen ==
  ASSUME Base, ArrivedInv, [Next]_vars
  PROVE  Frozen /\ ArrivedInv'
<1>0. Typed /\ pc \in [Exchange -> Stage] /\ req \in [Exchange -> Request \cup {None}]
      /\ reply \in [Exchange -> Reply \cup {None}]
  BY DEF Base, Typed, TypeOK
<1>1. ASSUME NEW x \in Exchange, Receive(x) PROVE Frozen /\ ArrivedInv'
  <2>1. /\ pc[x] = "idle" /\ pc' = [pc EXCEPT ![x] = "verify"] /\ reply' = reply
        /\ \A y \in Exchange \ {x} : req'[y] = req[y]
    BY <1>0, <1>1 DEF Receive, Was, To
  <2>2. pc'[x] = "verify" /\ \A y \in Exchange \ {x} : pc'[y] = pc[y]
    BY <1>0, <2>1
  <2> QED
    BY <2>1, <2>2 DEF ArrivedInv, Frozen
<1>2. ASSUME NEW x \in Exchange, Handle(x) PROVE Frozen /\ ArrivedInv'
  <2>1. req' = req
    BY <1>0, <1>2, HandleWorld DEF WorldFrame
  <2>2. PICK t \in Stage, q \in Progress :
          pc' = [pc EXCEPT ![x] = t] /\ Forward(pc[x], t) /\ Answering(x, t, q)
    BY <1>0, <1>2, HandleEffect DEF Effect
  <2>3. pc[x] # "done" /\ t # "idle"
    BY <2>2 DEF Forward
  <2>4. \A y \in Exchange \ {x} : pc'[y] = pc[y] /\ reply'[y] = reply[y]
    <3>1. \A y \in Exchange \ {x} : reply'[y] = reply[y]
      BY <1>0, <2>2 DEF Answering
    <3> QED
      BY <1>0, <2>2, <3>1
  <2>5. pc'[x] = t
    BY <1>0, <2>2
  <2> QED
    BY <2>1, <2>3, <2>4, <2>5 DEF ArrivedInv, Frozen
<1>3. ASSUME NEW x \in Exchange, Abandon(x) PROVE Frozen /\ ArrivedInv'
  <2>1. pc[x] # "done" /\ pc' = [pc EXCEPT ![x] = "gone"] /\ UNCHANGED <<req, reply>>
    BY <1>3 DEF Abandon, To
  <2> QED
    BY <1>0, <2>1 DEF ArrivedInv, Frozen
<1>4. ASSUME UNCHANGED <<pc, req, reply>> PROVE Frozen /\ ArrivedInv'
  BY <1>4 DEF ArrivedInv, Frozen
<1>5. ASSUME NEW x \in Exchange, Rescind(x) \/ InnerExecutes(x) PROVE Frozen /\ ArrivedInv'
  BY <1>4, <1>5 DEF Rescind, InnerExecutes
<1>6. ASSUME NEW k \in Key, Expire(k) PROVE Frozen /\ ArrivedInv'
  BY <1>4, <1>6 DEF Expire
<1>7. CASE UNCHANGED vars
  BY <1>4, <1>7 DEF vars
<1> QED
  BY <1>1, <1>2, <1>3, <1>5, <1>6, <1>7 DEF Next

----------------------------------------------------------------------------
(* What the client holds of its transmissions: every exchange is a copy of *)
(* one, by the caller who signed it; a call knows its latest; and one that *)
(* is no longer the latest was told not to have been executed.             *)
SignedInv ==
  /\ tx \in [Nonce -> Transmission \cup {None}]
  /\ call \in [Call -> Nonce \cup {None}]
  /\ told \in [Nonce -> Outcomes \cup {None}]
  /\ \A x \in Exchange :
       req[x] # None => /\ tx[req[x].nonce] # None
                        /\ ActorOf[x] = CallerOf[tx[req[x].nonce].call]
  /\ \A c \in Call : call[c] # None => tx[call[c]] # None /\ tx[call[c]].call = c

SupersededInv ==
  \A n \in Nonce :
    tx[n] # None /\ call[tx[n].call] # n => told[n] # None /\ told[n].execution = "NotExecuted"

(* A disposition whose contract promises that nothing was executed. *)
Promises(x) ==
  Refused(x) /\ reply[x].execution \in
    {"ApprovalSpentNothingExecuted", "NothingExecutedRetentionUnresolved"}

(* What an outcome rests on: an answer given to a copy of the transmission *)
(* or, unbound, to the same bytes.                                         *)
Witnessed(n, o) ==
  /\ o \in Outcomes
  /\ o.kind \in {"Completed", "InputRequired", "AcceptedNotification"} =>
       \E x \in Copies(n) : Served(x)
  /\ o.execution = "NotExecuted" => o.bound /\ \E x \in Copies(n) : Promises(x)
  /\ o.kind = "VerifiedRejection" =>
       IF o.bound THEN \E x \in Copies(n) : Refused(x)
       ELSE /\ o.execution = "Unstated"
            /\ \E m \in Nonce : tx[m] # None /\ tx[m].body = tx[n].body
                                /\ \E x \in Copies(m) : Refused(x)

ToldInv == \A n \in Nonce : told[n] # None => tx[n] # None /\ Witnessed(n, told[n])

ClientIInv == Base /\ AnswerInv /\ ArrivedInv /\ SignedInv /\ SupersededInv /\ ToldInv

(* An answer to a copy is one for ever. *)
LEMMA CopiesKept ==
  ASSUME Base, Frozen, NEW n \in Nonce
  PROVE  /\ \A x \in Copies(n) : x \in Exchange /\ req[x] # None /\ x \in Copies(n)'
         /\ \A x \in Copies(n) : (Served(x) => Served(x)') /\ (Refused(x) => Refused(x)')
                                 /\ (Promises(x) => Promises(x)')
BY DEF Base, Typed, TypeOK, Frozen, Copies, Served, Refused, Promises

(* So what an outcome rests on is kept. *)
LEMMA WitnessKept ==
  ASSUME Base, Frozen, NEW n \in Nonce, tx[n] # None, NEW o, Witnessed(n, o),
         \A m \in Nonce : tx[m] # None => tx'[m] = tx[m]
  PROVE  Witnessed(n, o)'
<1>1. /\ (\E x \in Copies(n) : Served(x)) => (\E x \in Copies(n) : Served(x))'
      /\ (\E x \in Copies(n) : Promises(x)) => (\E x \in Copies(n) : Promises(x))'
  BY CopiesKept
<1>2. \A m \in Nonce : (\E x \in Copies(m) : Refused(x)) => (\E x \in Copies(m) : Refused(x))'
  BY CopiesKept
<1>3. tx'[n] = tx[n]
  OBVIOUS
<1>4. (\E m \in Nonce : tx[m] # None /\ tx[m].body = tx[n].body /\ \E x \in Copies(m) : Refused(x))
        => (\E m \in Nonce : tx[m] # None /\ tx[m].body = tx[n].body /\ \E x \in Copies(m) : Refused(x))'
  BY <1>2, <1>3
<1> QED
  BY <1>1, <1>2, <1>4 DEF Witnessed

(* What the boundary signs is about the exchange it answers; only what is  *)
(* signed for the route's server is believed.                              *)
LEMMA HeardWitnessed ==
  ASSUME ClientIInv, NEW n \in Nonce, NEW r \in Responses
  PROVE  Witnessed(n, ReplyOutcome(r, n)) /\ Witnessed(n, NotificationOutcome(r, n))
<1>0. /\ Typed /\ AnswerInv /\ SignedInv
      /\ req \in [Exchange -> Request \cup {None}] /\ pc \in [Exchange -> Stage]
      /\ progress \in [Exchange -> Progress]
  BY DEF ClientIInv, Base, Typed, TypeOK
<1>g. Witnessed(n, GatewayFailure)
  BY DEF Witnessed, GatewayFailure, Heard, Outcomes
<1>r. \A x \in Exchange : pc[x] = "done" => req[x] \in Request /\ x \in Copies(req[x].nonce)
  BY <1>0, ClientAssumption DEF Typed, Asked, Copies
<1>h. \A b \in BOOLEAN : \A k \in {"Completed", "InputRequired", "AcceptedNotification", "VerifiedRejection"} :
        \A e \in {"Unstated", "NotExecuted", "PossiblyExecuted"} :
          /\ Heard(k, b, e) \in Outcomes
          /\ Heard(k, b, e).kind = k /\ Heard(k, b, e).bound = b /\ Heard(k, b, e).execution = e
  BY DEF Heard, Outcomes
<1>n. n # None /\ \A c : execution(c) \in {"Unstated", "NotExecuted", "PossiblyExecuted"}
  BY ServingAssumption DEF execution
<1>c. \/ /\ r.shape = "reply" /\ r.instance = n /\ r.issuer = "pinned"
         /\ \E k \in {"Completed", "InputRequired"} : ReplyOutcome(r, n) = Heard(k, TRUE, "Unstated")
      \/ /\ r.shape = "refusal" /\ r.instance = n /\ r.issuer = "pinned"
         /\ ReplyOutcome(r, n) = Heard("VerifiedRejection", TRUE, execution(r.contract))
      \/ /\ r.shape = "refusal" /\ r.instance = None /\ r.issuer = "pinned"
         /\ r.received = tx[n].body
         /\ ReplyOutcome(r, n) = Heard("VerifiedRejection", FALSE, execution(r.contract))
      \/ ReplyOutcome(r, n) = GatewayFailure
  BY <1>n DEF ReplyOutcome, BoundVerifies, UnboundVerifies, check_expected_issuer, AboutThisRequest
<1>a. \/ /\ r.shape = "ack" /\ r.instance = n /\ r.issuer = "pinned"
         /\ NotificationOutcome(r, n) = Heard("AcceptedNotification", TRUE, "Unstated")
      \/ NotificationOutcome(r, n) = GatewayFailure
  BY DEF NotificationOutcome, BoundVerifies, check_expected_issuer
<1>1. CASE r \in OthersResponses
  <2>1. r.issuer # "pinned"
    BY <1>1 DEF OthersResponses
  <2> QED
    BY <1>a, <1>c, <1>g, <2>1
<1>2. ASSUME NEW x \in Exchange, Served(x), r = SignedReply(x)
      PROVE  Witnessed(n, ReplyOutcome(r, n)) /\ Witnessed(n, NotificationOutcome(r, n))
  <2>1. r.shape # "refusal" /\ r.instance = req[x].nonce
    BY <1>2 DEF SignedReply
  <2>2. x \in Copies(req[x].nonce)
    BY <1>2, <1>r DEF Served
  <2>3. ASSUME r.instance = n, NEW k \in {"Completed", "InputRequired", "AcceptedNotification"}
        PROVE  Witnessed(n, Heard(k, TRUE, "Unstated"))
    BY <1>2, <1>h, <2>1, <2>2, <2>3 DEF Witnessed
  <2> QED
    BY <1>a, <1>c, <1>g, <2>1, <2>3
<1>3. ASSUME NEW x \in Exchange, Refused(x), r = Receipt(x)
      PROVE  Witnessed(n, ReplyOutcome(r, n)) /\ Witnessed(n, NotificationOutcome(r, n))
  <2>1. /\ r.shape = "refusal"
        /\ r.instance = IF Bound(x) THEN req[x].nonce ELSE None
        /\ r.received = IF Bound(x) THEN None ELSE tx[req[x].nonce].body
        /\ r.contract = retry_semantics(reply[x].cause, reply[x].execution)
    BY <1>3 DEF Receipt
  <2>2. pc[x] = "done" /\ req[x] \in Request /\ req[x].nonce \in Nonce /\ x \in Copies(req[x].nonce)
    BY <1>3, <1>r DEF Refused, Request
  <2>3. execution(r.contract) = "NotExecuted" => Promises(x)
    BY <1>3, <2>1 DEF execution, retry_semantics, Promises
  <2>4. ASSUME r.instance = n
        PROVE  Witnessed(n, Heard("VerifiedRejection", TRUE, execution(r.contract)))
    <3>1. x \in Copies(n)
      BY <1>n, <2>1, <2>2, <2>4
    <3> QED
      BY <1>3, <1>h, <1>n, <2>3, <3>1 DEF Witnessed
  <2>5. ASSUME r.instance = None, r.received = tx[n].body
        PROVE  Witnessed(n, Heard("VerifiedRejection", FALSE, execution(r.contract)))
    <3>1. ~Bound(x)
      BY <2>1, <2>2, <2>5, ServingAssumption
    <3>2. ~Burned(x)
      BY <1>0, <3>1 DEF Bound, Burned, Verified, ReplayAdmitted, Progress, State, Received,
         FailedAfterDispatch
    <3>3. Silent(x)
      BY <1>0, <2>2, <3>2 DEF AnswerInv, SilentInv
    <3>4. execution(r.contract) = "Unstated"
      BY <2>1, <3>3 DEF Silent, retry_semantics, execution
    <3>5. tx[req[x].nonce] # None /\ tx[req[x].nonce].body = tx[n].body
      BY <1>0, <2>1, <2>2, <2>5, <3>1, ClientAssumption DEF SignedInv
    <3>6. \E m \in Nonce : tx[m] # None /\ tx[m].body = tx[n].body
                           /\ \E y \in Copies(m) : Refused(y)
      BY <1>3, <2>2, <3>5
    <3> QED
      BY <1>h, <3>4, <3>6 DEF Witnessed
  <2> QED
    BY <1>a, <1>c, <1>g, <2>1, <2>4, <2>5
<1> QED
  BY <1>1, <1>2, <1>3 DEF Responses, Refusals

----------------------------------------------------------------------------
(* A step of the boundary, or an arrival, is a step of the pipeline. *)
LEMMA BoundarySteps ==
  ASSUME ClientNext
  PROVE  [Next]_vars
BY DEF ClientNext, Send, SendAgain, Hear, Fail, Tell, Transmit, Arrive, BoundaryStep, Next

(* The pipeline's part of the invariant is kept by every step. *)
LEMMA PipelineKept ==
  ASSUME ClientIInv, [Next]_vars
  PROVE  Base' /\ AnswerInv' /\ ArrivedInv' /\ Frozen
BY BaseNext, AnswerNext, StepFrozen DEF ClientIInv

(* While the client does nothing, and every arrival is of a transmission. *)
LEMMA QuietStep ==
  ASSUME ClientIInv, [Next]_vars, UNCHANGED clientVars,
         \A x \in Exchange : req'[x] # None /\ req'[x] # req[x] =>
           /\ tx[req'[x].nonce] # None
           /\ ActorOf[x] = CallerOf[tx[req'[x].nonce].call]
  PROVE  ClientIInv'
<1>1. Base' /\ AnswerInv' /\ ArrivedInv' /\ Frozen
  BY PipelineKept
<1>2. tx' = tx /\ call' = call /\ told' = told
  BY DEF clientVars
<1>3. SignedInv'
  BY <1>2 DEF ClientIInv, SignedInv
<1>4. SupersededInv'
  BY <1>2 DEF ClientIInv, SupersededInv
<1>5. ToldInv'
  <2> SUFFICES ASSUME NEW n \in Nonce, told[n] # None PROVE tx[n] # None /\ Witnessed(n, told[n])'
    BY <1>2 DEF ToldInv, Witnessed, Copies
  <2>1. tx[n] # None /\ Witnessed(n, told[n])
    BY DEF ClientIInv, ToldInv
  <2> DEFINE o == told[n]
  <2>2. o' = o
    BY <1>2
  <2> HIDE DEF o
  <2>3. ASSUME NEW w, w = o PROVE Witnessed(n, w)'
    BY <1>1, <1>2, <2>1, <2>3, WitnessKept DEF ClientIInv, o
  <2> QED
    BY <1>2, <2>1, <2>2, <2>3 DEF o, Witnessed
<1> QED
  BY <1>1, <1>3, <1>4, <1>5 DEF ClientIInv

(* Signing a transmission of a call, its first or one that follows a       *)
(* transmission told not to have been executed.                            *)
LEMMA TransmitStep ==
  ASSUME ClientIInv, NEW c \in Call, NEW n \in Nonce, NEW t \in Transmission, t.call = c,
         Transmit(c, n, t),
         call[c] # None => told[call[c]] # None /\ told[call[c]].execution = "NotExecuted"
  PROVE  ClientIInv'
<1>0. /\ tx \in [Nonce -> Transmission \cup {None}] /\ call \in [Call -> Nonce \cup {None}]
      /\ tx[n] = None /\ tx' = [tx EXCEPT ![n] = t] /\ call' = [call EXCEPT ![c] = n]
      /\ told' = told /\ UNCHANGED vars /\ req' = req
  BY DEF ClientIInv, SignedInv, Transmit, vars
<1>t. t # None /\ n # None
  BY ClientAssumption, ServingAssumption
<1>1. Base' /\ AnswerInv' /\ ArrivedInv' /\ Frozen
  BY <1>0, PipelineKept
<1>2. /\ tx'[n] = t /\ \A m \in Nonce : m # n => tx'[m] = tx[m]
      /\ \A m \in Nonce : tx[m] # None => tx'[m] = tx[m]
      /\ call'[c] = n /\ \A d \in Call : d # c => call'[d] = call[d]
  BY <1>0
<1>3. SignedInv'
  <2>1. \A x \in Exchange : req[x] # None => req[x].nonce \in Nonce
    BY DEF ClientIInv, Base, Typed, TypeOK, Request
  <2>2. \A x \in Exchange :
          req'[x] # None => tx'[req'[x].nonce] # None
                            /\ ActorOf[x] = CallerOf[tx'[req'[x].nonce].call]
    BY <1>0, <1>2, <2>1 DEF ClientIInv, SignedInv
  <2>3. \A d \in Call : call'[d] # None => tx'[call'[d]] # None /\ tx'[call'[d]].call = d
    BY <1>0, <1>2, <1>t DEF ClientIInv, SignedInv
  <2>4. /\ tx' \in [Nonce -> Transmission \cup {None}]
        /\ call' \in [Call -> Nonce \cup {None}]
        /\ told' \in [Nonce -> Outcomes \cup {None}]
    BY <1>0 DEF ClientIInv, SignedInv
  <2> QED
    BY <2>2, <2>3, <2>4 DEF SignedInv
<1>4. SupersededInv'
  <2> SUFFICES ASSUME NEW m \in Nonce, tx'[m] # None, call'[tx'[m].call] # m
               PROVE  told[m] # None /\ told[m].execution = "NotExecuted"
    BY <1>0 DEF SupersededInv
  <2>1. m # n
    BY <1>2
  <2>2. tx[m] # None /\ tx'[m] = tx[m] /\ tx[m] \in Transmission
    BY <1>0, <1>2, <2>1
  <2>3. CASE call[tx[m].call] # m
    BY <2>2, <2>3 DEF ClientIInv, SupersededInv
  <2>4. CASE call[tx[m].call] = m
    <3>1. tx[m].call = c
      BY <1>2, <2>2, <2>4 DEF Transmission
    <3> QED
      BY <2>4, <3>1, ServingAssumption
  <2> QED
    BY <2>3, <2>4
<1>5. ToldInv'
  <2> SUFFICES ASSUME NEW m \in Nonce, told[m] # None
               PROVE  tx'[m] # None /\ (\A w : w = told[m] => Witnessed(m, w)')
    BY <1>0 DEF ToldInv, Witnessed, Copies
  <2>1. tx[m] # None /\ Witnessed(m, told[m])
    BY DEF ClientIInv, ToldInv
  <2>2. ASSUME NEW w, w = told[m] PROVE Witnessed(m, w)'
    BY <1>1, <1>2, <2>1, <2>2, WitnessKept DEF ClientIInv
  <2> QED
    BY <1>2, <2>1, <2>2
<1> QED
  BY <1>1, <1>3, <1>4, <1>5 DEF ClientIInv

(* Telling the application what a response was found to say. *)
LEMMA TellStep ==
  ASSUME ClientIInv, NEW c \in Call, NEW S, Tell(c, S),
         \A o \in S : Witnessed(call[c], o)
  PROVE  ClientIInv'
<1>n. call[c] \in Nonce /\ call[c] # None /\ told[call[c]] = None /\ tx[call[c]] # None
  BY DEF ClientIInv, SignedInv, Tell, Waiting
<1>o. PICK o \in S : told' = [told EXCEPT ![call[c]] = o]
  BY DEF Tell
<1>0. /\ told \in [Nonce -> Outcomes \cup {None}]
      /\ tx' = tx /\ call' = call /\ UNCHANGED vars /\ req' = req /\ o \in Outcomes
  BY <1>o DEF ClientIInv, SignedInv, Tell, vars, Witnessed
<1>1. Base' /\ AnswerInv' /\ ArrivedInv' /\ Frozen
  BY <1>0, PipelineKept
<1>2. told'[call[c]] = o /\ \A m \in Nonce : m # call[c] => told'[m] = told[m]
  BY <1>0, <1>n, <1>o
<1>3. SignedInv'
  BY <1>0, <1>n, <1>o DEF ClientIInv, SignedInv
<1>4. SupersededInv'
  <2> SUFFICES ASSUME NEW m \in Nonce, tx[m] # None, call[tx[m].call] # m
               PROVE  told'[m] # None /\ told'[m].execution = "NotExecuted"
    BY <1>0 DEF SupersededInv
  <2>1. told[m] # None /\ told[m].execution = "NotExecuted"
    BY DEF ClientIInv, SupersededInv
  <2> QED
    BY <1>2, <1>n, <2>1
<1>5. ToldInv'
  <2> SUFFICES ASSUME NEW m \in Nonce, NEW w, w = told'[m], w # None
               PROVE  tx[m] # None /\ Witnessed(m, w)'
    BY <1>0 DEF ToldInv, Witnessed, Copies
  <2>1. tx[m] # None /\ Witnessed(m, w)
    BY <1>2, <1>n DEF ClientIInv, ToldInv
  <2> QED
    BY <1>0, <1>1, <2>1, WitnessKept DEF ClientIInv
<1> QED
  BY <1>1, <1>3, <1>4, <1>5 DEF ClientIInv

----------------------------------------------------------------------------
(* Every step of client, network and boundary keeps the invariant. *)
LEMMA ClientStep == ClientIInv /\ [ClientNext]_<<vars, clientVars>> => ClientIInv'
<1> SUFFICES ASSUME ClientIInv, [ClientNext]_<<vars, clientVars>> PROVE ClientIInv'
  OBVIOUS
<1>n. /\ \A c \in Call : call[c] # None => call[c] \in Nonce /\ tx[call[c]] # None
                                           /\ tx[call[c]] \in Transmission /\ tx[call[c]].call = c
      /\ Typed
  BY DEF ClientIInv, SignedInv, Base
<1>1. ASSUME NEW c \in Call, Send(c) PROVE ClientIInv'
  <2>1. PICK n \in Nonce, b \in Body, kind \in Kind, o \in Elicitations \cup {None} :
          Transmit(c, n, [call |-> c, body |-> b, kind |-> kind, answers |-> o])
    BY <1>1 DEF Send
  <2> DEFINE t == [call |-> c, body |-> b, kind |-> kind, answers |-> o]
  <2>2. t \in Transmission /\ t.call = c
    BY DEF Transmission, Elicitations
  <2> HIDE DEF t
  <2>3. call[c] = None /\ Transmit(c, n, t)
    BY <1>1, <2>1 DEF Send, t
  <2> QED
    BY <2>2, <2>3, TransmitStep
<1>2. ASSUME NEW c \in Call, SendAgain(c) PROVE ClientIInv'
  <2>1. PICK n \in Nonce : Transmit(c, n, tx[call[c]])
    BY <1>2 DEF SendAgain
  <2>2. call[c] # None /\ told[call[c]] # None /\ told[call[c]].execution = "NotExecuted"
    BY <1>2 DEF SendAgain, Waiting
  <2> QED
    BY <1>n, <2>1, <2>2, TransmitStep
<1>3. ASSUME NEW c \in Call, Hear(c) PROVE ClientIInv'
  <2> DEFINE S == {IF tx[call[c]].kind = "notification" THEN NotificationOutcome(r, call[c])
                   ELSE ReplyOutcome(r, call[c]) : r \in Responses}
  <2>1. Tell(c, S)
    BY <1>3 DEF Hear
  <2>2. call[c] \in Nonce
    BY <1>n, <2>1 DEF Tell, Waiting
  <2>3. \A o \in S : Witnessed(call[c], o)
    BY <2>2, HeardWitnessed
  <2> HIDE DEF S
  <2> QED
    BY <2>1, <2>3, TellStep
<1>4. ASSUME NEW c \in Call, Fail(c) PROVE ClientIInv'
  <2>1. Tell(c, {GatewayFailure})
    BY <1>4 DEF Fail
  <2>2. Witnessed(call[c], GatewayFailure)
    BY DEF Witnessed, GatewayFailure, Heard, Outcomes
  <2> QED
    BY <2>1, <2>2, TellStep
<1>5. ASSUME NEW x \in Exchange, Arrive(x) PROVE ClientIInv'
  <2>1. Receive(x) /\ UNCHANGED clientVars
        /\ tx[req'[x].nonce] # None /\ ActorOf[x] = CallerOf[tx[req'[x].nonce].call]
    BY <1>5 DEF Arrive
  <2>2. [Next]_vars
    BY <2>1 DEF Next
  <2>3. \A y \in Exchange \ {x} : req'[y] = req[y]
    BY <1>n, <2>1 DEF Receive, Typed, TypeOK
  <2> QED
    BY <2>1, <2>2, <2>3, QuietStep
<1>6. CASE BoundaryStep
  <2>1. [Next]_vars /\ UNCHANGED clientVars
    BY <1>6 DEF BoundaryStep, Next
  <2>2. req' = req
    BY <1>6, <1>n, HandleWorld DEF BoundaryStep, WorldFrame, Rescind, InnerExecutes, Abandon, Expire
  <2> QED
    BY <2>1, <2>2, QuietStep
<1>7. CASE UNCHANGED <<vars, clientVars>>
  BY <1>7, QuietStep DEF vars
<1> QED
  BY <1>1, <1>2, <1>3, <1>4, <1>5, <1>6, <1>7 DEF ClientNext

(* Nothing is signed, sent or told initially. *)
LEMMA ClientInitIInv == ClientInit => ClientIInv
<1> SUFFICES ASSUME ClientInit PROVE ClientIInv
  OBVIOUS
<1>1. Base
  BY BaseInit DEF ClientInit
<1>2. AnswerInv /\ ArrivedInv
  BY DEF ClientInit, Init, AnswerInv, BurnedInv, Burned, NewProgress, Received, ReplayAdmitted,
     SilentInv, Spent, RanInv, Served, ArrivedInv
<1>3. SignedInv /\ SupersededInv /\ ToldInv
  BY DEF ClientInit, Init, SignedInv, SupersededInv, ToldInv
<1> QED
  BY <1>1, <1>2, <1>3 DEF ClientIInv

(* No copy of a transmission told NotExecuted was or will be executed. *)
LEMMA NeverRuns ==
  ASSUME ClientIInv, NEW n \in Nonce, told[n] # None, told[n].execution = "NotExecuted"
  PROVE  Copies(n) \cap executed = {}
<1> SUFFICES ASSUME NEW y \in Copies(n), y \in executed PROVE FALSE
  OBVIOUS
<1>1. PICK x \in Copies(n) : Promises(x)
  BY DEF ClientIInv, ToldInv, Witnessed
<1>2. x \in Exchange /\ y \in Exchange /\ req[x] # None /\ req[y] # None
      /\ req[x].nonce = n /\ req[y].nonce = n
  BY DEF Copies
<1>3. ReplayKey(x) = ReplayKey(y)
  BY <1>2 DEF ReplayKey, ClientIInv, SignedInv
<1>4. y \in sent
  BY DEF ClientIInv, Base, HonestInv, RunsOnlySent
<1>5. Burned(y)
  BY <1>2, <1>4 DEF ClientIInv, Base, HonestInv, SentIsKnown, Crossed, Burned, Typed, Live,
     Received, CompletedContinuationOpen, ReplayAdmitted, RetentionCommitted
<1>6. Burned(x)
  BY <1>1, <1>2 DEF ClientIInv, AnswerInv, SilentInv, Silent, Promises, Refused
<1>7. x = y
  BY <1>2, <1>3, <1>5, <1>6 DEF ClientIInv, AnswerInv, BurnedInv
<1>8. reply[x].execution = "PossiblyExecuted"
  BY <1>1, <1>2, <1>4, <1>7 DEF ClientIInv, Base, HonestInv, Honest, Promises, Refused, Over
<1> QED
  BY <1>1, <1>8 DEF Promises

(* What the invariant says of what the client was told. *)
LEMMA ClientIInvTruth == ClientIInv => ClientToldTheTruth
<1> SUFFICES ASSUME ClientIInv PROVE ClientToldTheTruth
  OBVIOUS
<1>1. ClientTypeOK
  BY DEF ClientIInv, Base, Typed, SignedInv, ClientTypeOK
<1>2. ToldTheTruth
  <2> SUFFICES ASSUME NEW n \in Nonce, told[n] # None
               PROVE  /\ told[n].kind \in {"Completed", "InputRequired"} => Copies(n) \cap executed # {}
                      /\ told[n].kind = "AcceptedNotification" => Copies(n) \cap sent # {}
                      /\ told[n].execution = "NotExecuted" => told[n].bound /\ Copies(n) \cap executed = {}
                      /\ told[n].kind = "VerifiedRejection" =>
                           IF told[n].bound THEN Refusals(Copies(n)) # {}
                           ELSE /\ told[n].execution = "Unstated"
                                /\ \E m \in Nonce : tx[m] # None /\ tx[m].body = tx[n].body
                                                    /\ Refusals(Copies(m)) # {}
    BY DEF ToldTheTruth
  <2>1. Witnessed(n, told[n])
    BY DEF ClientIInv, ToldInv
  <2>2. \A x \in Copies(n) : Served(x) => x \in executed /\ x \in sent
    BY DEF Copies, ClientIInv, AnswerInv, RanInv, Base, HonestInv, RunsOnlySent
  <2>3. \A m : (\E x \in Copies(m) : Refused(x)) => Refusals(Copies(m)) # {}
    BY DEF Refusals
  <2>4. /\ told[n].kind \in {"Completed", "InputRequired"} => Copies(n) \cap executed # {}
        /\ told[n].kind = "AcceptedNotification" => Copies(n) \cap sent # {}
    BY <2>1, <2>2 DEF Witnessed
  <2>5. told[n].execution = "NotExecuted" => told[n].bound /\ Copies(n) \cap executed = {}
    BY <2>1, NeverRuns DEF Witnessed
  <2>6. told[n].kind = "VerifiedRejection" =>
          IF told[n].bound THEN Refusals(Copies(n)) # {}
          ELSE /\ told[n].execution = "Unstated"
               /\ \E m \in Nonce : tx[m] # None /\ tx[m].body = tx[n].body
                                   /\ Refusals(Copies(m)) # {}
    BY <2>1, <2>3 DEF Witnessed
  <2> QED
    BY <2>4, <2>5, <2>6
<1>3. RunsOnce
  <2> SUFFICES ASSUME NEW c \in Call, NEW x \in executed, NEW y \in executed, CopyOf(c, x), CopyOf(c, y)
               PROVE  x = y
    BY DEF RunsOnce
  <2>1. x \in Exchange /\ y \in Exchange /\ x \in sent /\ y \in sent
    BY DEF ClientIInv, Base, Typed, TypeOK, HonestInv, RunsOnlySent
  <2>2. /\ req[x] # None /\ req[y] # None
        /\ req[x].nonce \in Nonce /\ req[y].nonce \in Nonce
    <3>1. pc[x] # "idle" /\ pc[y] # "idle"
      BY <2>1 DEF ClientIInv, Base, NonceInv, NotYetSent, Early
    <3> QED
      BY <2>1, <3>1, ClientAssumption DEF ClientIInv, Base, Typed, Asked, Request
  <2>3. x \in Copies(req[x].nonce) /\ y \in Copies(req[y].nonce)
    BY <2>1, <2>2 DEF Copies
  <2>4. ASSUME NEW z \in executed, CopyOf(c, z), z \in Copies(req[z].nonce), req[z].nonce \in Nonce
        PROVE  call[c] = req[z].nonce
    <3>1. tx[req[z].nonce] # None /\ tx[req[z].nonce].call = c
      BY <2>4 DEF CopyOf
    <3> QED
      BY <2>4, <3>1, NeverRuns DEF ClientIInv, SupersededInv
  <2>5. req[x].nonce = req[y].nonce
    BY <2>2, <2>3, <2>4
  <2>6. ReplayKey(x) = ReplayKey(y)
    BY <2>1, <2>2, <2>5 DEF ReplayKey, ClientIInv, SignedInv
  <2> QED
    BY <2>1, <2>6 DEF ClientIInv, Base, NonceInv, HeldApart, Holds
<1> QED
  BY <1>1, <1>2, <1>3 DEF ClientToldTheTruth

(* A client is told the truth of each of its transmissions, and an         *)
(* application that repeats a call only after NotExecuted has it run at    *)
(* most once, for every number of callers, calls, transmissions, copies    *)
(* and replicas, with or without either store.                             *)
THEOREM ClientToldTheTruthHolds == ClientSpec => []ClientToldTheTruth
BY ClientInitIInv, ClientStep, ClientIInvTruth, PTL DEF ClientSpec

(* Behind the client the pipeline behaves as its own specification says:   *)
(* what was proved of it holds in every deployment with clients.           *)
THEOREM ClientBoundary == ClientSpec => Spec
<1>1. ClientInit => Init
  BY DEF ClientInit
<1>2. [ClientNext]_<<vars, clientVars>> => [Next]_vars
  BY BoundarySteps
<1> QED
  BY <1>1, <1>2, PTL DEF ClientSpec, Spec
=============================================================================
