-------------------------- MODULE ExchangeMachine --------------------------
(***************************************************************************)
(* One ExchangeProgress driven by ANY caller: every public method of the   *)
(* type, in any order, with any argument.  The type promises that whatever *)
(* a serving path does with it, it never reports less than what it was     *)
(* told: a client must not be told "retry freely" once the backend can     *)
(* have run or an approval was spent.                                      *)
(*                                                                         *)
(* Two history variables remember what the machine was told.               *)
(***************************************************************************)
EXTENDS ExchangeState

VARIABLES
  machine,       \* the ExchangeProgress value
  crossed,        \* an event at or past the execution threshold was reported
  spent,          \* a consumed continuation was observed
  published       \* the successes that were checked and then published

machineVars == <<machine, crossed, spent, published>>

Success == {"Terminal", "OpenLeg", "Acknowledged"}

MachineTypeOK ==
  /\ machine \in Progress
  /\ crossed \in BOOLEAN
  /\ spent \in BOOLEAN
  /\ published \subseteq Success

MachineInit ==
  /\ machine = NewProgress
  /\ crossed = FALSE
  /\ spent = FALSE
  /\ published = {}

----------------------------------------------------------------------------
(* advance / establish with any event, legal or not. *)
DoAdvance(e) ==
  /\ machine' = Advance(machine, e)
  /\ crossed' = (crossed \/ Establishes(e) >= RetentionCommitted)
  /\ UNCHANGED <<spent, published>>

DoObserveContinuation(c) ==
  /\ machine' = ObserveContinuation(machine, c)
  /\ spent' = (spent \/ c = "Consumed")
  /\ UNCHANGED <<crossed, published>>

DoObserveOrigin(o) ==
  /\ machine' = ObserveOrigin(machine, o)
  /\ UNCHANGED <<crossed, spent, published>>

DoObserveOpenLeg(l) ==
  /\ machine' = ObserveOpenLeg(machine, l)
  /\ UNCHANGED <<crossed, spent, published>>

(* may_publish, and publish where it admits; a refused check latches. *)
DoPublish(success) ==
  IF MayPublish(machine, success)
  THEN /\ machine' = Publish(machine, success)
       /\ published' = published \cup {success}
       /\ crossed' = TRUE
       /\ UNCHANGED spent
  ELSE /\ machine' = Latch(machine)
       /\ UNCHANGED <<crossed, spent, published>>

(* establish_terminal: the notification's single-event tail. *)
DoEstablishTerminal ==
  IF MayEstablish(machine, "NotificationAcknowledged")
  THEN /\ machine' = Advance(machine, "NotificationAcknowledged")
       /\ published' = published \cup {"Acknowledged"}
       /\ crossed' = TRUE
       /\ UNCHANGED spent
  ELSE /\ machine' = Latch(machine)
       /\ UNCHANGED <<crossed, spent, published>>

MachineNext ==
  \/ \E e \in Event : DoAdvance(e)
  \/ \E c \in ContinuationState : DoObserveContinuation(c)
  \/ \E o \in ResponseOrigin : DoObserveOrigin(o)
  \/ \E l \in OpenLeg : DoObserveOpenLeg(l)
  \/ \E success \in {"Terminal", "OpenLeg"} : DoPublish(success)
  \/ DoEstablishTerminal

MachineSpec == MachineInit /\ [][MachineNext]_machineVars

----------------------------------------------------------------------------
(* Whatever order the events arrive in, and however many of them are       *)
(* illegal, an exchange told of the crossing reports NotRetrySafe and one  *)
(* told of a spent approval never reports SafeNothingExecuted              *)
(* (ExchangeProgress::advance raises the state even on an illegal step).   *)
NeverUnderstates ==
  /\ crossed => RetrySemanticsOf(machine) = "NotRetrySafe"
  /\ spent   => RetrySemanticsOf(machine) # "SafeNothingExecuted"

(* What a client may do only ever gets worse: no later step takes back a   *)
(* warning an earlier one would have given (retry_semantics over the       *)
(* latching observers).                                                    *)
ConsequenceMonotone ==
  [][RetryRank[RetrySemanticsOf(machine')] >= RetryRank[RetrySemanticsOf(machine)]]_machineVars

(* may_publish decides on a copy, publish runs on the value: what was      *)
(* admitted is what is then reached, so no success is published over       *)
(* synthesized failure bytes or a latched anomaly, and at most one success *)
(* is ever published by one exchange.                                      *)
PublishedCoherently ==
  [][\A s \in published' \ published :
       /\ published = {}
       /\ machine'.anomaly = "None"
       /\ machine'.origin # "DispatchIndeterminate"
       /\ s = "OpenLeg"  => machine'.openLeg = "Recorded"
       /\ s = "Terminal" => machine'.openLeg = "NotApplicable"]_machineVars
=============================================================================
