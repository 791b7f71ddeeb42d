------------------------------ MODULE InnerPool -----------------------------
(***************************************************************************)
(* HttpInnerPool: the backends of the inner plane behind their circuit     *)
(* breakers, whose state is per-backend atomics that every handler reads   *)
(* and writes without a lock.  A step is one atomic operation, or the      *)
(* backend's.  The synchronous parts, select_backend and record_outcome,   *)
(* take no time on the breaker's clock; what they do interleaves.          *)
(***************************************************************************)
EXTENDS Naturals, FiniteSets

CONSTANTS
  Backends,              \* how many there are: their indices are 0 .. Backends - 1
  Handlers,              \* the handlers that may dispatch at once
  max_in_flight, failure_threshold, ejection_duration, request_timeout,
  MaxFaults              \* bound: backends going down and clients leaving

ASSUME PoolAssumption ==
  /\ Backends \in Nat \ {0} /\ IsFiniteSet(Handlers) /\ max_in_flight \in Nat \ {0}
  /\ failure_threshold \in Nat \ {0} /\ ejection_duration \in Nat
  /\ request_timeout \in Nat /\ MaxFaults \in Nat

VARIABLES
  state,                 \* backend -> the breaker: Closed, Open or HalfOpen
  consecutive_failures,  \* backend -> failures since the last success, up to the threshold
  reopen_in,             \* backend -> what is left until reopen_at_nanos
  probe_inflight,        \* the backends whose trial slot is taken
  next,                  \* the round-robin cursor
  permits,               \* what in_flight has left
  up,                    \* backend -> does it answer, and in time
  faults,
  task                   \* handler -> where its dispatch stands

poolVars == <<state, consecutive_failures, reopen_in, probe_inflight, next, permits, up, faults, task>>
breaker == <<state, consecutive_failures, reopen_in, probe_inflight>>

Backend == 0 .. Backends - 1

Idle == [pc |-> "idle", start |-> 0, k |-> 0, b |-> 0, is_probe |-> FALSE, age |-> 0]

Selecting == {"closed", "trial", "claim_open", "own", "claim_trial"}
Recording == {"ok", "ok_closed", "ok_flag", "bad", "bad_flag", "trip", "drop"}
Running   == {"head", "body"}
Still     == {"idle", "refused", "prepared"}

PoolTypeOK ==
  /\ state \in [Backend -> {"Closed", "Open", "HalfOpen"}]
  /\ consecutive_failures \in [Backend -> 0 .. failure_threshold]
  /\ reopen_in \in [Backend -> 0 .. ejection_duration]
  /\ probe_inflight \subseteq Backend
  /\ next \in Backend /\ permits \in 0 .. max_in_flight
  /\ up \in [Backend -> BOOLEAN] /\ faults \in 0 .. MaxFaults
  /\ task \in [Handlers -> [pc : Still \cup Selecting \cup Recording \cup Running,
                            start : Backend, k : Backend, b : Backend, is_probe : BOOLEAN,
                            age : 0 .. request_timeout + 1]]

PoolInit ==
  /\ state = [b \in Backend |-> "Closed"]
  /\ consecutive_failures = [b \in Backend |-> 0]
  /\ reopen_in = [b \in Backend |-> 0]
  /\ probe_inflight = {}
  /\ next = 0 /\ permits = max_in_flight
  /\ up = [b \in Backend |-> TRUE] /\ faults = 0
  /\ task = [d \in Handlers |-> Idle]

-----------------------------------------------------------------------------
At(d, pc) == task[d].pc = pc
Goto(d, pc) == task' = [task EXCEPT ![d].pc = pc]

(* The backend the scan of d has come to.                                  *)
Scanned(d) == (task[d].start + task[d].k) % Backends

(* prepare: without a permit the request is refused at once, which leaves  *)
(* everything as it is.  The scan starts where the cursor was.             *)
Prepare(d) ==
  /\ At(d, "idle") /\ permits > 0
  /\ permits' = permits - 1
  /\ next' = (next + 1) % Backends
  /\ task' = [task EXCEPT ![d] = [Idle EXCEPT !.pc = "closed", !.start = next]]
  /\ UNCHANGED <<breaker, up, faults>>

(* Mutant of Onward: the refusal forgets the permit it holds.              *)
OnwardLeaking(d, pass) ==
  /\ task' = IF task[d].k + 1 < Backends
             THEN [task EXCEPT ![d].k = @ + 1, ![d].pc = pass]
             ELSE IF pass = "closed" THEN [task EXCEPT ![d].k = 0, ![d].pc = "trial"]
                                     ELSE [task EXCEPT ![d] = [Idle EXCEPT !.pc = "refused"]]
  /\ UNCHANGED permits

(* The scan goes on; after the first pass to the second, after the second  *)
(* to a refusal, which gives the permit back.  All it has changed is the   *)
(* cursor, so that one refusal of a handler stands for all of them until   *)
(* time has passed.                                                        *)
Onward(d, pass) ==
  IF task[d].k + 1 < Backends
  THEN task' = [task EXCEPT ![d].k = @ + 1, ![d].pc = pass] /\ UNCHANGED permits
  ELSE IF pass = "closed"
       THEN task' = [task EXCEPT ![d].k = 0, ![d].pc = "trial"] /\ UNCHANGED permits
       ELSE task' = [task EXCEPT ![d] = [Idle EXCEPT !.pc = "refused"]] /\ permits' = permits + 1

Chosen(d, is_probe) ==
  task' = [task EXCEPT ![d] = [Idle EXCEPT !.pc = "prepared", !.b = Scanned(d), !.is_probe = is_probe]]

(* Pass 1: any Closed backend.                                             *)
SeekClosed(d) ==
  /\ At(d, "closed")
  /\ IF state[Scanned(d)] = "Closed" THEN Chosen(d, FALSE) /\ UNCHANGED permits
                                     ELSE Onward(d, "closed")
  /\ UNCHANGED <<breaker, next, up, faults>>

(* Pass 2: an Open backend past its cooldown, or a trial nobody runs.      *)
(* reopen_at is stored before the state, so that the two loads of an Open  *)
(* backend tell what one would.                                            *)
SeekTrial(d) ==
  /\ At(d, "trial")
  /\ LET b == Scanned(d)
     IN  CASE state[b] = "Open" /\ reopen_in[b] = 0 -> Goto(d, "claim_open") /\ UNCHANGED permits
           [] state[b] = "HalfOpen" -> Goto(d, "claim_trial") /\ UNCHANGED permits
           [] OTHER -> Onward(d, "trial")
  /\ UNCHANGED <<breaker, next, up, faults>>

ClaimOpen(d) ==
  /\ At(d, "claim_open")
  /\ IF state[Scanned(d)] = "Open"
     THEN /\ state' = [state EXCEPT ![Scanned(d)] = "HalfOpen"]
          /\ Goto(d, "own") /\ UNCHANGED permits
     ELSE Onward(d, "trial") /\ UNCHANGED state
  /\ UNCHANGED <<consecutive_failures, reopen_in, probe_inflight, next, up, faults>>

(* The winner of the exchange takes the slot in a second operation.        *)
OwnTrial(d) ==
  /\ At(d, "own")
  /\ probe_inflight' = probe_inflight \cup {Scanned(d)}
  /\ Chosen(d, TRUE)
  /\ UNCHANGED <<state, consecutive_failures, reopen_in, next, permits, up, faults>>

ClaimTrial(d) ==
  /\ At(d, "claim_trial")
  /\ IF Scanned(d) \notin probe_inflight
     THEN /\ probe_inflight' = probe_inflight \cup {Scanned(d)}
          /\ Chosen(d, TRUE) /\ UNCHANGED permits
     ELSE Onward(d, "trial") /\ UNCHANGED probe_inflight
  /\ UNCHANGED <<state, consecutive_failures, reopen_in, next, up, faults>>

-----------------------------------------------------------------------------
(* dispatch: the request is sent, and request_timeout runs.                *)
Transmit(d) ==
  /\ At(d, "prepared") /\ Goto(d, "head")
  /\ UNCHANGED <<breaker, next, permits, up, faults>>

(* The timeout covers client.request, which ends with the response's head. *)
TimesOut(d) ==
  /\ At(d, "head") /\ task[d].age >= request_timeout /\ ~up[task[d].b]
  /\ Goto(d, "bad")
  /\ UNCHANGED <<breaker, next, permits, up, faults>>

(* A transport error, a status or a type that will not do; or a good head, *)
(* after which the body is read.                                           *)
HeadArrives(d) ==
  /\ At(d, "head")
  /\ \/ ~up[task[d].b] /\ Goto(d, "bad")
     \/ Goto(d, "body")
  /\ UNCHANGED <<breaker, next, permits, up, faults>>

(* The body ends, or breaks off, or is over the cap.                       *)
BodyEnds(d) ==
  /\ At(d, "body")
  /\ \/ up[task[d].b] /\ Goto(d, "ok")
     \/ ~up[task[d].b] /\ Goto(d, "bad")
  /\ UNCHANGED <<breaker, next, permits, up, faults>>

(* A refusal of the pipeline drops the prepared dispatch, a client that    *)
(* goes the running one.                                                   *)
Abandon(d) ==
  /\ task[d].pc \in Running \cup {"prepared"} /\ faults < MaxFaults
  /\ faults' = faults + 1
  /\ Goto(d, "drop")
  /\ UNCHANGED <<breaker, next, permits, up>>

-----------------------------------------------------------------------------
(* record_outcome, of a success: three stores.                             *)
RecordSuccess(d) ==
  /\ \/ /\ At(d, "ok") /\ Goto(d, "ok_closed")
        /\ consecutive_failures' = [consecutive_failures EXCEPT ![task[d].b] = 0]
        /\ UNCHANGED <<state, probe_inflight>>
     \/ /\ At(d, "ok_closed") /\ Goto(d, "ok_flag")
        /\ state' = [state EXCEPT ![task[d].b] = "Closed"]
        /\ UNCHANGED <<consecutive_failures, probe_inflight>>
     \/ /\ At(d, "ok_flag") /\ Goto(d, "drop")
        /\ probe_inflight' = probe_inflight \ {task[d].b}
        /\ UNCHANGED <<consecutive_failures, state>>
  /\ UNCHANGED <<reopen_in, next, permits, up, faults>>

(* The backend of d is ejected for a whole cooldown.                       *)
Eject(d) ==
  /\ reopen_in' = [reopen_in EXCEPT ![task[d].b] = ejection_duration]
  /\ state' = [state EXCEPT ![task[d].b] = "Open"]

(* Of a trial that failed.                                                 *)
RecordFailedTrial(d) ==
  /\ task[d].is_probe
  /\ \/ /\ At(d, "bad") /\ Eject(d) /\ Goto(d, "bad_flag")
        /\ UNCHANGED probe_inflight
     \/ /\ At(d, "bad_flag") /\ Goto(d, "drop")
        /\ probe_inflight' = probe_inflight \ {task[d].b}
        /\ UNCHANGED <<state, reopen_in>>
  /\ UNCHANGED <<consecutive_failures, next, permits, up, faults>>

(* Of another dispatch: it counts, and the one that reaches the threshold  *)
(* ejects.                                                                 *)
RecordFailure(d) ==
  /\ ~task[d].is_probe
  /\ \/ /\ At(d, "bad")
        /\ LET fails == consecutive_failures[task[d].b] + 1
               enough == fails >= failure_threshold
           IN  /\ consecutive_failures' =
                    [consecutive_failures EXCEPT ![task[d].b] = IF enough THEN failure_threshold ELSE fails]
               /\ Goto(d, IF enough THEN "trip" ELSE "drop")
        /\ UNCHANGED <<state, reopen_in>>
     \/ /\ At(d, "trip") /\ Eject(d) /\ Goto(d, "drop")
        /\ UNCHANGED consecutive_failures
  /\ UNCHANGED <<probe_inflight, next, permits, up, faults>>

(* Mutant of Drop: without ProbeGuard, only an outcome frees the slot.     *)
DropUnguarded(d) ==
  /\ At(d, "drop")
  /\ permits' = permits + 1
  /\ task' = [task EXCEPT ![d] = Idle]
  /\ UNCHANGED <<state, consecutive_failures, reopen_in, probe_inflight, next, up, faults>>

(* However a dispatch ends, its guards go: ProbeGuard frees the trial slot *)
(* and the permit returns.                                                 *)
Drop(d) ==
  /\ At(d, "drop")
  /\ probe_inflight' = IF task[d].is_probe THEN probe_inflight \ {task[d].b} ELSE probe_inflight
  /\ permits' = permits + 1
  /\ task' = [task EXCEPT ![d] = Idle]
  /\ UNCHANGED <<state, consecutive_failures, reopen_in, next, up, faults>>

-----------------------------------------------------------------------------
BackendFails(b) ==
  /\ up[b] /\ faults < MaxFaults
  /\ up' = [up EXCEPT ![b] = FALSE] /\ faults' = faults + 1
  /\ UNCHANGED <<breaker, next, permits, task>>

BackendRecovers(b) ==
  /\ ~up[b] /\ up' = [up EXCEPT ![b] = TRUE]
  /\ UNCHANGED <<breaker, next, permits, faults, task>>

(* Time passes while no handler is inside a synchronous part, and no       *)
(* timeout is overdue.                                                     *)
Tick ==
  /\ \A d \in Handlers : task[d].pc \in Still \cup Running
  /\ \A d \in Handlers : At(d, "head") => task[d].age < request_timeout
  /\ reopen_in' = [b \in Backend |-> IF reopen_in[b] = 0 THEN 0 ELSE reopen_in[b] - 1]
  /\ task' = [d \in Handlers |->
                CASE At(d, "refused") -> Idle
                  [] task[d].pc \in Running /\ task[d].age <= request_timeout ->
                       [task[d] EXCEPT !.age = @ + 1]
                  [] OTHER -> task[d]]
  /\ UNCHANGED <<state, consecutive_failures, probe_inflight, next, permits, up, faults>>

Select(d) ==
  Prepare(d) \/ SeekClosed(d) \/ SeekTrial(d) \/ ClaimOpen(d) \/ OwnTrial(d) \/ ClaimTrial(d)

RoundTrip(d) == Transmit(d) \/ TimesOut(d) \/ HeadArrives(d) \/ BodyEnds(d)

RecordOutcome(d) == RecordSuccess(d) \/ RecordFailedTrial(d) \/ RecordFailure(d) \/ Drop(d)

Handler(d) == Select(d) \/ RoundTrip(d) \/ RecordOutcome(d)

PoolNext ==
  \/ \E d \in Handlers : Handler(d) \/ Abandon(d)
  \/ \E b \in Backend : BackendFails(b) \/ BackendRecovers(b)
  \/ Tick

(* The runtime polls every handler, requests keep coming, a backend that   *)
(* is up ends what it began, and time passes.                              *)
Fairness ==
  /\ \A d \in Handlers : WF_poolVars(Handler(d))
  /\ \A b \in Backend : WF_poolVars(BackendRecovers(b))
  /\ WF_poolVars(Tick)

PoolSpec == PoolInit /\ [][PoolNext]_poolVars /\ Fairness

-----------------------------------------------------------------------------
Holds(d) == task[d].pc \notin {"idle", "refused"}

(* What a dispatch took comes back however it ends: the permits count the  *)
(* dispatches there are, and a trial slot is taken only while a trial of   *)
(* that backend is under way, so that no backend waits for a trial nobody  *)
(* runs (ProbeGuard, whoever clears the flag in between).                  *)
SlotsReturn ==
  /\ permits + Cardinality({d \in Handlers : Holds(d)}) = max_in_flight
  /\ \A b \in probe_inflight :
       \E d \in Handlers : Holds(d) /\ task[d].is_probe /\ task[d].b = b

(* A pool whose backends answer again serves again: in the end some        *)
(* backend takes ordinary traffic, and stays so.                           *)
PoolComesBack == <>[](\E b \in Backend : state[b] = "Closed")

(* A dispatch begun is no longer running once request_timeout has passed   *)
(* (prepare: "which is what makes this a bound and not an estimate").      *)
CompletionBoundHolds ==
  \A d \in Handlers : task[d].pc \in Running => task[d].age <= request_timeout
=============================================================================
