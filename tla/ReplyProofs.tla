---------------------------- MODULE ReplyProofs -----------------------------
(***************************************************************************)
(* What a reply rests on.  Permits and trial slots of the inner pool come  *)
(* back, for any number of backends and handlers, any limit, threshold,    *)
(* cooldown and timeout; and what the evidence directory says after a      *)
(* crash is the truth, for any number of exchanges, permits and jobs to a  *)
(* batch, whatever fails and whenever a future is dropped, the writer dies *)
(* or the power goes.                                                      *)
(***************************************************************************)
EXTENDS InnerPool, RetentionStore, FiniteSetTheorems, WellFoundedInduction, TLAPS

(* The inner pool. *)
PCs == Still \cup Selecting \cup Recording \cup Running
Tasks == [pc : PCs, start : Backend, k : Backend, b : Backend, is_probe : BOOLEAN,
          age : 0 .. request_timeout + 1]

(* The types, but for the bound on the permits: that rests on the count.   *)
Typed ==
  /\ state \in [Backend -> {"Closed", "Open", "HalfOpen"}]
  /\ consecutive_failures \in [Backend -> 0 .. failure_threshold]
  /\ reopen_in \in [Backend -> 0 .. ejection_duration]
  /\ probe_inflight \subseteq Backend
  /\ next \in Backend /\ permits \in Nat
  /\ up \in [Backend -> BOOLEAN] /\ faults \in 0 .. MaxFaults
  /\ task \in [Handlers -> Tasks]

(* A handler that still looks for a backend runs no trial, so that its     *)
(* refusal frees none.                                                     *)
SeekersHoldNoTrial == \A d \in Handlers : task[d].pc \in Selecting => ~task[d].is_probe

Held == {d \in Handlers : Holds(d)}

Counted == permits + Cardinality(Held) = max_in_flight

TrialsRun ==
  \A b \in probe_inflight : \E d \in Handlers : Holds(d) /\ task[d].is_probe /\ task[d].b = b

PoolInv == Typed /\ SeekersHoldNoTrial /\ Counted /\ TrialsRun

-----------------------------------------------------------------------------
(* The indices of the backends: the scan and the cursor stay among them.   *)
LEMMA Indices ==
  /\ 0 \in Backend
  /\ \A n \in Nat : n % Backends \in Backend
  /\ Backend \subseteq Nat
BY PoolAssumption DEF PoolAssumption, Backend

(* The handlers that hold a permit are finitely many.                      *)
LEMMA HeldFinite == IsFiniteSet(Held) /\ Cardinality(Held) \in Nat
BY PoolAssumption, FS_Subset, FS_CardinalityType DEF PoolAssumption, Held

-----------------------------------------------------------------------------
(* A task as prepare makes it, and one that has nothing.                   *)
LEMMA IdleTyped == Idle \in Tasks
BY PoolAssumption, Indices DEF PoolAssumption, Idle, Tasks, PCs, Still

(* What the scan of d has come to is a backend.                            *)
LEMMA ScannedTyped == ASSUME Typed, NEW d \in Handlers PROVE Scanned(d) \in Backend
<1>1. task[d].start \in Nat /\ task[d].k \in Nat
  BY Indices DEF Typed, Tasks
<1> QED
  BY <1>1, Indices DEF Scanned

(* The pool starts whole.                                                  *)
LEMMA InitHolds == PoolInit => PoolInv
<1> SUFFICES ASSUME PoolInit PROVE PoolInv
  OBVIOUS
<1>1. Typed
  BY PoolAssumption, Indices, IdleTyped DEF PoolAssumption, PoolInit, Typed
<1>2. SeekersHoldNoTrial /\ TrialsRun
  BY DEF PoolInit, Idle, SeekersHoldNoTrial, TrialsRun
<1>3. Held = {}
  BY DEF PoolInit, Held, Holds, Idle
<1>4. Counted
  BY <1>3, FS_EmptySet, PoolAssumption DEF PoolAssumption, PoolInit, Counted
<1> QED
  BY <1>1, <1>2, <1>4 DEF PoolInv

-----------------------------------------------------------------------------
(* A step that leaves the holders and the permits alone keeps the count.   *)
LEMMA CountKept ==
  ASSUME Counted, Held' = Held, permits' = permits PROVE Counted'
BY DEF Counted

(* A handler that takes a permit joins the holders.                        *)
LEMMA CountTaken ==
  ASSUME Counted, permits \in Nat, NEW d, d \notin Held, Held' = Held \cup {d}, permits' = permits - 1
  PROVE  Counted'
<1>1. Cardinality(Held') = Cardinality(Held) + 1
  BY HeldFinite, FS_AddElement
<1> QED
  BY <1>1, HeldFinite DEF Counted

(* A handler that leaves them gives a permit back.                         *)
LEMMA CountReturned ==
  ASSUME Counted, permits \in Nat, NEW d, d \in Held, Held' = Held \ {d}, permits' = permits + 1
  PROVE  Counted'
<1>1. Cardinality(Held') = Cardinality(Held) - 1
  BY HeldFinite, FS_RemoveElement
<1> QED
  BY <1>1, HeldFinite DEF Counted

-----------------------------------------------------------------------------
(* The pieces the actions are made of keep the tasks typed.                *)
LEMMA GotoTyped ==
  ASSUME Typed, NEW d \in Handlers, NEW pc \in PCs, Goto(d, pc) PROVE task' \in [Handlers -> Tasks]
BY DEF Typed, Tasks, Goto

LEMMA OnwardTyped ==
  ASSUME Typed, NEW d \in Handlers, NEW pass \in {"closed", "trial"}, Onward(d, pass)
  PROVE  task' \in [Handlers -> Tasks] /\ permits' \in Nat
<1>1. CASE task[d].k + 1 < Backends
  <2>1. task[d].k + 1 \in Backend
    <3>1. task[d].k \in Backend
      BY DEF Typed, Tasks
    <3> QED
      BY <1>1, <3>1, PoolAssumption DEF PoolAssumption, Backend
  <2> QED
    BY <1>1, <2>1 DEF Onward, Typed, Tasks, PCs, Selecting
<1>2. CASE ~(task[d].k + 1 < Backends) /\ pass = "closed"
  <2>1. 0 \in Backend /\ "trial" \in PCs
    BY Indices DEF PCs, Selecting
  <2> QED
    BY <1>2, <2>1 DEF Onward, Typed, Tasks
<1>3. CASE ~(task[d].k + 1 < Backends) /\ pass # "closed"
  <2>1. [Idle EXCEPT !.pc = "refused"] \in Tasks
    BY IdleTyped DEF Tasks, PCs, Still
  <2> QED
    BY <1>3, <2>1 DEF Onward, Typed
<1> QED
  BY <1>1, <1>2, <1>3

LEMMA ChosenTyped ==
  ASSUME Typed, NEW d \in Handlers, NEW is_probe \in BOOLEAN, Chosen(d, is_probe)
  PROVE  task' \in [Handlers -> Tasks]
<1>1. [Idle EXCEPT !.pc = "prepared", !.b = Scanned(d), !.is_probe = is_probe] \in Tasks
  BY IdleTyped, ScannedTyped DEF Tasks, PCs, Still
<1> QED
  BY <1>1 DEF Chosen, Typed

(* Every step keeps the types.                                             *)
LEMMA TypedStep == Typed /\ [PoolNext]_poolVars => Typed'
<1> SUFFICES ASSUME Typed, [PoolNext]_poolVars PROVE Typed'
  OBVIOUS
<1>pc. \A q \in {"closed", "trial", "claim_open", "own", "claim_trial", "ok", "ok_closed", "ok_flag",
                "bad", "bad_flag", "trip", "drop", "head", "body"} : q \in PCs
  BY DEF PCs, Selecting, Recording, Running
<1>1. ASSUME NEW d \in Handlers, Prepare(d) PROVE Typed'
  <2>1. [Idle EXCEPT !.pc = "closed", !.start = next] \in Tasks
    BY IdleTyped, <1>pc DEF Tasks, Typed
  <2>2. next + 1 \in Nat /\ (next + 1) % Backends \in Backend
    BY Indices DEF Typed
  <2>3. permits - 1 \in Nat
    BY <1>1 DEF Prepare, Typed
  <2> QED
    BY <1>1, <2>1, <2>2, <2>3 DEF Prepare, Typed, breaker
<1>2. ASSUME NEW d \in Handlers, SeekClosed(d) PROVE Typed'
  <2>1. task' \in [Handlers -> Tasks] /\ permits' \in Nat
    BY <1>2, OnwardTyped, ChosenTyped DEF SeekClosed, Typed
  <2> QED
    BY <1>2, <2>1 DEF SeekClosed, Typed, breaker
<1>3. ASSUME NEW d \in Handlers, SeekTrial(d) PROVE Typed'
  <2>1. task' \in [Handlers -> Tasks] /\ permits' \in Nat
    BY <1>3, OnwardTyped, GotoTyped, <1>pc DEF SeekTrial, Typed
  <2> QED
    BY <1>3, <2>1 DEF SeekTrial, Typed, breaker
<1>4. ASSUME NEW d \in Handlers, ClaimOpen(d) PROVE Typed'
  <2>1. task' \in [Handlers -> Tasks] /\ permits' \in Nat
    BY <1>4, OnwardTyped, GotoTyped, <1>pc DEF ClaimOpen, Typed
  <2> QED
    BY <1>4, <2>1 DEF ClaimOpen, Typed
<1>5. ASSUME NEW d \in Handlers, OwnTrial(d) \/ ClaimTrial(d) PROVE Typed'
  <2>1. task' \in [Handlers -> Tasks] /\ permits' \in Nat
    BY <1>5, OnwardTyped, ChosenTyped DEF OwnTrial, ClaimTrial, Typed
  <2>2. Scanned(d) \in Backend /\ probe_inflight' \subseteq probe_inflight \cup {Scanned(d)}
    BY <1>5, ScannedTyped DEF OwnTrial, ClaimTrial
  <2> QED
    BY <1>5, <2>1, <2>2 DEF OwnTrial, ClaimTrial, Typed
<1>6. ASSUME NEW d \in Handlers, RoundTrip(d) PROVE Typed'
  <2>1. task' \in [Handlers -> Tasks]
    BY <1>6, GotoTyped, <1>pc DEF RoundTrip, Transmit, TimesOut, HeadArrives, BodyEnds
  <2> QED
    BY <1>6, <2>1 DEF RoundTrip, Transmit, TimesOut, HeadArrives, BodyEnds, Typed, breaker
<1>7. ASSUME NEW d \in Handlers, Abandon(d) PROVE Typed'
  <2>1. task' \in [Handlers -> Tasks]
    BY <1>7, GotoTyped, <1>pc DEF Abandon
  <2>2. faults' \in 0 .. MaxFaults
    BY <1>7, PoolAssumption DEF PoolAssumption, Abandon, Typed
  <2> QED
    BY <1>7, <2>1, <2>2 DEF Abandon, Typed, breaker
<1>8. ASSUME NEW d \in Handlers, RecordSuccess(d) \/ RecordFailedTrial(d) PROVE Typed'
  <2>1. task' \in [Handlers -> Tasks]
    BY <1>8, GotoTyped, <1>pc DEF RecordSuccess, RecordFailedTrial
  <2> QED
    BY <1>8, <2>1, PoolAssumption
    DEF PoolAssumption, RecordSuccess, RecordFailedTrial, Eject, Typed
<1>9. ASSUME NEW d \in Handlers, RecordFailure(d) PROVE Typed'
  <2>1. task' \in [Handlers -> Tasks]
    BY <1>9, GotoTyped, <1>pc DEF RecordFailure
  <2>2. consecutive_failures' \in [Backend -> 0 .. failure_threshold]
    BY <1>9, PoolAssumption DEF PoolAssumption, RecordFailure, Typed
  <2> QED
    BY <1>9, <2>1, <2>2, PoolAssumption DEF PoolAssumption, RecordFailure, Eject, Typed
<1>10. ASSUME NEW d \in Handlers, Drop(d) PROVE Typed'
  BY <1>10, IdleTyped DEF Drop, Typed
<1>11. ASSUME NEW b \in Backend, BackendFails(b) \/ BackendRecovers(b) PROVE Typed'
  <2>1. up' \in [Backend -> BOOLEAN]
    BY <1>11 DEF BackendFails, BackendRecovers, Typed
  <2>2. faults' \in 0 .. MaxFaults
    BY <1>11, PoolAssumption DEF PoolAssumption, BackendFails, BackendRecovers, Typed
  <2> QED
    BY <1>11, <2>1, <2>2 DEF BackendFails, BackendRecovers, Typed, breaker
<1>12. CASE Tick
  <2>1. reopen_in' \in [Backend -> 0 .. ejection_duration]
    <3>1. ASSUME NEW b \in Backend
          PROVE  (IF reopen_in[b] = 0 THEN 0 ELSE reopen_in[b] - 1) \in 0 .. ejection_duration
      BY PoolAssumption DEF PoolAssumption, Typed
    <3> QED
      BY <1>12, <3>1 DEF Tick
  <2>2. ASSUME NEW d \in Handlers, task[d].age <= request_timeout
        PROVE  [task[d] EXCEPT !.age = @ + 1] \in Tasks
    BY <2>2, PoolAssumption DEF PoolAssumption, Typed, Tasks
  <2>3. task' \in [Handlers -> Tasks]
    BY <1>12, <2>2, IdleTyped DEF Tick, Typed
  <2> QED
    BY <1>12, <2>1, <2>3 DEF Tick, Typed
<1>13. CASE UNCHANGED poolVars
  BY <1>13 DEF poolVars, Typed
<1> QED
  BY <1>1, <1>2, <1>3, <1>4, <1>5, <1>6, <1>7, <1>8, <1>9, <1>10, <1>11, <1>12, <1>13
  DEF PoolNext, Handler, Select, RecordOutcome

-----------------------------------------------------------------------------
(* What a step of one handler may do to what it holds.                     *)
Moves(d) == \A e \in Handlers \ {d} : task'[e] = task[e]

(* It goes on with what it has: as it was, or with a trial slot more.      *)
KeepsIt(d) ==
  /\ Moves(d) /\ Holds(d) /\ Holds(d)' /\ permits' = permits
  /\ \/ /\ task'[d].is_probe = task[d].is_probe /\ task'[d].b = task[d].b
        /\ probe_inflight' \subseteq probe_inflight
     \/ /\ ~task[d].is_probe /\ probe_inflight' \subseteq probe_inflight
     \/ /\ ~task[d].is_probe /\ task'[d].is_probe
        /\ probe_inflight' = probe_inflight \cup {task'[d].b}

(* It returns all it has, the slot of its trial included.                  *)
ReturnsIt(d) ==
  /\ Moves(d) /\ Holds(d) /\ ~Holds(d)' /\ permits' = permits + 1
  /\ probe_inflight' \subseteq probe_inflight
  /\ task[d].is_probe => task[d].b \notin probe_inflight'

(* Going on keeps the count and the trials.                                *)
LEMMA SlotKept == ASSUME Counted, TrialsRun, NEW d \in Handlers, KeepsIt(d) PROVE Counted' /\ TrialsRun'
<1>1. Held' = Held
  BY DEF KeepsIt, Moves, Held, Holds
<1>2. TrialsRun'
  <2> SUFFICES ASSUME NEW b \in probe_inflight'
               PROVE  \E e \in Handlers : Holds(e)' /\ task'[e].is_probe /\ task'[e].b = b
    BY DEF TrialsRun, Holds
  <2>1. CASE b \in probe_inflight
    <3>1. PICK e \in Handlers : Holds(e) /\ task[e].is_probe /\ task[e].b = b
      BY <2>1 DEF TrialsRun
    <3>2. CASE e # d
      BY <3>1, <3>2 DEF KeepsIt, Moves, Holds
    <3>3. CASE e = d
      BY <3>1, <3>3 DEF KeepsIt
    <3> QED
      BY <3>2, <3>3
  <2>2. CASE b \notin probe_inflight
    BY <2>2 DEF KeepsIt
  <2> QED
    BY <2>1, <2>2
<1> QED
  BY <1>1, <1>2, CountKept DEF KeepsIt

(* So does returning: the only trial that ends is the one whose slot goes. *)
LEMMA Returned ==
  ASSUME Counted, TrialsRun, permits \in Nat, NEW d \in Handlers, ReturnsIt(d)
  PROVE  Counted' /\ TrialsRun'
<1>1. d \in Held /\ Held' = Held \ {d}
  BY DEF ReturnsIt, Moves, Held, Holds
<1>2. TrialsRun'
  <2> SUFFICES ASSUME NEW b \in probe_inflight'
               PROVE  \E e \in Handlers : Holds(e)' /\ task'[e].is_probe /\ task'[e].b = b
    BY DEF TrialsRun, Holds
  <2>1. PICK e \in Handlers : Holds(e) /\ task[e].is_probe /\ task[e].b = b
    BY DEF TrialsRun, ReturnsIt
  <2>2. e # d
    BY <2>1 DEF ReturnsIt
  <2> QED
    BY <2>1, <2>2 DEF ReturnsIt, Moves, Holds
<1> QED
  BY <1>1, <1>2, CountReturned DEF ReturnsIt

(* The scan goes on with a permit, or is refused without one.              *)
LEMMA OnwardHolds ==
  ASSUME Typed, SeekersHoldNoTrial, NEW d \in Handlers, task[d].pc \in Selecting,
         NEW pass \in {"closed", "trial"}, Onward(d, pass), probe_inflight' = probe_inflight
  PROVE  (KeepsIt(d) \/ ReturnsIt(d)) /\ (task'[d].pc \in Selecting => ~task'[d].is_probe)
<1>1. ~task[d].is_probe /\ Holds(d)
  BY DEF SeekersHoldNoTrial, Holds, Selecting
<1>2. CASE task[d].k + 1 < Backends
  BY <1>1, <1>2 DEF Onward, KeepsIt, Moves, Holds, Typed, Tasks
<1>3. CASE ~(task[d].k + 1 < Backends) /\ pass = "closed"
  BY <1>1, <1>3 DEF Onward, KeepsIt, Moves, Holds, Typed, Tasks
<1>4. CASE ~(task[d].k + 1 < Backends) /\ pass # "closed"
  BY <1>1, <1>4 DEF Onward, ReturnsIt, Moves, Holds, Typed, Tasks, Idle
<1> QED
  BY <1>2, <1>3, <1>4

(* A handler that chooses a backend goes on.                               *)
LEMMA ChosenHolds ==
  ASSUME Typed, SeekersHoldNoTrial, NEW d \in Handlers, task[d].pc \in Selecting,
         NEW is_probe \in BOOLEAN, Chosen(d, is_probe), permits' = permits,
         probe_inflight' = IF is_probe THEN probe_inflight \cup {Scanned(d)} ELSE probe_inflight
  PROVE  KeepsIt(d) /\ task'[d].pc \notin Selecting
<1>1. ~task[d].is_probe /\ Holds(d)
  BY DEF SeekersHoldNoTrial, Holds, Selecting
<1>2. /\ Moves(d) /\ task'[d].pc = "prepared" /\ task'[d].b = Scanned(d)
      /\ task'[d].is_probe = is_probe
  BY DEF Chosen, Moves, Typed, Idle
<1> QED
  BY <1>1, <1>2 DEF KeepsIt, Holds, Selecting

(* A handler that holds a permit and keeps it.                             *)
LEMMA GotoHolds ==
  ASSUME Typed, NEW d \in Handlers, Holds(d), NEW pc \in PCs \ {"idle", "refused"}, Goto(d, pc),
         permits' = permits, probe_inflight' \subseteq probe_inflight
  PROVE  KeepsIt(d) /\ task'[d].pc = pc /\ task'[d].is_probe = task[d].is_probe
BY DEF Goto, KeepsIt, Moves, Holds, Typed, Tasks

-----------------------------------------------------------------------------
(* Every step keeps what was taken accounted for.                          *)
LEMMA StepHolds == PoolInv /\ [PoolNext]_poolVars => PoolInv'
<1> SUFFICES ASSUME PoolInv, [PoolNext]_poolVars PROVE PoolInv'
  OBVIOUS
<1>i. Typed /\ SeekersHoldNoTrial /\ Counted /\ TrialsRun /\ permits \in Nat
  BY DEF PoolInv, Typed
<1>t. Typed'
  BY <1>i, TypedStep
<1>k. ASSUME NEW d \in Handlers, KeepsIt(d) \/ ReturnsIt(d),
             task'[d].pc \in Selecting => ~task'[d].is_probe
      PROVE  PoolInv'
  <2>1. SeekersHoldNoTrial'
    BY <1>k, <1>i DEF SeekersHoldNoTrial, KeepsIt, ReturnsIt, Moves
  <2> QED
    BY <1>k, <1>i, <1>t, <2>1, SlotKept, Returned DEF PoolInv
<1>1. ASSUME NEW d \in Handlers, Prepare(d) PROVE PoolInv'
  <2>1. /\ Moves(d) /\ ~Holds(d) /\ Holds(d)' /\ ~task'[d].is_probe
        /\ permits' = permits - 1 /\ probe_inflight' = probe_inflight
    BY <1>1, <1>i DEF Prepare, At, Idle, Moves, Holds, Typed, breaker
  <2>2. d \notin Held /\ Held' = Held \cup {d}
    BY <2>1 DEF Moves, Held, Holds
  <2>3. Counted'
    BY <2>1, <2>2, <1>i, CountTaken
  <2>4. SeekersHoldNoTrial' /\ TrialsRun'
    BY <2>1, <1>i DEF SeekersHoldNoTrial, TrialsRun, Moves, Holds
  <2> QED
    BY <1>t, <2>3, <2>4 DEF PoolInv
<1>2. ASSUME NEW d \in Handlers, SeekClosed(d) PROVE PoolInv'
  <2>1. task[d].pc \in Selecting /\ probe_inflight' = probe_inflight
    BY <1>2 DEF SeekClosed, At, Selecting, breaker
  <2> QED
    BY <1>2, <2>1, <1>i, <1>k, OnwardHolds, ChosenHolds DEF SeekClosed
<1>3. ASSUME NEW d \in Handlers, SeekTrial(d) PROVE PoolInv'
  <2>1. task[d].pc \in Selecting /\ probe_inflight' = probe_inflight
    BY <1>3 DEF SeekTrial, At, Selecting, breaker
  <2>2. CASE Onward(d, "trial")
    BY <2>1, <2>2, <1>i, <1>k, OnwardHolds
  <2>3. CASE ~Onward(d, "trial")
    <3>1. PICK pc \in {"claim_open", "claim_trial"} : Goto(d, pc) /\ permits' = permits
      BY <1>3, <2>3 DEF SeekTrial
    <3>2. Holds(d) /\ ~task[d].is_probe /\ pc \in PCs \ {"idle", "refused"}
      BY <2>1, <1>i DEF Holds, Selecting, SeekersHoldNoTrial, PCs
    <3> QED
      BY <2>1, <3>1, <3>2, <1>i, <1>k, GotoHolds
  <2> QED
    BY <2>2, <2>3
<1>4. ASSUME NEW d \in Handlers, ClaimOpen(d) PROVE PoolInv'
  <2>1. task[d].pc \in Selecting /\ probe_inflight' = probe_inflight
    BY <1>4 DEF ClaimOpen, At, Selecting
  <2>2. CASE Onward(d, "trial")
    BY <2>1, <2>2, <1>i, <1>k, OnwardHolds
  <2>3. CASE ~Onward(d, "trial")
    <3>1. Holds(d) /\ ~task[d].is_probe /\ "own" \in PCs \ {"idle", "refused"}
      BY <2>1, <1>i DEF Holds, Selecting, SeekersHoldNoTrial, PCs
    <3> QED
      BY <1>4, <2>1, <2>3, <3>1, <1>i, <1>k, GotoHolds DEF ClaimOpen
  <2> QED
    BY <2>2, <2>3
<1>5. ASSUME NEW d \in Handlers, OwnTrial(d) \/ ClaimTrial(d) PROVE PoolInv'
  <2>1. task[d].pc \in Selecting
    BY <1>5 DEF OwnTrial, ClaimTrial, At, Selecting
  <2>2. CASE Onward(d, "trial") /\ probe_inflight' = probe_inflight
    BY <2>1, <2>2, <1>i, <1>k, OnwardHolds
  <2>3. CASE Chosen(d, TRUE) /\ permits' = permits /\ probe_inflight' = probe_inflight \cup {Scanned(d)}
    BY <2>1, <2>3, <1>i, <1>k, ChosenHolds
  <2> QED
    BY <1>5, <2>2, <2>3 DEF OwnTrial, ClaimTrial
<1>6. ASSUME NEW d \in Handlers, RoundTrip(d) \/ Abandon(d) PROVE PoolInv'
  <2>1. PICK pc \in {"head", "body", "ok", "bad", "drop"} : Goto(d, pc)
    BY <1>6 DEF RoundTrip, Transmit, TimesOut, HeadArrives, BodyEnds, Abandon
  <2>2. Holds(d) /\ permits' = permits /\ probe_inflight' = probe_inflight
    BY <1>6 DEF RoundTrip, Transmit, TimesOut, HeadArrives, BodyEnds, Abandon, At, Holds, Running, breaker
  <2>3. pc \in PCs \ {"idle", "refused"} /\ pc \notin Selecting
    BY DEF PCs, Recording, Running, Selecting
  <2> QED
    BY <2>1, <2>2, <2>3, <1>i, <1>k, GotoHolds
<1>7. ASSUME NEW d \in Handlers, RecordSuccess(d) \/ RecordFailedTrial(d) \/ RecordFailure(d)
      PROVE  PoolInv'
  <2>1. PICK pc \in Recording : Goto(d, pc)
    BY <1>7 DEF RecordSuccess, RecordFailedTrial, RecordFailure, Recording
  <2>2. Holds(d) /\ permits' = permits /\ probe_inflight' \subseteq probe_inflight
    BY <1>7 DEF RecordSuccess, RecordFailedTrial, RecordFailure, At, Holds
  <2>3. pc \in PCs \ {"idle", "refused"} /\ pc \notin Selecting
    BY DEF PCs, Recording, Selecting
  <2> QED
    BY <2>1, <2>2, <2>3, <1>i, <1>k, GotoHolds
<1>8. ASSUME NEW d \in Handlers, Drop(d) PROVE PoolInv'
  <2>1. ReturnsIt(d) /\ task'[d].pc \notin Selecting
    BY <1>8, <1>i DEF Drop, At, Idle, ReturnsIt, Moves, Holds, Typed, Selecting
  <2> QED
    BY <2>1, <1>k
<1>9. ASSUME NEW b \in Backend, BackendFails(b) \/ BackendRecovers(b) PROVE PoolInv'
  <2>1. Held' = Held
    BY <1>9 DEF BackendFails, BackendRecovers, Held, Holds
  <2> QED
    BY <1>9, <1>i, <1>t, <2>1, CountKept
    DEF BackendFails, BackendRecovers, breaker, PoolInv, SeekersHoldNoTrial, TrialsRun, Holds
<1>10. CASE Tick
  <2>1. ASSUME NEW d \in Handlers
        PROVE  /\ Holds(d)' <=> Holds(d)
               /\ Holds(d) => task'[d].is_probe = task[d].is_probe /\ task'[d].b = task[d].b
               /\ task'[d].pc \notin Selecting
    BY <1>10, <1>i
    DEF Tick, At, Holds, Idle, Still, Running, Selecting, Typed, Tasks
  <2>2. Held' = Held
    BY <2>1 DEF Held
  <2>3. TrialsRun' /\ SeekersHoldNoTrial'
    BY <1>10, <1>i, <2>1 DEF Tick, TrialsRun, SeekersHoldNoTrial
  <2> QED
    BY <1>10, <1>i, <1>t, <2>2, <2>3, CountKept DEF Tick, PoolInv
<1>11. CASE UNCHANGED poolVars
  <2>1. Held' = Held
    BY <1>11 DEF poolVars, Held, Holds
  <2> QED
    BY <1>11, <1>i, <1>t, <2>1, CountKept DEF poolVars, PoolInv, SeekersHoldNoTrial, TrialsRun, Holds
<1> QED
  BY <1>1, <1>2, <1>3, <1>4, <1>5, <1>6, <1>7, <1>8, <1>9, <1>10, <1>11
  DEF PoolNext, Handler, Select, RecordOutcome

(* The invariant holds in every behaviour of the pool.                     *)
LEMMA AlwaysHolds == PoolSpec => []PoolInv
BY InitHolds, StepHolds, PTL DEF PoolSpec

(* The permits in hand never exceed the limit, whoever leaves when: the    *)
(* types of the pool, in_flight's bound included.                          *)
THEOREM PoolTypeCorrect == PoolSpec => []PoolTypeOK
<1>1. PoolInv => PoolTypeOK
  BY HeldFinite DEF PoolInv, Typed, Counted, PoolTypeOK, Tasks, PCs
<1> QED
  BY <1>1, AlwaysHolds, PTL

(* What a dispatch took comes back however it ends: the permits and the    *)
(* dispatches make up max_in_flight, and every trial slot that is taken    *)
(* has a trial under way that will free it (prepare, ProbeGuard::drop).    *)
THEOREM SlotsAlwaysReturn == PoolSpec => []SlotsReturn
<1>1. PoolInv => SlotsReturn
  BY DEF PoolInv, Counted, Held, TrialsRun, SlotsReturn
<1> QED
  BY <1>1, AlwaysHolds, PTL

-----------------------------------------------------------------------------
(* The evidence directory. *)

(* The writer has acted on as many jobs as its phase says, and withdraws   *)
(* what a barrier that failed left.                                        *)
Shape ==
  /\ phase \in {"idle", "drain", "stopped"} => acted = <<>>
  /\ phase \in {"idle", "stopped"} => batch = <<>>
  /\ phase \in {"barrier", "withdraw", "settle"} => Len(acted) = Len(batch)
  /\ phase = "withdraw" => barrier = FALSE

(* What is seen is one of the things a crash may leave, so what it must    *)
(* leave is seen.                                                          *)
Visible ==
  \A x \in Exchange :
    /\ marker[x] \in onDisk[x].markers
    /\ onDisk[x].records # {}
    /\ onDisk[x].records \subseteq {TRUE} => x \in record

(* A job that a permit accounts for is its future's last word: the future  *)
(* awaits it unanswered, or is gone.                                       *)
AwaitedIn(kind) ==
  CASE kind = "PublishOrWithdraw" -> "reserving"
    [] kind = "Commit" -> "committing"
    [] OTHER -> "completing"

Fits(j) ==
  /\ ack[j.x] = "none" /\ stage[j.x] \in {AwaitedIn(j.kind), "over"}
  /\ told[j.x] # "NothingExecuted"
  /\ j.kind # "Publish" => j.x \notin sent

Fitting ==
  /\ \A i \in 1 .. Len(queue) : Accounted(queue[i]) => Fits(queue[i])
  /\ \A i \in 1 .. Len(batch) : Accounted(batch[i]) => Fits(batch[i])

(* And there is one such job of an exchange at a time.                     *)
Rival(j, k) == Accounted(j) /\ Accounted(k) /\ j.x = k.x

Single ==
  /\ \A i, j \in 1 .. Len(queue) : Rival(queue[i], queue[j]) => i = j
  /\ \A i, j \in 1 .. Len(batch) : Rival(batch[i], batch[j]) => i = j
  /\ \A i \in 1 .. Len(batch), j \in 1 .. Len(queue) : ~Rival(batch[i], queue[j])

NoCrossing(x) == "pending" \notin onDisk[x].markers
Crossing(x)   == onDisk[x].markers \subseteq {"pending"}
Recorded(x)   == onDisk[x].records \subseteq {TRUE}

(* What a future may rest on where it stands.                              *)
Standing(x) ==
  /\ stage[x] \in {"idle", "reserving", "reserved"} => NoCrossing(x)
  /\ stage[x] \in {"committed", "dispatched"} => Crossing(x)
  /\ told[x] # "none" => stage[x] = "over"
  /\ x \in sent => stage[x] \in {"dispatched", "completing", "over"}

(* What an acknowledgement says.                                           *)
AckMeans(x) ==
  /\ ack[x] # "none" => Awaiting(x)
  /\ stage[x] = "committing" /\ ack[x] = "ok" => Crossing(x)
  /\ stage[x] = "committing" /\ ack[x] = "NotPublished" => NoCrossing(x)
  /\ stage[x] = "completing" /\ ack[x] = "ok" => Recorded(x)

(* What the directory says of it.                                          *)
Truth(x) ==
  /\ x \in sent => Crossing(x) \/ Recorded(x)
  /\ told[x] = "NothingExecuted" => NoCrossing(x)
  /\ told[x] = "Success" => Recorded(x)

Owed(x) == Standing(x) /\ AckMeans(x) /\ Truth(x)

(* A commit nobody has acted on has left nothing.                          *)
Untouched ==
  /\ \A i \in 1 .. Len(queue) : queue[i].kind = "Commit" => NoCrossing(queue[i].x)
  /\ \A i \in 1 .. Len(batch) :
       batch[i].kind = "Commit" /\ i > Len(acted) => NoCrossing(batch[i].x)

(* What acting on a job, and withdrawing it, has left; in the end, for     *)
(* good.                                                                   *)
CommitMeans(x, result) ==
  /\ result = "changed" => /\ marker[x] = "pending"
                           /\ phase = "settle" => barrier /\ Crossing(x)
  /\ result = "failed" => NoCrossing(x)
  /\ result = "withdrawn" => marker[x] # "pending" /\ (phase = "settle" => NoCrossing(x))

PublishMeans(x, result) ==
  result = "changed" => x \in record /\ (phase = "settle" /\ barrier => Recorded(x))

ActedMeans ==
  \A i \in 1 .. Len(acted) :
    /\ acted[i] = "same" => batch[i].kind = "Rescind"
    /\ acted[i] = "withdrawn" => phase \in {"withdraw", "settle"}
    /\ batch[i].kind = "Commit" => CommitMeans(batch[i].x, acted[i])
    /\ batch[i].kind = "Publish" => PublishMeans(batch[i].x, acted[i])

IInv == /\ TypeOK /\ Shape /\ Visible /\ Fitting /\ Single /\ Untouched /\ ActedMeans
        /\ \A x \in Exchange : Owed(x)

-----------------------------------------------------------------------------
(* Sequences of jobs.                                                      *)
LEMMA Appended ==
  ASSUME NEW S, NEW q \in Seq(S), NEW j \in S
  PROVE  /\ Append(q, j) \in Seq(S) /\ Len(Append(q, j)) = Len(q) + 1 /\ Len(q) \in Nat
         /\ \A i \in 1 .. Len(q) : Append(q, j)[i] = q[i]
         /\ Append(q, j)[Len(q) + 1] = j
OBVIOUS

(* The first job goes, the others move up.                                 *)
LEMMA Popped ==
  ASSUME NEW S, NEW q \in Seq(S), q # <<>>
  PROVE  /\ Head(q) = q[1] /\ q[1] \in S /\ Len(q) \in Nat \ {0}
         /\ Tail(q) \in Seq(S) /\ Len(Tail(q)) = Len(q) - 1
         /\ \A i \in 1 .. Len(q) - 1 : Tail(q)[i] = q[i + 1]
OBVIOUS

(* What the queue and the batch hold are jobs of exchanges.                *)
LEMMA JobsTyped ==
  ASSUME TypeOK
  PROVE  /\ queue \in Seq(Job) /\ batch \in Seq(Job)
         /\ Len(queue) \in Nat /\ Len(batch) \in Nat
         /\ \A i \in 1 .. Len(queue) : queue[i] \in Job /\ queue[i].x \in Exchange
         /\ \A i \in 1 .. Len(batch) : batch[i] \in Job /\ batch[i].x \in Exchange
<1>1. queue \in Seq(Job) /\ batch \in Seq(Job)
  BY DEF TypeOK
<1>2. /\ \A i \in 1 .. Len(queue) : queue[i] \in Job
      /\ \A i \in 1 .. Len(batch) : batch[i] \in Job
  BY <1>1
<1>3. \A j \in Job : j.x \in Exchange
  BY DEF Job
<1> QED BY <1>1, <1>2, <1>3

(* A set of positions has a first one.                                     *)
LEMMA FirstOf ==
  ASSUME NEW S \in SUBSET Nat, S # {}
  PROVE  \E i \in S : \A j \in S : i <= j
<1>1. PICK i \in S : \A j \in S : ~(<<j, i>> \in OpToRel(<, Nat))
  BY NatLessThanWellFounded, WFMin
<1>2. \A j \in S : ~(j < i)
  BY <1>1 DEF OpToRel
<1> QED BY <1>2

-----------------------------------------------------------------------------
(* The store's start.                                                      *)
LEMMA InitIInv == ASSUME Init PROVE IInv
<1> USE RetentionAssumption DEF Init, RetentionAssumption
<1>1. TypeOK
  BY DEF TypeOK, Stage, Ack, Told, Marker, write_queue_capacity
<1>2. Shape /\ Fitting /\ Single
  BY DEF Shape, Fitting, Single
<1>5. Visible
  BY DEF Visible
<1>3. Untouched /\ ActedMeans
  BY DEF Untouched, ActedMeans
<1>4. \A x \in Exchange : Owed(x)
  BY DEF Owed, Standing, AckMeans, Truth, NoCrossing
<1> QED BY <1>1, <1>2, <1>3, <1>4, <1>5 DEF IInv

-----------------------------------------------------------------------------
(* What a request future does to the queue: at most one job more.          *)
QueueOK == queue' \in Seq(Job) /\ Len(queue') <= write_queue_capacity(MAX_RESERVATIONS)

Joined(j) ==
  \A i \in 1 .. Len(queue') : Accounted(queue'[i]) =>
    \/ i \in 1 .. Len(queue) /\ queue'[i] = queue[i]
    \/ i = Len(queue) + 1 /\ queue'[i] = j

NoneJoined ==
  \A i \in 1 .. Len(queue') : Accounted(queue'[i]) =>
    i \in 1 .. Len(queue) /\ queue'[i] = queue[i]

(* A dropped guard's rescind is no job that a permit accounts for.         *)
LEMMA RescindedJoins ==
  ASSUME TypeOK, NEW x \in Exchange, queue' = Rescinded(queue, x)
  PROVE  QueueOK /\ NoneJoined
<1> DEFINE j == JobOf("Rescind", x)
<1>1. j \in Job /\ ~Accounted(j)
  BY DEF JobOf, Job, JobKind, Accounted
<1>2. /\ queue \in Seq(Job) /\ Len(queue) \in Nat
      /\ Len(queue) <= write_queue_capacity(MAX_RESERVATIONS)
      /\ write_queue_capacity(MAX_RESERVATIONS) \in Nat
  BY RetentionAssumption DEF TypeOK, write_queue_capacity, RetentionAssumption
<1>3. CASE queue' = queue
  BY <1>2, <1>3 DEF QueueOK, NoneJoined
<1>4. CASE queue' = Append(queue, j) /\ Len(queue) < write_queue_capacity(MAX_RESERVATIONS)
  <2> HIDE DEF j
  <2>1. /\ queue' \in Seq(Job) /\ Len(queue') = Len(queue) + 1
        /\ \A i \in 1 .. Len(queue) : queue'[i] = queue[i]
        /\ queue'[Len(queue) + 1] = j
    BY <1>1, <1>2, <1>4, Appended
  <2> QED BY <1>1, <1>2, <1>4, <2>1 DEF QueueOK, NoneJoined
<1> QED BY <1>3, <1>4 DEF Rescinded

(* submit appends the one job, where there is room.                        *)
LEMMA SubmitJoins ==
  ASSUME TypeOK, NEW x \in Exchange, NEW kind \in JobKind,
         queue' = Append(queue, JobOf(kind, x)), HasRoom
  PROVE  QueueOK /\ Joined(JobOf(kind, x)) /\ JobOf(kind, x) \in Job
<1> DEFINE j == JobOf(kind, x)
<1>1. j \in Job
  BY DEF JobOf, Job
<1>2. /\ queue \in Seq(Job) /\ Len(queue) \in Nat
      /\ Len(queue) < write_queue_capacity(MAX_RESERVATIONS)
      /\ write_queue_capacity(MAX_RESERVATIONS) \in Nat
  BY RetentionAssumption DEF TypeOK, write_queue_capacity, RetentionAssumption, HasRoom
<1> HIDE DEF j
<1>3. /\ queue' \in Seq(Job) /\ Len(queue') = Len(queue) + 1
      /\ \A i \in 1 .. Len(queue) : queue'[i] = queue[i]
      /\ queue'[Len(queue) + 1] = j
  BY <1>1, <1>2, Appended DEF j
<1> QED BY <1>1, <1>2, <1>3 DEF QueueOK, Joined, j

NoJob(x) == ~Queued(x) /\ ~InBatch(x)

(* A future that awaits nothing, or was answered, has no job.              *)
LEMMA Jobless ==
  ASSUME IInv, NEW x \in Exchange,
         stage[x] \in {"idle", "reserved", "committed", "dispatched"} \/ ack[x] # "none"
  PROVE  NoJob(x)
BY DEF IInv, Fitting, Fits, AwaitedIn, NoJob, Queued, InBatch

(* A future stays where it is, and all but one do.                         *)
Unmoved(y) ==
  /\ stage'[y] = stage[y] /\ ack'[y] = ack[y] /\ told'[y] = told[y]
  /\ y \in sent' <=> y \in sent

Others(x) == \A y \in Exchange \ {x} : Unmoved(y)

(* The jobs still fit when none joins and x's own, if any, do.             *)
LEMMA NoneJoinedFits ==
  ASSUME IInv, NEW x \in Exchange, QueueOK, NoneJoined, batch' = batch, Others(x),
         NoJob(x) \/ \A j \in Job : j.x = x /\ Fits(j) => Fits(j)'
  PROVE  Fitting' /\ Single'
<1>1. /\ queue \in Seq(Job) /\ batch \in Seq(Job)
      /\ \A i \in 1 .. Len(queue) : queue[i] \in Job /\ queue[i].x \in Exchange
      /\ \A i \in 1 .. Len(batch) : batch[i] \in Job /\ batch[i].x \in Exchange
  BY JobsTyped DEF IInv
<1>2. ASSUME NEW j \in Job, Accounted(j), Fits(j),
             \/ \E i \in 1 .. Len(queue) : j = queue[i]
             \/ \E i \in 1 .. Len(batch) : j = batch[i]
      PROVE  Fits(j)'
  <2>1. CASE j.x = x
    BY <1>2, <2>1 DEF NoJob, Queued, InBatch
  <2>2. CASE j.x # x
    BY <1>2, <2>2 DEF Others, Unmoved, Fits, Job
  <2> QED BY <2>1, <2>2
<1>3. Fitting'
  BY <1>1, <1>2 DEF NoneJoined, Fitting, IInv
<1>4. Single'
  BY <1>1 DEF NoneJoined, Single, IInv, Rival
<1> QED BY <1>3, <1>4

(* And when one joins, the future being without another.                   *)
LEMMA JoinedFits ==
  ASSUME IInv, NEW x \in Exchange, NEW j \in Job, QueueOK, Joined(j), batch' = batch, Others(x),
         NoJob(x), j.x = x, Fits(j)'
  PROVE  Fitting' /\ Single'
<1>1. /\ queue \in Seq(Job) /\ batch \in Seq(Job)
      /\ \A i \in 1 .. Len(queue) : queue[i] \in Job /\ queue[i].x \in Exchange
      /\ \A i \in 1 .. Len(batch) : batch[i] \in Job /\ batch[i].x \in Exchange
  BY JobsTyped DEF IInv
<1>2. ASSUME NEW k \in Job, Accounted(k), Fits(k),
             \/ \E i \in 1 .. Len(queue) : k = queue[i]
             \/ \E i \in 1 .. Len(batch) : k = batch[i]
      PROVE  Fits(k)' /\ k.x # x
  <2>1. k.x # x
    BY <1>2 DEF NoJob, Queued, InBatch
  <2> QED BY <1>2, <2>1 DEF Others, Unmoved, Fits, Job
<1>3. Fitting'
  BY <1>1, <1>2 DEF Joined, Fitting, IInv
<1>4. Single'
  <2>1. \A i \in 1 .. Len(queue) : Accounted(queue[i]) => queue[i].x # x
    BY <1>1, <1>2 DEF Fitting, IInv
  <2>2. \A i \in 1 .. Len(batch) : Accounted(batch[i]) => batch[i].x # x
    BY <1>1, <1>2 DEF Fitting, IInv
  <2> QED BY <1>1, <2>1, <2>2 DEF Joined, Single, IInv, Rival
<1> QED BY <1>3, <1>4

-----------------------------------------------------------------------------
(* The steps of a request future.                                          *)

(* What such a step leaves alone, and what it owes besides.                *)
LEMMA FutureKeeps ==
  ASSUME IInv, NEW x \in Exchange, QueueOK, NEW j \in Job, Joined(j), Others(x),
         UNCHANGED <<writerVars, dirVars>>,
         stage' \in [Exchange -> Stage], ack' \in [Exchange -> Ack], told' \in [Exchange -> Told],
         sent' \subseteq Exchange, full' \subseteq Exchange,
         j.kind = "Commit" => NoCrossing(j.x)
  PROVE  TypeOK' /\ Shape' /\ Visible' /\ Untouched' /\ ActedMeans'
<1>1. TypeOK'
  BY DEF IInv, TypeOK, QueueOK, writerVars, dirVars
<1>2. Shape' /\ Visible' /\ ActedMeans'
  BY DEF IInv, Shape, Visible, ActedMeans, CommitMeans, PublishMeans, NoCrossing, Crossing,
         Recorded, writerVars, dirVars
<1>3. Untouched'
  BY DEF IInv, Untouched, Joined, Accounted, NoCrossing, writerVars, dirVars
<1> QED BY <1>1, <1>2, <1>3

(* A future's step leaves the others what they were owed.                  *)
LEMMA OthersOwed ==
  ASSUME IInv, NEW x \in Exchange, Others(x), UNCHANGED dirVars, Owed(x)'
  PROVE  \A y \in Exchange : Owed(y)'
BY DEF IInv, Others, Unmoved, Owed, Standing, AckMeans, Truth, Awaiting, NoCrossing, Crossing,
       Recorded, dirVars

(* Where a future may stand after a step, none of its jobs being left.     *)
LEMMA MovesOn ==
  ASSUME IInv, NEW x \in Exchange, NoJob(x), QueueOK, NoneJoined,
         UNCHANGED <<writerVars, dirVars>>, NEW s \in Stage, NEW t \in Told,
         stage' = [stage EXCEPT ![x] = s], told' = [told EXCEPT ![x] = t],
         ack' = [ack EXCEPT ![x] = "none"], sent' \subseteq sent \cup {x}, sent \subseteq sent',
         full' \subseteq Exchange, Owed(x)'
  PROVE  IInv'
<1> DEFINE j == JobOf("Rescind", x)
<1>1. j \in Job /\ j.kind = "Rescind"
  BY DEF JobOf, Job, JobKind
<1> HIDE DEF j
<1>2. Joined(j)
  BY DEF NoneJoined, Joined
<1>3. Others(x)
  BY DEF Others, Unmoved, IInv, TypeOK
<1>4. /\ stage' \in [Exchange -> Stage] /\ ack' \in [Exchange -> Ack]
      /\ told' \in [Exchange -> Told] /\ sent' \subseteq Exchange
  BY DEF IInv, TypeOK, Ack
<1>5. TypeOK' /\ Shape' /\ Visible' /\ Untouched' /\ ActedMeans'
  BY <1>1, <1>2, <1>3, <1>4, FutureKeeps
<1>6. Fitting' /\ Single'
  BY <1>3, NoneJoinedFits DEF writerVars
<1>7. \A y \in Exchange : Owed(y)'
  BY <1>3, OthersOwed
<1> QED BY <1>5, <1>6, <1>7 DEF IInv

(* A future hands the writer a job and awaits it.                          *)
LEMMA HandsOver ==
  ASSUME IInv, NEW x \in Exchange, NEW kind \in JobKind, kind # "Rescind",
         NoJob(x), ack[x] = "none", told[x] = "none", Submit(x, kind, AwaitedIn(kind)),
         UNCHANGED <<ack, writerVars, dirVars, sent, full>>,
         kind # "Publish" => x \notin sent, kind = "Commit" => NoCrossing(x), Owed(x)'
  PROVE  IInv'
<1> DEFINE j == JobOf(kind, x)
<1>1. j.kind = kind /\ j.x = x
  BY DEF JobOf
<1>2. QueueOK /\ Joined(j) /\ j \in Job
  BY SubmitJoins DEF IInv, Submit
<1> HIDE DEF j
<1>3. AwaitedIn(kind) \in Stage /\ stage' = [stage EXCEPT ![x] = AwaitedIn(kind)] /\ told' = told
  BY DEF AwaitedIn, Stage, Submit, Wait
<1>4. Others(x) /\ stage'[x] = AwaitedIn(kind)
  BY <1>3 DEF Others, Unmoved, IInv, TypeOK
<1>5. /\ stage' \in [Exchange -> Stage] /\ ack' \in [Exchange -> Ack]
      /\ told' \in [Exchange -> Told] /\ sent' \subseteq Exchange /\ full' \subseteq Exchange
  BY <1>3 DEF IInv, TypeOK
<1>6. TypeOK' /\ Shape' /\ Visible' /\ Untouched' /\ ActedMeans'
  BY <1>1, <1>2, <1>4, <1>5, FutureKeeps
<1>7. Fits(j)'
  BY <1>1, <1>3, <1>4 DEF Fits
<1>8. Fitting' /\ Single'
  BY <1>1, <1>2, <1>4, <1>7, JoinedFits DEF writerVars
<1>9. \A y \in Exchange : Owed(y)'
  BY <1>4, OthersOwed
<1> QED BY <1>6, <1>8, <1>9 DEF IInv

(* reserve: a permit and the marker's job, or a refusal.                   *)
LEMMA ReserveKeeps ==
  ASSUME IInv, NEW x \in Exchange, Reserve(x) PROVE IInv'
<1>1. /\ stage[x] = "idle" /\ NoJob(x) /\ Owed(x) /\ ack[x] = "none" /\ told[x] = "none"
      /\ x \notin sent /\ NoCrossing(x)
  BY Jobless DEF Reserve, IInv, Owed, Standing, AckMeans, Awaiting
<1>2. CASE Submit(x, "PublishOrWithdraw", "reserving")
  <2>1. stage'[x] = "reserving" /\ told' = told
    BY <1>2 DEF Submit, Wait, IInv, TypeOK
  <2>2. UNCHANGED <<ack, writerVars, dirVars, sent, full>>
    BY DEF Reserve
  <2>3. Owed(x)'
    BY <1>1, <2>1, <2>2 DEF Owed, Standing, AckMeans, Truth, NoCrossing, dirVars
  <2> QED BY <1>1, <1>2, <2>2, <2>3, HandsOver DEF AwaitedIn, JobKind
<1>3. CASE Leave(x, "NothingExecuted") /\ queue' \in {queue, Rescinded(queue, x)}
  <2>1. QueueOK /\ NoneJoined
    BY <1>3, RescindedJoins DEF IInv, TypeOK, QueueOK, NoneJoined
  <2>2. UNCHANGED <<ack, writerVars, dirVars, sent, full>>
    BY DEF Reserve
  <2>3. /\ stage' = [stage EXCEPT ![x] = "over"] /\ stage'[x] = "over"
        /\ told' = [told EXCEPT ![x] = "NothingExecuted"] /\ told'[x] = "NothingExecuted"
        /\ ack' = [ack EXCEPT ![x] = "none"] /\ sent' = sent /\ full' \subseteq Exchange
    BY <1>1, <1>3, <2>2 DEF Leave, IInv, TypeOK
  <2>4. Owed(x)'
    BY <1>1, <2>2, <2>3 DEF Owed, Standing, AckMeans, Truth, NoCrossing, dirVars
  <2> QED BY <1>1, <2>1, <2>2, <2>3, <2>4, MovesOn DEF Stage, Told
<1> QED BY <1>2, <1>3 DEF Reserve

(* reserve, once acknowledged.                                             *)
LEMMA ReserveAckedKeeps ==
  ASSUME IInv, NEW x \in Exchange, ReserveAcked(x) PROVE IInv'
<1>1. /\ stage[x] = "reserving" /\ NoJob(x) /\ Owed(x) /\ told[x] = "none"
      /\ x \notin sent /\ NoCrossing(x)
  BY Jobless DEF ReserveAcked, IInv, Owed, Standing
<1>2. QueueOK /\ NoneJoined
  BY RescindedJoins DEF ReserveAcked, IInv, TypeOK, QueueOK, NoneJoined
<1>3. UNCHANGED <<writerVars, dirVars, sent, full>> /\ ack' = [ack EXCEPT ![x] = "none"]
  BY DEF ReserveAcked
<1>4. PICK s \in {"reserved", "over"}, t \in {"none", "NothingExecuted", "RetentionUnresolved"} :
        /\ stage' = [stage EXCEPT ![x] = s] /\ told' = [told EXCEPT ![x] = t]
        /\ t # "none" => s = "over"
  <2>1. CASE Wait(x, "reserved")
    <3>1. told' = [told EXCEPT ![x] = "none"]
      BY <1>1, <2>1 DEF Wait, IInv, TypeOK
    <3> QED BY <2>1, <3>1 DEF Wait
  <2>2. CASE Leave(x, PreDispatchRefusal(ack[x]))
    BY <2>2 DEF Leave, PreDispatchRefusal
  <2> QED BY <2>1, <2>2 DEF ReserveAcked
<1>5. stage'[x] = s /\ told'[x] = t /\ ack'[x] = "none"
  BY <1>3, <1>4 DEF IInv, TypeOK
<1>6. Owed(x)'
  BY <1>1, <1>3, <1>4, <1>5 DEF Owed, Standing, AckMeans, Truth, NoCrossing, dirVars
<1>7. s \in Stage /\ t \in Told /\ sent' = sent /\ full' \subseteq Exchange
  BY <1>3 DEF Stage, Told, IInv, TypeOK
<1> QED BY <1>1, <1>2, <1>3, <1>4, <1>6, <1>7, MovesOn

(* commit_to_dispatch: the rename of the marker is asked for.              *)
LEMMA CommitToDispatchKeeps ==
  ASSUME IInv, NEW x \in Exchange, CommitToDispatch(x) PROVE IInv'
<1>1. /\ stage[x] = "reserved" /\ NoJob(x) /\ Owed(x) /\ ack[x] = "none" /\ told[x] = "none"
      /\ x \notin sent /\ NoCrossing(x)
  BY Jobless DEF CommitToDispatch, IInv, Owed, Standing, AckMeans, Awaiting
<1>2. UNCHANGED <<ack, writerVars, dirVars, sent, full>>
  BY DEF CommitToDispatch
<1>3. CASE Submit(x, "Commit", "committing")
  <2>1. stage'[x] = "committing" /\ told' = told
    BY <1>3 DEF Submit, Wait, IInv, TypeOK
  <2>2. Owed(x)'
    BY <1>1, <1>2, <2>1 DEF Owed, Standing, AckMeans, Truth, NoCrossing, dirVars
  <2> QED BY <1>1, <1>2, <1>3, <2>2, HandsOver DEF AwaitedIn, JobKind
<1>4. CASE Leave(x, "NothingExecuted") /\ queue' = Rescinded(queue, x)
  <2>1. QueueOK /\ NoneJoined
    BY <1>4, RescindedJoins DEF IInv
  <2>2. /\ stage' = [stage EXCEPT ![x] = "over"] /\ stage'[x] = "over"
        /\ told' = [told EXCEPT ![x] = "NothingExecuted"] /\ told'[x] = "NothingExecuted"
        /\ ack' = [ack EXCEPT ![x] = "none"] /\ sent' = sent /\ full' \subseteq Exchange
    BY <1>1, <1>2, <1>4 DEF Leave, IInv, TypeOK
  <2>3. Owed(x)'
    BY <1>1, <1>2, <2>2 DEF Owed, Standing, AckMeans, Truth, NoCrossing, dirVars
  <2> QED BY <1>1, <1>2, <2>1, <2>2, <2>3, MovesOn DEF Stage, Told
<1> QED BY <1>3, <1>4 DEF CommitToDispatch

(* commit_to_dispatch, once acknowledged: it rests on the crossing.        *)
LEMMA CommitAckedKeeps ==
  ASSUME IInv, NEW x \in Exchange, CommitAcked(x) PROVE IInv'
<1>1. /\ stage[x] = "committing" /\ NoJob(x) /\ Owed(x) /\ told[x] = "none" /\ x \notin sent
      /\ ack[x] = "ok" => Crossing(x)
      /\ ack[x] = "NotPublished" => NoCrossing(x)
  BY Jobless DEF CommitAcked, IInv, Owed, Standing, AckMeans
<1>2. QueueOK /\ NoneJoined
  BY RescindedJoins DEF CommitAcked, IInv
<1>3. UNCHANGED <<writerVars, dirVars, sent, full>> /\ ack' = [ack EXCEPT ![x] = "none"]
  BY DEF CommitAcked
<1>4. PICK s \in {"committed", "over"}, t \in {"none", "NothingExecuted", "RetentionUnresolved"} :
        /\ stage' = [stage EXCEPT ![x] = s] /\ told' = [told EXCEPT ![x] = t]
        /\ t # "none" => s = "over"
        /\ s = "committed" => Crossing(x)
        /\ t = "NothingExecuted" => NoCrossing(x)
  <2>1. CASE ack[x] = "ok" /\ Wait(x, "committed")
    <3>1. told' = [told EXCEPT ![x] = "none"]
      BY <1>1, <2>1 DEF Wait, IInv, TypeOK
    <3> QED BY <1>1, <2>1, <3>1 DEF Wait
  <2>2. CASE Leave(x, PreDispatchRefusal(ack[x]))
    BY <1>1, <2>2 DEF Leave, PreDispatchRefusal
  <2> QED BY <2>1, <2>2 DEF CommitAcked
<1>5. stage'[x] = s /\ told'[x] = t /\ ack'[x] = "none"
  BY <1>3, <1>4 DEF IInv, TypeOK
<1>6. Owed(x)'
  BY <1>1, <1>3, <1>4, <1>5 DEF Owed, Standing, AckMeans, Truth, NoCrossing, Crossing, dirVars
<1>7. s \in Stage /\ t \in Told /\ sent' = sent /\ full' \subseteq Exchange
  BY <1>3 DEF Stage, Told, IInv, TypeOK
<1> QED BY <1>1, <1>2, <1>3, <1>4, <1>6, <1>7, MovesOn

(* The call goes out on a commitment.                                      *)
LEMMA DispatchKeeps ==
  ASSUME IInv, NEW x \in Exchange, Dispatch(x) PROVE IInv'
<1>1. /\ stage[x] = "committed" /\ NoJob(x) /\ Owed(x) /\ ack[x] = "none" /\ told[x] = "none"
      /\ Crossing(x)
  BY Jobless DEF Dispatch, IInv, Owed, Standing, AckMeans, Awaiting
<1>2. UNCHANGED <<ack, queue, writerVars, dirVars, full>> /\ sent' = sent \cup {x}
  BY DEF Dispatch
<1>3. QueueOK /\ NoneJoined
  BY <1>2 DEF IInv, TypeOK, QueueOK, NoneJoined
<1>4. /\ stage' = [stage EXCEPT ![x] = "dispatched"] /\ stage'[x] = "dispatched"
      /\ told' = [told EXCEPT ![x] = "none"] /\ told'[x] = "none"
      /\ ack' = [ack EXCEPT ![x] = "none"] /\ full' \subseteq Exchange
  BY <1>1, <1>2 DEF Dispatch, Wait, IInv, TypeOK
<1>5. Owed(x)'
  BY <1>1, <1>2, <1>4 DEF Owed, Standing, AckMeans, Truth, Crossing, dirVars
<1> QED BY <1>1, <1>2, <1>3, <1>4, <1>5, MovesOn DEF Stage, Told

(* complete: the record is asked for.                                      *)
LEMMA CompleteKeeps ==
  ASSUME IInv, NEW x \in Exchange, Complete(x) PROVE IInv'
<1>1. /\ stage[x] = "dispatched" /\ NoJob(x) /\ Owed(x) /\ ack[x] = "none" /\ told[x] = "none"
      /\ Crossing(x)
  BY Jobless DEF Complete, IInv, Owed, Standing, AckMeans, Awaiting
<1>2. UNCHANGED <<ack, writerVars, dirVars, sent>>
  BY DEF Complete
<1>3. CASE Submit(x, "Publish", "completing") /\ UNCHANGED full
  <2>1. stage'[x] = "completing" /\ told' = told
    BY <1>3 DEF Submit, Wait, IInv, TypeOK
  <2>2. Owed(x)'
    BY <1>1, <1>2, <2>1 DEF Owed, Standing, AckMeans, Truth, Crossing, dirVars
  <2> QED BY <1>1, <1>2, <1>3, <2>2, HandsOver DEF AwaitedIn, JobKind
<1>4. CASE /\ Leave(x, "PossiblyExecuted") /\ queue' = queue
           /\ full' = IF Alive THEN full \cup {x} ELSE full
  <2>1. QueueOK /\ NoneJoined
    BY <1>4 DEF IInv, TypeOK, QueueOK, NoneJoined
  <2>2. /\ stage' = [stage EXCEPT ![x] = "over"] /\ stage'[x] = "over"
        /\ told' = [told EXCEPT ![x] = "PossiblyExecuted"] /\ told'[x] = "PossiblyExecuted"
        /\ ack' = [ack EXCEPT ![x] = "none"] /\ sent' = sent /\ full' \subseteq Exchange
    BY <1>1, <1>2, <1>4 DEF Leave, IInv, TypeOK
  <2>3. Owed(x)'
    BY <1>1, <1>2, <2>2 DEF Owed, Standing, AckMeans, Truth, Crossing, dirVars
  <2> QED BY <1>1, <1>2, <2>1, <2>2, <2>3, MovesOn DEF Stage, Told
<1> QED BY <1>3, <1>4 DEF Complete

(* complete, once acknowledged: a success rests on the record.             *)
LEMMA CompleteAckedKeeps ==
  ASSUME IInv, NEW x \in Exchange, CompleteAcked(x) PROVE IInv'
<1>1. /\ stage[x] = "completing" /\ NoJob(x) /\ Owed(x) /\ told[x] = "none"
      /\ ack[x] = "ok" => Recorded(x)
  BY Jobless DEF CompleteAcked, IInv, Owed, Standing, AckMeans
<1>2. UNCHANGED <<queue, writerVars, dirVars, sent, full>> /\ ack' = [ack EXCEPT ![x] = "none"]
  BY DEF CompleteAcked
<1>3. QueueOK /\ NoneJoined
  BY <1>2 DEF IInv, TypeOK, QueueOK, NoneJoined
<1>4. PICK t \in {"Success", "PossiblyExecuted"} :
        /\ Leave(x, t)
        /\ t = "Success" => Recorded(x)
  BY <1>1 DEF CompleteAcked
<1>5. /\ stage' = [stage EXCEPT ![x] = "over"] /\ stage'[x] = "over"
      /\ told' = [told EXCEPT ![x] = t] /\ told'[x] = t /\ ack'[x] = "none"
      /\ sent' = sent /\ full' \subseteq Exchange
  BY <1>2, <1>4 DEF Leave, IInv, TypeOK
<1>6. Owed(x)'
  BY <1>1, <1>2, <1>4, <1>5 DEF Owed, Standing, AckMeans, Truth, Crossing, Recorded, dirVars
<1> QED BY <1>1, <1>2, <1>3, <1>5, <1>6, MovesOn DEF Stage, Told

(* A future dropped at an await leaves its job, which then fits as well.   *)
LEMMA CancelKeeps ==
  ASSUME IInv, NEW x \in Exchange, Cancel(x) PROVE IInv'
<1> DEFINE j == JobOf("Rescind", x)
<1>1. j \in Job /\ j.kind = "Rescind"
  BY DEF JobOf, Job, JobKind
<1> HIDE DEF j
<1>2. UNCHANGED <<writerVars, dirVars, sent, full>>
  BY DEF Cancel
<1>3. QueueOK /\ NoneJoined
  BY RescindedJoins DEF Cancel, IInv, TypeOK, QueueOK, NoneJoined
<1>4. Joined(j)
  BY <1>3 DEF NoneJoined, Joined
<1>5. /\ stage' = [stage EXCEPT ![x] = "over"] /\ told' = [told EXCEPT ![x] = "none"]
      /\ ack' = [ack EXCEPT ![x] = "none"]
      /\ stage'[x] = "over" /\ told'[x] = "none" /\ ack'[x] = "none"
  BY DEF Cancel, Leave, IInv, TypeOK
<1>6. Others(x)
  BY <1>2, <1>5 DEF Others, Unmoved, IInv, TypeOK
<1>7. /\ stage' \in [Exchange -> Stage] /\ ack' \in [Exchange -> Ack]
      /\ told' \in [Exchange -> Told] /\ sent' \subseteq Exchange /\ full' \subseteq Exchange
  BY <1>2, <1>5 DEF IInv, TypeOK, Stage, Ack, Told
<1>8. TypeOK' /\ Shape' /\ Visible' /\ Untouched' /\ ActedMeans'
  BY <1>1, <1>2, <1>3, <1>4, <1>6, <1>7, FutureKeeps
<1>9. \A k \in Job : k.x = x /\ Fits(k) => Fits(k)'
  BY <1>2, <1>5 DEF Fits
<1>10. Fitting' /\ Single'
  BY <1>2, <1>3, <1>6, <1>9, NoneJoinedFits DEF writerVars
<1>11. Owed(x) /\ stage[x] # "idle"
  BY DEF IInv, Cancel
<1>12. Owed(x)'
  BY <1>2, <1>5, <1>11 DEF Owed, Standing, AckMeans, Truth, Crossing, Recorded, dirVars
<1>13. \A y \in Exchange : Owed(y)'
  BY <1>2, <1>6, <1>12, OthersOwed
<1> QED BY <1>8, <1>10, <1>13 DEF IInv

-----------------------------------------------------------------------------
(* What a change of the directory keeps of an exchange.                    *)
NoCrossingKept(y) == NoCrossing(y) => NoCrossing(y)'
CrossingKept(y)   == Crossing(y) => Crossing(y)'
RecordKept(y)     == Recorded(y) => Recorded(y)'
Kept(y)           == NoCrossingKept(y) /\ CrossingKept(y) /\ RecordKept(y)
Same(y)           == marker'[y] = marker[y] /\ (y \in record' <=> y \in record)

DirTyped ==
  /\ marker \in [Exchange -> Marker] /\ record \subseteq Exchange
  /\ onDisk \in [Exchange -> [markers : SUBSET Marker, records : SUBSET BOOLEAN]]

(* A step that leaves the directory alone keeps everything.                *)
LEMMA DirUntouched ==
  ASSUME DirTyped, Visible, UNCHANGED dirVars
  PROVE  DirTyped' /\ Visible' /\ \A y \in Exchange : Kept(y) /\ Same(y)
<1> USE DEF dirVars
<1>1. DirTyped'
  BY DEF DirTyped
<1>2. Visible'
  BY DEF Visible
<1>3. \A y \in Exchange : Kept(y) /\ Same(y)
  BY DEF Kept, NoCrossingKept, CrossingKept, RecordKept, Same, NoCrossing, Crossing, Recorded
<1> QED BY <1>1, <1>2, <1>3

(* Giving a marker another value touches that exchange alone, and takes no *)
(* crossing back unless it stands.                                         *)
LEMMA SetMarkerKeeps ==
  ASSUME DirTyped, Visible, NEW x \in Exchange, NEW m \in Marker, SetMarker(x, m)
  PROVE  /\ DirTyped' /\ Visible'
         /\ \A y \in Exchange \ {x} : Kept(y) /\ Same(y)
         /\ marker'[x] = m /\ (x \in record' <=> x \in record) /\ RecordKept(x)
         /\ m # "pending" => NoCrossingKept(x)
         /\ marker[x] # "pending" => CrossingKept(x)
<1> DEFINE d == [onDisk[x] EXCEPT !.markers = @ \cup {m}]
<1>1. /\ marker' = [marker EXCEPT ![x] = m] /\ record' = record
      /\ onDisk' = [onDisk EXCEPT ![x].markers = @ \cup {m}]
  BY DEF SetMarker
<1>2. onDisk[x] \in [markers : SUBSET Marker, records : SUBSET BOOLEAN]
  BY DEF DirTyped
<1>3. onDisk' = [onDisk EXCEPT ![x] = d]
  BY <1>1
<1>4. /\ d \in [markers : SUBSET Marker, records : SUBSET BOOLEAN]
      /\ d.markers = onDisk[x].markers \cup {m} /\ d.records = onDisk[x].records
  BY <1>2
<1> HIDE DEF d
<1>5. onDisk'[x] = d /\ \A y \in Exchange \ {x} : onDisk'[y] = onDisk[y]
  BY <1>3 DEF DirTyped
<1>6. marker'[x] = m /\ \A y \in Exchange \ {x} : marker'[y] = marker[y]
  BY <1>1 DEF DirTyped
<1>7. DirTyped'
  BY <1>1, <1>3, <1>4 DEF DirTyped
<1>8. Visible'
  BY <1>1, <1>4, <1>5, <1>6 DEF Visible
<1>9. \A y \in Exchange \ {x} : Kept(y) /\ Same(y)
  BY <1>1, <1>5, <1>6 DEF Kept, NoCrossingKept, CrossingKept, RecordKept, Same, NoCrossing,
                          Crossing, Recorded
<1>10. RecordKept(x) /\ (m # "pending" => NoCrossingKept(x))
  BY <1>4, <1>5 DEF RecordKept, NoCrossingKept, Recorded, NoCrossing
<1>11. marker[x] # "pending" => CrossingKept(x)
  BY DEF Visible, CrossingKept, Crossing
<1> QED BY <1>1, <1>6, <1>7, <1>8, <1>9, <1>10, <1>11

(* Adding a record touches that exchange alone, and takes nothing back.    *)
LEMMA AddRecordKeeps ==
  ASSUME DirTyped, Visible, NEW x \in Exchange, AddRecord(x)
  PROVE  /\ DirTyped' /\ Visible'
         /\ \A y \in Exchange \ {x} : Kept(y) /\ Same(y)
         /\ marker'[x] = marker[x] /\ x \in record' /\ Kept(x)
<1> DEFINE d == [onDisk[x] EXCEPT !.records = @ \cup {TRUE}]
<1>1. /\ marker' = marker /\ record' = record \cup {x}
      /\ onDisk' = [onDisk EXCEPT ![x].records = @ \cup {TRUE}]
  BY DEF AddRecord
<1>2. onDisk[x] \in [markers : SUBSET Marker, records : SUBSET BOOLEAN]
  BY DEF DirTyped
<1>3. onDisk' = [onDisk EXCEPT ![x] = d]
  BY <1>1
<1>4. /\ d \in [markers : SUBSET Marker, records : SUBSET BOOLEAN]
      /\ d.records = onDisk[x].records \cup {TRUE} /\ d.markers = onDisk[x].markers
  BY <1>2
<1> HIDE DEF d
<1>5. onDisk'[x] = d /\ \A y \in Exchange \ {x} : onDisk'[y] = onDisk[y]
  BY <1>3 DEF DirTyped
<1>7. DirTyped'
  BY <1>1, <1>3, <1>4 DEF DirTyped
<1>8. Visible'
  BY <1>1, <1>4, <1>5 DEF Visible
<1>9. \A y \in Exchange \ {x} : Kept(y) /\ Same(y)
  BY <1>1, <1>5 DEF Kept, NoCrossingKept, CrossingKept, RecordKept, Same, NoCrossing,
                    Crossing, Recorded
<1>10. Kept(x)
  BY <1>4, <1>5 DEF Kept, RecordKept, NoCrossingKept, CrossingKept, Recorded, NoCrossing, Crossing
<1> QED BY <1>1, <1>7, <1>8, <1>9, <1>10

(* A barrier, and a crash, only narrow what is left to what is seen.       *)
LEMMA NarrowedKeeps ==
  ASSUME DirTyped, NEW m \in [Exchange -> Marker], NEW r \in SUBSET Exchange,
         \A x \in Exchange : /\ m[x] \in onDisk[x].markers
                             /\ Recorded(x) => x \in r,
         marker' = m, record' = r, onDisk' = Exactly(m, r)
  PROVE  /\ DirTyped' /\ Visible' /\ \A y \in Exchange : Kept(y)
         /\ \A y \in Exchange : /\ marker'[y] = "pending" => Crossing(y)'
                                /\ marker'[y] # "pending" => NoCrossing(y)'
                                /\ y \in record' => Recorded(y)'
<1>1. \A y \in Exchange :
        /\ onDisk'[y].markers = {m[y]}
        /\ onDisk'[y].records = IF y \in r THEN {TRUE} ELSE {FALSE}
  BY DEF Exactly
<1>2. \A y \in Exchange :
        /\ onDisk'[y].records # {}
        /\ y \in r <=> onDisk'[y].records \subseteq {TRUE}
  BY <1>1
<1>3. DirTyped'
  BY DEF DirTyped, Exactly
<1>4. Visible'
  BY <1>1, <1>2 DEF Visible
<1>5. \A y \in Exchange : /\ marker'[y] = "pending" => Crossing(y)'
                          /\ marker'[y] # "pending" => NoCrossing(y)'
                          /\ y \in record' => Recorded(y)'
  <2> SUFFICES ASSUME NEW y \in Exchange
               PROVE  /\ m[y] = "pending" => Crossing(y)'
                      /\ m[y] # "pending" => NoCrossing(y)'
                      /\ y \in r => Recorded(y)'
    OBVIOUS
  <2>1. y \in r => Recorded(y)'
    BY <1>2 DEF Recorded
  <2>2. m[y] = "pending" => Crossing(y)'
    BY <1>1 DEF Crossing
  <2>3. m[y] # "pending" => NoCrossing(y)'
    BY <1>1 DEF NoCrossing
  <2> QED BY <2>1, <2>2, <2>3
<1>6. \A y \in Exchange : NoCrossingKept(y) /\ CrossingKept(y)
  BY <1>1 DEF NoCrossingKept, CrossingKept, Crossing, NoCrossing
<1>7. \A y \in Exchange : RecordKept(y)
  <2> SUFFICES ASSUME NEW y \in Exchange, Recorded(y) PROVE Recorded(y)'
    BY DEF RecordKept
  <2> QED BY <1>5
<1> QED BY <1>3, <1>4, <1>5, <1>6, <1>7 DEF Kept

(* sync_root: when it held, what is seen is what is left.                  *)
LEMMA SyncRootKeeps ==
  ASSUME DirTyped, Visible, NEW held \in BOOLEAN, SyncRoot(held)
  PROVE  /\ DirTyped' /\ Visible' /\ \A y \in Exchange : Kept(y) /\ Same(y)
         /\ held => \A y \in Exchange : /\ marker[y] = "pending" => Crossing(y)'
                                        /\ marker[y] # "pending" => NoCrossing(y)'
                                        /\ y \in record => Recorded(y)'
<1>1. marker' = marker /\ record' = record
  BY DEF SyncRoot
<1>2. CASE held
  <2>1. onDisk' = Exactly(marker, record)
    BY <1>2 DEF SyncRoot, Durable
  <2>2. /\ DirTyped' /\ Visible' /\ \A y \in Exchange : Kept(y)
        /\ \A y \in Exchange : /\ marker'[y] = "pending" => Crossing(y)'
                               /\ marker'[y] # "pending" => NoCrossing(y)'
                               /\ y \in record' => Recorded(y)'
    BY <1>1, <2>1, NarrowedKeeps DEF Visible, DirTyped, Recorded
  <2> QED BY <1>1, <2>2 DEF Same
<1>3. CASE ~held
  <2>1. UNCHANGED dirVars
    BY <1>1, <1>3 DEF SyncRoot, dirVars
  <2> QED BY <1>3, <2>1, DirUntouched
<1> QED BY <1>2, <1>3

(* What an exchange is owed survives a change that keeps what the          *)
(* directory said of it.                                                   *)
LEMMA KeptOwed ==
  ASSUME NEW y \in Exchange, Owed(y), Unmoved(y), Kept(y) PROVE Owed(y)'
BY DEF Owed, Standing, AckMeans, Truth, Awaiting, Unmoved, Kept, NoCrossingKept,
       CrossingKept, RecordKept

-----------------------------------------------------------------------------
(* The steps of the writer.                                                *)
LEMMA DrainKeeps == ASSUME IInv, Drain PROVE IInv'
<1> DEFINE j == Head(queue)
<1>1. /\ queue \in Seq(Job) /\ batch \in Seq(Job) /\ Len(queue) \in Nat /\ Len(batch) \in Nat
      /\ \A i \in 1 .. Len(queue) : queue[i] \in Job /\ queue[i].x \in Exchange
      /\ \A i \in 1 .. Len(batch) : batch[i] \in Job /\ batch[i].x \in Exchange
  BY JobsTyped DEF IInv
<1>2. /\ j = queue[1] /\ j \in Job /\ Len(queue) \in Nat \ {0}
      /\ queue' \in Seq(Job) /\ Len(queue') = Len(queue) - 1
      /\ \A i \in 1 .. Len(queue) - 1 : queue'[i] = queue[i + 1]
  BY <1>1, Popped DEF Drain
<1> HIDE DEF j
<1>3. /\ batch' \in Seq(Job) /\ Len(batch') = Len(batch) + 1
      /\ \A i \in 1 .. Len(batch) : batch'[i] = batch[i]
      /\ batch'[Len(batch) + 1] = j
  BY <1>1, <1>2, Appended DEF Drain, j
<1>4. /\ phase' = "drain" /\ acted = <<>> /\ acted' = <<>> /\ Len(acted') = 0
      /\ UNCHANGED <<callerVars, ack, barrier, dirVars, sent, full>>
  BY DEF Drain, IInv, Shape
<1>5. TypeOK'
  <2>1. Len(batch') <= MAX_WRITE_BATCH
    BY <1>1, <1>3, RetentionAssumption DEF Drain, IInv, Shape, TypeOK, RetentionAssumption
  <2>2. Len(queue') <= write_queue_capacity(MAX_RESERVATIONS)
    BY <1>1, <1>2, RetentionAssumption DEF IInv, TypeOK, write_queue_capacity, RetentionAssumption
  <2>3. /\ acted' \in Seq({"changed", "same", "failed", "withdrawn", "stuck"})
        /\ Len(acted') <= Len(batch')
    BY <1>1, <1>3, <1>4
  <2> QED BY <1>2, <1>3, <1>4, <2>1, <2>2, <2>3 DEF IInv, TypeOK, callerVars, dirVars
<1>6. Shape' /\ Visible'
  BY <1>4 DEF IInv, Shape, Visible, dirVars
<1>7. ActedMeans'
  BY <1>4 DEF ActedMeans
<1>8. /\ 1 \in 1 .. Len(queue)
      /\ \A i \in 1 .. Len(queue') : /\ i + 1 \in 1 .. Len(queue) /\ i + 1 # 1
                                     /\ queue'[i] = queue[i + 1]
      /\ \A i \in 1 .. Len(batch') : \/ i \in 1 .. Len(batch) /\ batch'[i] = batch[i]
                                     \/ i = Len(batch) + 1 /\ batch'[i] = queue[1]
  BY <1>1, <1>2, <1>3
<1>9. \A i, k \in 1 .. Len(queue') : i + 1 = k + 1 => i = k
  BY <1>2
<1>10. Fitting'
  <2>1. \A k \in Job : Fits(k) => Fits(k)'
    BY <1>4 DEF Fits, callerVars
  <2>2. \A i \in 1 .. Len(queue') : queue'[i] \in Job /\ (Accounted(queue'[i]) => Fits(queue'[i]))
    BY <1>1, <1>8 DEF IInv, Fitting
  <2>3. \A i \in 1 .. Len(batch') : batch'[i] \in Job /\ (Accounted(batch'[i]) => Fits(batch'[i]))
    BY <1>1, <1>8 DEF IInv, Fitting
  <2> QED BY <2>1, <2>2, <2>3 DEF Fitting
<1>11. Single'
  <2>1. \A i, k \in 1 .. Len(queue') : Rival(queue'[i], queue'[k]) => i = k
    BY <1>8, <1>9 DEF IInv, Single
  <2>2. \A i, k \in 1 .. Len(batch') : Rival(batch'[i], batch'[k]) => i = k
    BY <1>8 DEF IInv, Single, Rival
  <2>3. \A i \in 1 .. Len(batch'), k \in 1 .. Len(queue') : ~Rival(batch'[i], queue'[k])
    BY <1>8 DEF IInv, Single
  <2> QED BY <2>1, <2>2, <2>3 DEF Single, Rival
<1>12. Untouched'
  <2>1. \A y : NoCrossing(y)' <=> NoCrossing(y)
    BY <1>4 DEF NoCrossing, dirVars
  <2>2. \A i \in 1 .. Len(batch) : i > Len(acted)
    BY <1>1, <1>4
  <2> QED BY <1>8, <2>1, <2>2 DEF IInv, Untouched
<1>13. \A y \in Exchange : Owed(y)'
  BY <1>4 DEF IInv, Owed, Standing, AckMeans, Truth, Awaiting, NoCrossing, Crossing, Recorded,
              callerVars, dirVars
<1> QED BY <1>5, <1>6, <1>7, <1>10, <1>11, <1>12, <1>13 DEF IInv

(* write_loop stops taking jobs.                                           *)
LEMMA DrainedKeeps == ASSUME IInv, Drained PROVE IInv'
<1>1. /\ phase = "drain" /\ phase' = "act" /\ acted = <<>>
      /\ UNCHANGED <<callerVars, ack, queue, batch, acted, barrier, dirVars, sent, full>>
  BY DEF Drained, IInv, Shape
<1>2. TypeOK' /\ Shape' /\ Visible'
  BY <1>1 DEF IInv, TypeOK, Shape, Visible, callerVars, dirVars
<1>3. Fitting' /\ Single'
  BY <1>1 DEF IInv, Fitting, Fits, Single, callerVars
<1>4. Untouched' /\ ActedMeans'
  BY <1>1 DEF IInv, Untouched, ActedMeans, NoCrossing, dirVars
<1>5. \A y \in Exchange : Owed(y)'
  BY <1>1 DEF IInv, Owed, Standing, AckMeans, Truth, Awaiting, NoCrossing, Crossing, Recorded,
              callerVars, dirVars
<1> QED BY <1>2, <1>3, <1>4, <1>5 DEF IInv

(* What the writer leaves alone while it works on a batch.                 *)
Working == UNCHANGED <<callerVars, ack, queue, batch, sent, full>>

(* The futures stand still meanwhile, and their jobs still fit.            *)
LEMMA WorkingKeeps ==
  ASSUME IInv, Working PROVE Fitting' /\ Single' /\ \A y \in Exchange : Unmoved(y)
<1>1. Fitting' /\ Single'
  BY DEF Working, IInv, Fitting, Fits, Single, callerVars
<1>2. \A y \in Exchange : Unmoved(y)
  BY DEF Working, Unmoved, callerVars
<1> QED BY <1>1, <1>2

(* The types, while the writer works on a batch.                           *)
LEMMA WorkingTyped ==
  ASSUME IInv, Working, DirTyped', barrier' \in BOOLEAN,
         phase' \in {"act", "barrier", "withdraw", "settle"},
         acted' \in Seq({"changed", "same", "failed", "withdrawn", "stuck"}),
         Len(acted') <= Len(batch)
  PROVE  TypeOK'
BY DEF Working, IInv, TypeOK, DirTyped, callerVars

(* A commit not acted on is still untouched where no crossing is made.     *)
LEMMA UntouchedKept ==
  ASSUME IInv, Working, Len(acted') \in Nat, Len(acted') >= Len(acted),
         \A y \in Exchange : NoCrossingKept(y)
  PROVE  Untouched'
<1>1. /\ \A i \in 1 .. Len(queue) : queue[i].x \in Exchange
      /\ \A i \in 1 .. Len(batch) : batch[i].x \in Exchange
  BY JobsTyped DEF IInv
<1>2. Len(acted) \in Nat /\ Len(batch) \in Nat
  BY JobsTyped DEF IInv, TypeOK
<1> QED BY <1>1, <1>2 DEF Working, IInv, Untouched, NoCrossingKept

(* The batch's positions, and the one job of an exchange among them.       *)
LEMMA OneOfMany ==
  ASSUME IInv, NEW n \in 1 .. Len(batch), Accounted(batch[n])
  PROVE  /\ \A i \in 1 .. Len(batch) \ {n} : Accounted(batch[i]) => batch[i].x # batch[n].x
         /\ \A i \in 1 .. Len(queue) : Accounted(queue[i]) => queue[i].x # batch[n].x
BY DEF IInv, Single, Rival

Gently(y) == Kept(y) /\ (marker'[y] = "pending" <=> marker[y] = "pending")
             /\ (y \in record => y \in record')

JobMeans(job, result) ==
  /\ result = "same" => job.kind = "Rescind"
  /\ result = "withdrawn" => phase \in {"withdraw", "settle"}
  /\ job.kind = "Commit" => CommitMeans(job.x, result)
  /\ job.kind = "Publish" => PublishMeans(job.x, result)

(* ActedMeans, job by job.                                                 *)
LEMMA JobsMean == ActedMeans <=> \A i \in 1 .. Len(acted) : JobMeans(batch[i], acted[i])
BY DEF ActedMeans, JobMeans

(* A job acted on, or withdrawn, disturbs no other.                        *)
LEMMA OneJob ==
  ASSUME IInv, Working, NEW n \in 1 .. Len(batch), NEW j, j = batch[n], n \in 1 .. Len(acted'),
         phase' = phase, phase \in {"act", "withdraw"}, barrier' = barrier,
         acted' \in Seq({"changed", "same", "failed", "withdrawn", "stuck"}),
         Len(acted') \in Nat, Len(acted') <= Len(batch), Len(acted') >= Len(acted),
         phase = "withdraw" => Len(acted') = Len(batch),
         \A i \in 1 .. Len(acted') \ {n} : i \in 1 .. Len(acted) /\ acted'[i] = acted[i],
         DirTyped', Visible',
         \A y \in Exchange \ {j.x} : Kept(y) /\ Same(y),
         Accounted(j) \/ Gently(j.x),
         Owed(j.x)', JobMeans(j, acted[n])'
  PROVE  IInv'
<1>1. /\ \A i \in 1 .. Len(queue) : queue[i] \in Job /\ queue[i].x \in Exchange
      /\ \A i \in 1 .. Len(batch) : batch[i] \in Job /\ batch[i].x \in Exchange
      /\ Len(queue) \in Nat /\ Len(batch) \in Nat /\ Len(acted) \in Nat
  BY JobsTyped DEF IInv, TypeOK
<1>2. queue' = queue /\ batch' = batch
  BY DEF Working
<1>3. TypeOK' /\ Shape' /\ Fitting' /\ Single' /\ \A y \in Exchange : Unmoved(y)
  <2>1. TypeOK'
    BY WorkingTyped DEF IInv, TypeOK
  <2>2. Shape'
    BY <1>2 DEF IInv, Shape
  <2> QED BY <2>1, <2>2, WorkingKeeps
<1>4. /\ \A i \in 1 .. Len(queue) : queue[i].kind = "Commit" => NoCrossingKept(queue[i].x)
      /\ \A i \in 1 .. Len(batch) \ {n} : batch[i].kind = "Commit" => NoCrossingKept(batch[i].x)
  <2>1. CASE Accounted(j)
    BY <1>1, <2>1, OneOfMany DEF Accounted, Kept
  <2>2. CASE Gently(j.x)
    BY <1>1, <2>2 DEF Gently, Kept
  <2> QED BY <2>1, <2>2
<1>5. Untouched'
  BY <1>1, <1>2, <1>4 DEF IInv, Untouched, NoCrossingKept
<1>6. ASSUME NEW i \in 1 .. Len(acted'), i # n PROVE JobMeans(batch[i], acted[i])'
  <2>1. i \in 1 .. Len(acted) /\ acted'[i] = acted[i] /\ i \in 1 .. Len(batch) \ {n}
    BY <1>1, <1>6
  <2>2. JobMeans(batch[i], acted[i])
    BY <2>1, JobsMean DEF IInv
  <2>3. Accounted(batch[i]) => Gently(batch[i].x)
    <3>1. CASE Accounted(j) /\ Accounted(batch[i])
      BY <1>1, <2>1, <3>1, OneOfMany DEF Gently, Same
    <3>2. CASE Gently(j.x)
      BY <1>1, <2>1, <3>2 DEF Gently, Same
    <3> QED BY <3>1, <3>2
  <2> DEFINE y == batch[i].x
  <2>4. batch[i].kind = "Commit" => CommitMeans(y, acted[i])'
    BY <1>2, <2>1, <2>2, <2>3 DEF JobMeans, CommitMeans, Gently, Kept, NoCrossingKept, Accounted
  <2>5. batch[i].kind = "Publish" => PublishMeans(y, acted[i])'
    BY <1>2, <2>1, <2>2, <2>3 DEF JobMeans, PublishMeans, Gently, Kept, Accounted
  <2> QED BY <1>2, <2>1, <2>2, <2>4, <2>5 DEF JobMeans
<1>7. ActedMeans'
  <2>1. \A i \in 1 .. Len(acted') : JobMeans(batch[i], acted[i])'
    BY <1>2, <1>6
  <2> QED BY <2>1 DEF ActedMeans, JobMeans
<1>8. \A y \in Exchange : Owed(y)'
  <2>1. ASSUME NEW y \in Exchange \ {j.x} PROVE Owed(y)'
    BY <1>3, KeptOwed DEF IInv
  <2> QED BY <2>1
<1> QED BY <1>3, <1>5, <1>7, <1>8 DEF IInv

(* The directory's part of the invariant.                                  *)
LEMMA DirOf == ASSUME IInv PROVE DirTyped /\ Visible
BY DEF IInv, TypeOK, DirTyped

(* What an exchange is owed while the writer has its job.                  *)
LEMMA OwedInBatch ==
  ASSUME IInv, NEW n \in 1 .. Len(batch), NEW j, j = batch[n], Accounted(j), Unmoved(j.x),
         RecordKept(j.x),
         j.kind \in {"PublishOrWithdraw", "Publish"} => NoCrossingKept(j.x),
         j.kind = "Publish" => CrossingKept(j.x)
  PROVE  Owed(j.x)'
<1>1. j.x \in Exchange /\ j \in Job
  BY JobsTyped DEF IInv
<1>2. /\ ack[j.x] = "none" /\ stage[j.x] \in {AwaitedIn(j.kind), "over"}
      /\ told[j.x] # "NothingExecuted" /\ (j.kind # "Publish" => j.x \notin sent)
  BY DEF IInv, Fitting, Fits
<1>3. Owed(j.x)
  BY <1>1 DEF IInv
<1>4. CASE j.kind = "PublishOrWithdraw"
  BY <1>2, <1>3, <1>4 DEF Owed, Standing, AckMeans, Truth, Unmoved, AwaitedIn, RecordKept,
                          NoCrossingKept
<1>5. CASE j.kind = "Commit"
  BY <1>2, <1>3, <1>5 DEF Owed, Standing, AckMeans, Truth, Unmoved, AwaitedIn, RecordKept
<1>6. CASE j.kind = "Publish"
  BY <1>1, <1>3, <1>6, KeptOwed DEF Kept
<1> QED BY <1>1, <1>4, <1>5, <1>6 DEF Job, JobKind, Accounted

(* act: the filesystem action of the batch's next job.                     *)
LEMMA ActOneKeeps ==
  ASSUME IInv, NEW result \in {"changed", "same", "failed"}, phase = "act", phase' = "act",
         Len(acted) # Len(batch), Acted(batch[Len(acted) + 1], result),
         acted' = Append(acted, result), barrier' = barrier, Working
  PROVE  IInv'
<1> DEFINE n == Len(acted) + 1
           j == batch[n]
<1>1. /\ acted \in Seq({"changed", "same", "failed", "withdrawn", "stuck"})
      /\ Len(acted) \in Nat /\ Len(batch) \in Nat /\ Len(acted) <= Len(batch)
  BY JobsTyped DEF IInv, TypeOK
<1>2. n \in 1 .. Len(batch) /\ n > Len(acted)
  BY <1>1
<1>3. j \in Job /\ j.x \in Exchange
  BY <1>2, JobsTyped DEF IInv
<1>4. /\ acted' \in Seq({"changed", "same", "failed", "withdrawn", "stuck"})
      /\ Len(acted') = Len(acted) + 1 /\ acted'[n] = result
      /\ \A i \in 1 .. Len(acted) : acted'[i] = acted[i]
  BY <1>1, Appended
<1>5. /\ Len(acted') \in Nat /\ Len(acted') <= Len(batch) /\ Len(acted') >= Len(acted)
      /\ n \in 1 .. Len(acted')
      /\ \A i \in 1 .. Len(acted') \ {n} : i \in 1 .. Len(acted) /\ acted'[i] = acted[i]
  BY <1>1, <1>2, <1>4
<1>6. j.kind = "Commit" => NoCrossing(j.x)
  BY <1>2 DEF IInv, Untouched
<1>7. Owed(j.x) /\ Unmoved(j.x) /\ DirTyped /\ Visible
  BY <1>3, WorkingKeeps, DirOf DEF IInv
<1>8. PICK k : k = j
  OBVIOUS
<1>9. PICK p : p = n
  OBVIOUS
<1> HIDE DEF n, j
<1>10. SUFFICES /\ DirTyped' /\ Visible'
                /\ \A y \in Exchange \ {k.x} : Kept(y) /\ Same(y)
                /\ Accounted(k) \/ Gently(k.x)
                /\ Owed(k.x)' /\ JobMeans(k, result)'
  <2>1. p \in 1 .. Len(batch) /\ k = batch[p] /\ p \in 1 .. Len(acted')
    BY <1>2, <1>5, <1>8, <1>9 DEF j
  <2>2. \A i \in 1 .. Len(acted') \ {p} : i \in 1 .. Len(acted) /\ acted'[i] = acted[i]
    BY <1>5, <1>9
  <2>3. acted'[p] = result
    BY <1>4, <1>9
  <2>4. JobMeans(k, acted[p])'
    BY <1>10, <2>3 DEF JobMeans
  <2> QED BY <1>4, <1>5, <1>10, <2>1, <2>2, <2>4, OneJob
<1>11. /\ k \in Job /\ k.x \in Exchange /\ k = batch[p] /\ p \in 1 .. Len(batch)
       /\ k.kind = "Commit" => NoCrossing(k.x)
       /\ Owed(k.x) /\ Unmoved(k.x) /\ DirTyped /\ Visible
  BY <1>2, <1>3, <1>6, <1>7, <1>8, <1>9 DEF j
<1>12. Acted(k, result)
  BY <1>8 DEF j, n
<1>13. Accounted(k) /\ RecordKept(k.x)
         /\ (k.kind \in {"PublishOrWithdraw", "Publish"} => NoCrossingKept(k.x))
         /\ (k.kind = "Publish" => CrossingKept(k.x)) => Owed(k.x)'
  BY <1>11, OwedInBatch
<1>14. CASE result = "failed" /\ UNCHANGED dirVars
  <2>1. DirTyped' /\ Visible' /\ \A y \in Exchange : Kept(y) /\ Same(y)
    BY <1>11, <1>14, DirUntouched
  <2>2. Owed(k.x)' /\ Gently(k.x)
    BY <1>11, <2>1, KeptOwed DEF Gently, Same
  <2>3. k.kind = "Commit" => NoCrossing(k.x)'
    BY <1>11, <2>1 DEF Kept, NoCrossingKept
  <2> QED BY <1>14, <2>1, <2>2, <2>3 DEF JobMeans, CommitMeans, PublishMeans
<1>15. CASE k.kind = "PublishOrWithdraw" /\ result = "changed" /\ SetMarker(k.x, "reserved")
  <2>1. /\ DirTyped' /\ Visible' /\ \A y \in Exchange \ {k.x} : Kept(y) /\ Same(y)
        /\ RecordKept(k.x) /\ NoCrossingKept(k.x)
    BY <1>11, <1>15, SetMarkerKeeps DEF Marker
  <2> QED BY <1>13, <1>15, <2>1 DEF JobMeans, Accounted
<1>16. CASE k.kind = "Publish" /\ result = "changed" /\ AddRecord(k.x)
  <2>1. /\ DirTyped' /\ Visible' /\ \A y \in Exchange \ {k.x} : Kept(y) /\ Same(y)
        /\ Kept(k.x) /\ k.x \in record'
    BY <1>11, <1>16, AddRecordKeeps
  <2> QED BY <1>13, <1>16, <2>1 DEF JobMeans, PublishMeans, Accounted, Kept
<1>17. CASE k.kind = "Commit" /\ result = "changed" /\ SetMarker(k.x, "pending")
  <2>1. /\ DirTyped' /\ Visible' /\ \A y \in Exchange \ {k.x} : Kept(y) /\ Same(y)
        /\ RecordKept(k.x) /\ marker'[k.x] = "pending"
    BY <1>11, <1>17, SetMarkerKeeps DEF Marker
  <2> QED BY <1>13, <1>17, <2>1 DEF JobMeans, CommitMeans, Accounted
<1>18. CASE k.kind = "Rescind" /\ result = "same" /\ UNCHANGED dirVars
  <2>1. DirTyped' /\ Visible' /\ \A y \in Exchange : Kept(y) /\ Same(y)
    BY <1>11, <1>18, DirUntouched
  <2>2. Owed(k.x)' /\ Gently(k.x)
    BY <1>11, <2>1, KeptOwed DEF Gently, Same
  <2> QED BY <1>18, <2>1, <2>2 DEF JobMeans
<1>19. CASE /\ k.kind = "Rescind" /\ result = "same"
            /\ marker[k.x] = "reserved" /\ SetMarker(k.x, "none")
  <2>1. /\ DirTyped' /\ Visible' /\ \A y \in Exchange \ {k.x} : Kept(y) /\ Same(y)
        /\ Kept(k.x) /\ marker'[k.x] = "none" /\ (k.x \in record' <=> k.x \in record)
    BY <1>11, <1>19, SetMarkerKeeps DEF Marker, Kept
  <2>2. Owed(k.x)' /\ Gently(k.x)
    BY <1>11, <1>19, <2>1, KeptOwed DEF Gently
  <2> QED BY <1>19, <2>1, <2>2 DEF JobMeans
<1> QED BY <1>12, <1>14, <1>15, <1>16, <1>17, <1>18, <1>19 DEF Acted

(* act: one job, or on to the barrier.                                     *)
LEMMA ActKeeps == ASSUME IInv, Act PROVE IInv'
<1>1. Working /\ barrier' = barrier /\ phase = "act"
  BY DEF Act, Working
<1>2. CASE Len(acted) = Len(batch) /\ phase' = "barrier" /\ UNCHANGED <<acted, dirVars>>
  <2>1. DirTyped' /\ Visible' /\ \A y \in Exchange : Kept(y) /\ Same(y)
    BY <1>2, DirOf, DirUntouched
  <2>2. Fitting' /\ Single' /\ \A y \in Exchange : Owed(y)'
    BY <1>1, <2>1, WorkingKeeps, KeptOwed DEF IInv
  <2>3. TypeOK'
    BY <1>1, <1>2, <2>1, WorkingTyped DEF IInv, TypeOK
  <2>4. Shape'
    BY <1>1, <1>2 DEF Shape, Working
  <2>5. Untouched' /\ ActedMeans'
    BY <1>1, <1>2 DEF IInv, Untouched, ActedMeans, CommitMeans, PublishMeans, NoCrossing,
                     Working, dirVars
  <2> QED BY <2>1, <2>2, <2>3, <2>4, <2>5 DEF IInv
<1>3. CASE Len(acted) # Len(batch)
  BY <1>1, <1>3, ActOneKeeps DEF Act
<1> QED BY <1>2, <1>3 DEF Act

(* A barrier makes for good what acting on the batch left.                 *)
LEMMA BarrierKeeps == ASSUME IInv, Barrier PROVE IInv'
<1>1. /\ Working /\ phase = "barrier" /\ acted' = acted /\ barrier' \in BOOLEAN
      /\ phase' = (IF barrier' THEN "settle" ELSE "withdraw")
      /\ Len(acted) = Len(batch)
  BY DEF Barrier, Working, IInv, Shape
<1>2. DirTyped /\ Visible
  BY DirOf
<1>3. /\ DirTyped' /\ Visible' /\ \A y \in Exchange : Kept(y) /\ Same(y)
      /\ Published /\ barrier' => \A y \in Exchange : /\ marker[y] = "pending" => Crossing(y)'
                                                      /\ y \in record => Recorded(y)'
  <2>1. CASE Published
    BY <1>1, <1>2, <2>1, SyncRootKeeps DEF Barrier
  <2>2. CASE ~Published
    BY <1>2, <2>2, DirUntouched DEF Barrier
  <2> QED BY <2>1, <2>2
<1>4. Fitting' /\ Single' /\ \A y \in Exchange : Owed(y)'
  BY <1>1, <1>3, WorkingKeeps, KeptOwed DEF IInv
<1>5. TypeOK'
  BY <1>1, <1>3, WorkingTyped DEF IInv, TypeOK
<1>6. Shape'
  <2>1. phase' = "withdraw" => barrier' = FALSE
    BY <1>1
  <2> QED BY <1>1, <2>1 DEF Shape, Working
<1>7. Untouched'
  <2>1. Len(acted') \in Nat /\ Len(acted') >= Len(acted)
    BY <1>1, JobsTyped DEF IInv, TypeOK
  <2> QED BY <1>1, <1>3, <2>1, UntouchedKept DEF Kept
<1>8. ActedMeans'
  <2> SUFFICES ASSUME NEW i \in 1 .. Len(acted) PROVE JobMeans(batch[i], acted[i])'
    BY <1>1 DEF ActedMeans, JobMeans
  <2>1. JobMeans(batch[i], acted[i]) /\ batch[i].x \in Exchange /\ batch' = batch
    BY <1>1, JobsMean, JobsTyped DEF IInv, Working
  <2>2. acted[i] # "withdrawn"
    BY <1>1, <2>1 DEF JobMeans
  <2>3. acted[i] = "changed" => Published
    BY DEF Published
  <2>4. phase' = "settle" => barrier'
    BY <1>1
  <2>5. PICK y \in Exchange : y = batch[i].x
    BY <2>1
  <2>6. acted[i] = "changed" /\ phase' = "settle" =>
          /\ marker[y] = "pending" => Crossing(y)'
          /\ y \in record => Recorded(y)'
    BY <1>3, <2>3, <2>4, <2>5
  <2>7. NoCrossingKept(y) /\ Same(y) /\ acted'[i] = acted[i]
    BY <1>1, <1>3, <2>5 DEF Kept
  <2>8. batch[i].kind = "Commit" => CommitMeans(batch[i].x, acted[i])'
    BY <2>1, <2>2, <2>4, <2>5, <2>6, <2>7 DEF JobMeans, CommitMeans, NoCrossingKept, Same
  <2>9. batch[i].kind = "Publish" => PublishMeans(batch[i].x, acted[i])'
    BY <2>1, <2>5, <2>6, <2>7 DEF JobMeans, PublishMeans, Same
  <2> QED BY <1>1, <2>1, <2>2, <2>8, <2>9 DEF JobMeans
<1> QED BY <1>3, <1>4, <1>5, <1>6, <1>7, <1>8 DEF IInv

(* Taking one publication back.                                            *)
LEMMA WithdrawOneKeeps ==
  ASSUME IInv, phase = "withdraw", phase' = "withdraw", barrier' = barrier, Working,
         ToWithdraw # {}, WithdrawOne
  PROVE  IInv'
<1> DEFINE n == CHOOSE i \in ToWithdraw : \A j \in ToWithdraw : i <= j
<1>1. PICK result \in {"withdrawn", "stuck"} :
        Undo(batch[n], result) /\ acted' = [acted EXCEPT ![n] = result]
  BY DEF WithdrawOne
<1>2. n \in ToWithdraw
  <2>1. ToWithdraw \in SUBSET Nat
    BY DEF ToWithdraw
  <2> QED BY <2>1, FirstOf
<1> HIDE DEF n
<1>3. PICK p, k : p = n /\ k = batch[p]
  OBVIOUS
<1>4. /\ acted \in Seq({"changed", "same", "failed", "withdrawn", "stuck"})
      /\ Len(acted) \in Nat /\ Len(acted) = Len(batch)
  BY DEF IInv, TypeOK, Shape
<1>5. /\ p \in 1 .. Len(batch) /\ p \in 1 .. Len(acted)
      /\ k.kind \in {"PublishOrWithdraw", "Commit"} /\ Accounted(k)
  BY <1>2, <1>3, <1>4 DEF ToWithdraw, IsPreDispatch, Accounted
<1>6. /\ acted' \in Seq({"changed", "same", "failed", "withdrawn", "stuck"})
      /\ Len(acted') = Len(acted) /\ acted'[p] = result
      /\ \A i \in 1 .. Len(acted) \ {p} : acted'[i] = acted[i]
  BY <1>1, <1>3, <1>4, <1>5
<1>7. k.x \in Exchange /\ Owed(k.x) /\ Unmoved(k.x) /\ DirTyped /\ Visible
  BY <1>3, <1>5, JobsTyped, WorkingKeeps, DirOf DEF IInv
<1>8. SUFFICES /\ DirTyped' /\ Visible'
               /\ \A y \in Exchange \ {k.x} : Kept(y) /\ Same(y)
               /\ Owed(k.x)' /\ JobMeans(k, result)'
  <2>1. JobMeans(k, acted[p])'
    BY <1>6, <1>8 DEF JobMeans
  <2>2. /\ p \in 1 .. Len(acted') /\ Len(acted') \in Nat /\ Len(acted') <= Len(batch)
        /\ Len(acted') >= Len(acted) /\ Len(acted') = Len(batch)
        /\ \A i \in 1 .. Len(acted') \ {p} : i \in 1 .. Len(acted) /\ acted'[i] = acted[i]
    BY <1>4, <1>5, <1>6
  <2> QED BY <1>3, <1>5, <1>6, <1>8, <2>1, <2>2, OneJob
<1>9. /\ RecordKept(k.x)
      /\ k.kind \in {"PublishOrWithdraw", "Publish"} => NoCrossingKept(k.x)
      => Owed(k.x)'
  BY <1>3, <1>5, <1>7, OwedInBatch
<1>10. Undo(k, result)
  BY <1>1, <1>3
<1>11. CASE result = "stuck" /\ UNCHANGED dirVars
  <2>1. DirTyped' /\ Visible' /\ \A y \in Exchange : Kept(y) /\ Same(y)
    BY <1>7, <1>11, DirUntouched
  <2>2. Owed(k.x)'
    BY <1>7, <2>1, KeptOwed
  <2> QED BY <1>11, <2>1, <2>2 DEF JobMeans, CommitMeans, PublishMeans
<1>12. CASE /\ result = "withdrawn" /\ k.kind = "PublishOrWithdraw" /\ SetMarker(k.x, "none")
  <2>1. /\ DirTyped' /\ Visible' /\ \A y \in Exchange \ {k.x} : Kept(y) /\ Same(y)
        /\ RecordKept(k.x) /\ NoCrossingKept(k.x)
    BY <1>7, <1>12, SetMarkerKeeps DEF Marker
  <2> QED BY <1>9, <1>12, <2>1 DEF JobMeans
<1>13. CASE /\ result = "withdrawn" /\ k.kind = "Commit" /\ SetMarker(k.x, "reserved")
  <2>1. /\ DirTyped' /\ Visible' /\ \A y \in Exchange \ {k.x} : Kept(y) /\ Same(y)
        /\ RecordKept(k.x) /\ marker'[k.x] = "reserved"
    BY <1>7, <1>13, SetMarkerKeeps DEF Marker
  <2> QED BY <1>9, <1>13, <2>1 DEF JobMeans, CommitMeans
<1> QED BY <1>10, <1>11, <1>12, <1>13 DEF Undo

(* One more barrier, over what was taken back.                             *)
LEMMA WithdrawnKeeps ==
  ASSUME IInv, phase = "withdraw", phase' = "settle", barrier' = barrier, Working,
         ToWithdraw = {}, WithdrawalBarrier
  PROVE  IInv'
<1>1. /\ acted \in Seq({"changed", "same", "failed", "withdrawn", "stuck"})
      /\ Len(acted) \in Nat /\ Len(acted) = Len(batch) /\ barrier' = FALSE
  BY DEF IInv, TypeOK, Shape
<1>2. DirTyped /\ Visible
  BY DirOf
<1>3. /\ acted' \in Seq({"changed", "same", "failed", "withdrawn", "stuck"})
      /\ Len(acted') = Len(acted)
      /\ \A i \in 1 .. Len(acted) : acted'[i] = acted[i] \/ acted'[i] = "stuck"
      /\ DirTyped' /\ Visible' /\ \A y \in Exchange : Kept(y) /\ Same(y)
      /\ \A i \in 1 .. Len(acted) : acted'[i] = "withdrawn" =>
           \A y \in Exchange : marker[y] # "pending" => NoCrossing(y)'
  <2>1. CASE ~AnyWithdrawal
    <3>1. acted' = acted /\ UNCHANGED dirVars /\ \A i \in 1 .. Len(acted) : acted[i] # "withdrawn"
      BY <2>1 DEF WithdrawalBarrier, AnyWithdrawal
    <3> QED BY <1>1, <1>2, <3>1, DirUntouched
  <2>2. CASE AnyWithdrawal
    <3>1. PICK held \in BOOLEAN :
            /\ SyncRoot(held)
            /\ acted' = [i \in 1 .. Len(acted) |->
                           IF acted[i] = "withdrawn" /\ ~held THEN "stuck" ELSE acted[i]]
      BY <2>2 DEF WithdrawalBarrier
    <3>2. \A i \in 1 .. Len(acted) :
            acted[i] \in {"changed", "same", "failed", "withdrawn", "stuck"}
      BY <1>1
    <3>3. /\ acted' \in Seq({"changed", "same", "failed", "withdrawn", "stuck"})
          /\ Len(acted') = Len(acted)
      BY <1>1, <3>1, <3>2
    <3>4. \A i \in 1 .. Len(acted) : /\ acted'[i] = acted[i] \/ acted'[i] = "stuck"
                                     /\ acted'[i] = "withdrawn" => held
      BY <3>1
    <3> QED BY <1>2, <3>1, <3>3, <3>4, SyncRootKeeps
  <2> QED BY <2>1, <2>2
<1>4. Fitting' /\ Single' /\ \A y \in Exchange : Owed(y)'
  BY <1>3, WorkingKeeps, KeptOwed DEF IInv
<1>5. TypeOK'
  <2>1. barrier' \in BOOLEAN
    BY DEF IInv, TypeOK
  <2>2. Len(acted') <= Len(batch)
    BY <1>1, <1>3
  <2> QED BY <1>3, <2>1, <2>2, WorkingTyped
<1>6. Shape'
  BY <1>1, <1>3 DEF Shape, Working
<1>7. Untouched'
  BY <1>1, <1>3, UntouchedKept DEF Kept
<1>8. ActedMeans'
  <2> SUFFICES ASSUME NEW i \in 1 .. Len(acted) PROVE JobMeans(batch[i], acted[i])'
    BY <1>3 DEF ActedMeans, JobMeans
  <2>1. JobMeans(batch[i], acted[i]) /\ batch[i].x \in Exchange /\ batch' = batch
    BY <1>1, JobsMean, JobsTyped DEF IInv, Working
  <2>2. batch[i].kind = "Commit" => acted'[i] # "changed"
    BY <1>1, <1>3 DEF ToWithdraw, IsPreDispatch
  <2> DEFINE y == batch[i].x
  <2>3. batch[i].kind = "Commit" => CommitMeans(y, acted[i])'
    BY <1>3, <2>1, <2>2 DEF JobMeans, CommitMeans, Kept, NoCrossingKept, Same
  <2>4. batch[i].kind = "Publish" => PublishMeans(y, acted[i])'
    BY <1>1, <1>3, <2>1 DEF JobMeans, PublishMeans, Same
  <2> QED BY <1>3, <2>1, <2>3, <2>4 DEF JobMeans
<1> QED BY <1>3, <1>4, <1>5, <1>6, <1>7, <1>8 DEF IInv

(* withdraw: one job, or on to the second barrier.                         *)
LEMMA WithdrawKeeps == ASSUME IInv, Withdraw PROVE IInv'
BY WithdrawOneKeeps, WithdrawnKeeps DEF Withdraw, Working

(* What resolving a job established.                                       *)
LEMMA OutcomeMeans ==
  ASSUME NEW result \in {"changed", "same", "failed", "withdrawn", "stuck"}
  PROVE  /\ Outcome(result) \in Ack
         /\ Outcome(result) = "ok" => result \in {"changed", "same"} /\ barrier
         /\ Outcome(result) = "NotPublished" =>
              result \in {"failed", "withdrawn"} \/ (result \in {"changed", "same"} /\ ~barrier)
<1>1. CASE barrier
  BY <1>1 DEF Outcome, Ack
<1>2. CASE ~barrier
  BY <1>2 DEF Outcome, Ack
<1> QED BY <1>1, <1>2

(* settle: the first job is resolved, and its future answered.             *)
LEMMA SettleOneKeeps ==
  ASSUME IInv, phase = "settle", batch # <<>>, NEW outcome,
         outcome = Outcome(Head(acted)),
         ClearMarkerOf(Head(batch), outcome), SendAck(Head(batch), outcome),
         batch' = Tail(batch), acted' = Tail(acted),
         UNCHANGED <<phase, callerVars, queue, barrier, sent, full>>
  PROVE  IInv'
<1> DEFINE Results == {"changed", "same", "failed", "withdrawn", "stuck"}
<1>1. /\ queue \in Seq(Job) /\ batch \in Seq(Job) /\ acted \in Seq(Results)
      /\ Len(queue) \in Nat /\ Len(batch) \in Nat /\ Len(acted) = Len(batch) /\ acted # <<>>
      /\ \A i \in 1 .. Len(queue) : queue[i] \in Job /\ queue[i].x \in Exchange
      /\ \A i \in 1 .. Len(batch) : batch[i] \in Job /\ batch[i].x \in Exchange
  BY JobsTyped DEF IInv, TypeOK, Shape
<1>2. PICK k, result : k = Head(batch) /\ result = Head(acted)
  OBVIOUS
<1>3. /\ k = batch[1] /\ k \in Job /\ Len(batch) \in Nat \ {0}
      /\ batch' \in Seq(Job) /\ Len(batch') = Len(batch) - 1
      /\ \A i \in 1 .. Len(batch) - 1 : batch'[i] = batch[i + 1]
  BY <1>1, <1>2, Popped
<1>4. /\ result = acted[1] /\ result \in Results
      /\ acted' \in Seq(Results) /\ Len(acted') = Len(acted) - 1
      /\ \A i \in 1 .. Len(acted) - 1 : acted'[i] = acted[i + 1]
  BY <1>1, <1>2, Popped
<1>5. /\ 1 \in 1 .. Len(batch) /\ Len(acted') = Len(batch')
      /\ \A i \in 1 .. Len(batch') :
           /\ i + 1 \in 1 .. Len(batch) \ {1} /\ i + 1 \in 1 .. Len(acted)
           /\ batch'[i] = batch[i + 1] /\ acted'[i] = acted[i + 1]
      /\ \A i, n \in 1 .. Len(batch') : i + 1 = n + 1 => i = n
  BY <1>1, <1>3, <1>4
<1>6. k.x \in Exchange /\ Owed(k.x) /\ DirTyped /\ Visible /\ JobMeans(k, result)
  <2>1. 1 \in 1 .. Len(acted)
    BY <1>1, <1>3
  <2> QED BY <1>1, <1>3, <1>4, <1>5, <2>1, DirOf, JobsMean DEF IInv
<1>7. /\ outcome \in Ack
      /\ outcome = "ok" => result \in {"changed", "same"} /\ barrier
      /\ outcome = "NotPublished" =>
           result \in {"failed", "withdrawn"} \/ (result \in {"changed", "same"} /\ ~barrier)
  BY <1>2, <1>4, OutcomeMeans
<1>8. /\ Accounted(k) => /\ \A i \in 1 .. Len(batch) \ {1} : Accounted(batch[i]) => batch[i].x # k.x
                         /\ \A i \in 1 .. Len(queue) : Accounted(queue[i]) => queue[i].x # k.x
      /\ Accounted(k) => Fits(k)
  BY <1>3, <1>5, OneOfMany DEF IInv, Fitting
<1>9. /\ ack' \in [Exchange -> Ack] /\ \A y \in Exchange \ {k.x} : Unmoved(y)
      /\ ack'[k.x] = IF Accounted(k) /\ Awaiting(k.x) THEN outcome ELSE ack[k.x]
  BY <1>2, <1>6, <1>7 DEF SendAck, Unmoved, IInv, TypeOK, callerVars
<1>10. /\ DirTyped' /\ Visible' /\ \A y \in Exchange \ {k.x} : Kept(y) /\ Same(y)
       /\ RecordKept(k.x) /\ NoCrossingKept(k.x)
       /\ k.kind # "Publish" => Kept(k.x) /\ Same(k.x)
       /\ Crossing(k.x) /\ ~Crossing(k.x)' => k.kind = "Publish" /\ outcome = "ok"
  <2>1. CASE UNCHANGED dirVars
    BY <1>6, <2>1, DirUntouched DEF Kept, CrossingKept
  <2>2. CASE k.kind = "Publish" /\ outcome = "ok" /\ SetMarker(k.x, "none")
    BY <1>6, <2>2, SetMarkerKeeps DEF Marker
  <2> QED BY <1>2, <2>1, <2>2 DEF ClearMarkerOf
<1>11. TypeOK'
  <2>1. Len(batch') <= MAX_WRITE_BATCH /\ Len(acted') <= Len(batch')
    BY <1>3, <1>5, RetentionAssumption DEF IInv, TypeOK, RetentionAssumption
  <2>2. /\ stage' \in [Exchange -> Stage] /\ told' \in [Exchange -> Told]
        /\ queue' \in Seq(Job) /\ Len(queue') <= write_queue_capacity(MAX_RESERVATIONS)
        /\ phase' \in {"idle", "drain", "act", "barrier", "withdraw", "settle", "stopped"}
        /\ barrier' \in BOOLEAN /\ sent' \subseteq Exchange /\ full' \subseteq Exchange
    BY DEF IInv, TypeOK, callerVars
  <2> QED BY <1>3, <1>4, <1>9, <1>10, <2>1, <2>2 DEF TypeOK, DirTyped
<1>12. Shape'
  BY <1>5 DEF IInv, Shape
<1>13. Fitting'
  <2>1. ASSUME NEW j \in Job, j.x # k.x \/ ~Accounted(k), Fits(j) PROVE Fits(j)'
    <3>1. j.x \in Exchange
      BY DEF Job
    <3>2. Unmoved(j.x)
      BY <1>9, <2>1, <3>1 DEF Unmoved, callerVars
    <3> QED BY <2>1, <3>2 DEF Fits, Unmoved
  <2>2. \A i \in 1 .. Len(queue) : Accounted(queue[i]) => Fits(queue[i])'
    BY <1>1, <1>8, <2>1 DEF IInv, Fitting
  <2>3. \A i \in 1 .. Len(batch) \ {1} : Accounted(batch[i]) => \A j : j = batch[i] => Fits(j)'
    BY <1>1, <1>8, <2>1 DEF IInv, Fitting
  <2> QED BY <1>5, <2>2, <2>3 DEF Fitting, Accounted
<1>14. Single'
  <2>1. \A i, n \in 1 .. Len(batch') : Rival(batch'[i], batch'[n]) => i = n
    BY <1>5 DEF IInv, Single
  <2>2. \A i \in 1 .. Len(batch'), n \in 1 .. Len(queue) : ~Rival(batch'[i], queue[n])
    BY <1>5 DEF IInv, Single
  <2>3. \A i, n \in 1 .. Len(queue) : Rival(queue[i], queue[n]) => i = n
    BY DEF IInv, Single
  <2> QED BY <2>1, <2>2, <2>3 DEF Single, Rival
<1>15. Untouched'
  <2>1. \A i \in 1 .. Len(queue) : queue[i].kind = "Commit" => NoCrossing(queue[i].x)'
    BY <1>1, <1>10 DEF IInv, Untouched, Kept, NoCrossingKept
  <2>2. \A i \in 1 .. Len(batch') : ~(i > Len(acted'))
    BY <1>3, <1>5
  <2> QED BY <2>1, <2>2 DEF Untouched
<1>16. ActedMeans'
  <2>1. ASSUME NEW j \in Job, NEW r, JobMeans(j, r), Accounted(j) => j.x # k.x \/ ~Accounted(k)
        PROVE  JobMeans(j, r)'
    <3>1. j.x \in Exchange
      BY DEF Job
    <3>2. Accounted(j) => Kept(j.x) /\ Same(j.x)
      BY <1>10, <2>1, <3>1 DEF Accounted
    <3>3. j.kind = "Commit" => CommitMeans(j.x, r)'
      BY <2>1, <3>2 DEF JobMeans, CommitMeans, Kept, NoCrossingKept, CrossingKept, Same, Accounted
    <3>4. j.kind = "Publish" => PublishMeans(j.x, r)'
      BY <2>1, <3>2 DEF JobMeans, PublishMeans, Kept, RecordKept, Same, Accounted
    <3> QED BY <2>1, <3>3, <3>4 DEF JobMeans
  <2>2. ASSUME NEW i \in 1 .. Len(acted') PROVE JobMeans(batch[i], acted[i])'
    <3>1. PICK j, r : j = batch[i + 1] /\ r = acted[i + 1]
      OBVIOUS
    <3>2. i \in 1 .. Len(batch') /\ j \in Job /\ JobMeans(j, r) /\ batch'[i] = j /\ acted'[i] = r
      BY <1>1, <1>5, <2>2, <3>1, JobsMean DEF IInv
    <3>3. Accounted(j) => j.x # k.x \/ ~Accounted(k)
      BY <1>5, <1>8, <3>1, <3>2
    <3>4. JobMeans(j, r)'
      BY <2>1, <3>2, <3>3
    <3> QED BY <3>2, <3>4
  <2> QED BY <2>2 DEF ActedMeans, JobMeans
<1>17. Owed(k.x)'
  <2>1. Standing(k.x)' /\ Truth(k.x)'
    <3>1. k.kind = "Publish" /\ outcome = "ok" => Recorded(k.x)
      BY <1>6, <1>7 DEF JobMeans, PublishMeans
    <3>2. Crossing(k.x) /\ ~Crossing(k.x)' => stage[k.x] \in {"completing", "over"} /\ Recorded(k.x)
      BY <1>8, <1>10, <3>1 DEF Fits, AwaitedIn, Accounted
    <3>3. stage' = stage /\ told' = told /\ sent' = sent
      BY DEF callerVars
    <3> QED BY <1>6, <1>10, <3>2, <3>3 DEF Owed, Standing, Truth, NoCrossingKept, RecordKept
  <2>2. AckMeans(k.x)'
    <3>1. CASE Accounted(k) /\ Awaiting(k.x)
      <4>1. ack'[k.x] = outcome /\ stage[k.x] = AwaitedIn(k.kind) /\ stage' = stage
        BY <1>8, <1>9, <3>1 DEF Fits, Awaiting, callerVars
      <4>2. CASE k.kind = "Commit"
        <5>1. outcome = "ok" => Crossing(k.x)
          BY <1>6, <1>7, <4>2 DEF JobMeans, CommitMeans
        <5>2. outcome = "NotPublished" => NoCrossing(k.x)
          BY <1>6, <1>7, <4>2 DEF JobMeans, CommitMeans
        <5>3. Kept(k.x)
          BY <1>10, <4>2
        <5> QED BY <4>1, <4>2, <5>1, <5>2, <5>3 DEF AckMeans, Awaiting, AwaitedIn, Kept,
                                                  NoCrossingKept, CrossingKept
      <4>3. CASE k.kind = "Publish"
        <5>1. outcome = "ok" => Recorded(k.x)
          BY <1>6, <1>7, <4>3 DEF JobMeans, PublishMeans
        <5> QED BY <1>10, <4>1, <4>3, <5>1 DEF AckMeans, Awaiting, AwaitedIn, RecordKept
      <4>4. CASE k.kind = "PublishOrWithdraw"
        BY <4>1, <4>4 DEF AckMeans, Awaiting, AwaitedIn
      <4> QED BY <1>3, <3>1, <4>2, <4>3, <4>4 DEF Job, JobKind, Accounted
    <3>2. CASE Accounted(k) /\ ~Awaiting(k.x)
      <4>1. ack'[k.x] = "none"
        BY <1>8, <1>9, <3>2 DEF Fits
      <4> QED BY <4>1 DEF AckMeans
    <3>3. CASE ~Accounted(k)
      <4>1. Kept(k.x) /\ Unmoved(k.x)
        BY <1>9, <1>10, <3>3 DEF Accounted, Unmoved, callerVars
      <4> QED BY <1>6, <4>1, KeptOwed DEF Owed
    <3> QED BY <3>1, <3>2, <3>3
  <2> QED BY <2>1, <2>2 DEF Owed
<1>18. \A y \in Exchange : Owed(y)'
  <2>1. ASSUME NEW y \in Exchange, y # k.x PROVE Owed(y)'
    BY <1>9, <1>10, <2>1, KeptOwed DEF IInv
  <2> QED BY <1>17, <2>1
<1> QED BY <1>10, <1>11, <1>12, <1>13, <1>14, <1>15, <1>16, <1>18 DEF IInv

(* settle: one job, or back to the queue.                                  *)
LEMMA SettleKeeps == ASSUME IInv, Settle PROVE IInv'
<1>1. CASE batch = <<>>
  <2>1. /\ phase' = "idle" /\ acted = <<>>
        /\ UNCHANGED <<batch, acted, ack, dirVars, callerVars, queue, barrier, sent, full>>
    BY <1>1 DEF Settle, IInv, TypeOK, Shape
  <2>2. TypeOK' /\ Shape' /\ Visible'
    BY <1>1, <2>1 DEF IInv, TypeOK, Shape, Visible, callerVars, dirVars
  <2>3. Fitting' /\ Single'
    BY <2>1 DEF IInv, Fitting, Fits, Single, callerVars
  <2>4. Untouched' /\ ActedMeans'
    BY <2>1 DEF IInv, Untouched, ActedMeans, NoCrossing, dirVars
  <2>5. \A y \in Exchange : Owed(y)'
    BY <2>1 DEF IInv, Owed, Standing, AckMeans, Truth, Awaiting, NoCrossing, Crossing, Recorded,
                callerVars, dirVars
  <2> QED BY <2>2, <2>3, <2>4, <2>5 DEF IInv
<1>2. CASE batch # <<>>
  BY <1>2, SettleOneKeeps DEF Settle
<1> QED BY <1>1, <1>2

-----------------------------------------------------------------------------
(* The end of the writer, and of the process.                              *)

(* Nothing is left to do.                                                  *)
LEMMA NothingQueued ==
  ASSUME IInv, queue' = <<>>, batch' = <<>>, acted' = <<>>,
         phase' \in {"idle", "stopped"}
  PROVE  Shape' /\ Fitting' /\ Single' /\ Untouched' /\ ActedMeans'
         /\ queue' \in Seq(Job) /\ batch' \in Seq(Job)
         /\ acted' \in Seq({"changed", "same", "failed", "withdrawn", "stuck"})
         /\ Len(queue') <= write_queue_capacity(MAX_RESERVATIONS)
         /\ Len(batch') <= MAX_WRITE_BATCH /\ Len(acted') <= Len(batch')
<1>1. Len(queue') = 0 /\ Len(batch') = 0 /\ Len(acted') = 0
  OBVIOUS
<1>2. Shape' /\ Fitting' /\ Single'
  BY <1>1 DEF Shape, Fitting, Single
<1>3. Untouched' /\ ActedMeans'
  BY <1>1 DEF Untouched, ActedMeans
<1> QED BY <1>1, <1>2, <1>3, RetentionAssumption DEF write_queue_capacity, RetentionAssumption

(* The writer's end loses the jobs, and says so.                           *)
LEMMA WriterDiesKeeps == ASSUME IInv, WriterDies PROVE IInv'
<1>1. /\ queue' = <<>> /\ batch' = <<>> /\ acted' = <<>> /\ phase' = "stopped"
      /\ UNCHANGED <<callerVars, barrier, dirVars, sent, full>>
      /\ ack' \in [Exchange -> Ack]
      /\ \A y \in Exchange : ack'[y] = ack[y] \/ (ack'[y] = "lost" /\ Awaiting(y))
  BY DEF WriterDies, IInv, TypeOK, Ack
<1>2. Shape' /\ Fitting' /\ Single' /\ Untouched' /\ ActedMeans' /\ TypeOK'
  BY <1>1, NothingQueued DEF IInv, TypeOK, callerVars, dirVars
<1>3. Visible'
  BY <1>1 DEF IInv, Visible, dirVars
<1>4. \A y \in Exchange : Owed(y)'
  BY <1>1 DEF IInv, Owed, Standing, AckMeans, Truth, Awaiting, NoCrossing, Crossing, Recorded,
              callerVars, dirVars
<1> QED BY <1>2, <1>3, <1>4 DEF IInv

(* A kill leaves the directory, a power loss narrows it.                   *)
LEMMA CrashKeeps == ASSUME IInv, Crash PROVE IInv'
<1>1. /\ queue' = <<>> /\ batch' = <<>> /\ acted' = <<>> /\ phase' = "idle"
      /\ UNCHANGED <<told, barrier, sent, full>>
      /\ ack' \in [Exchange -> Ack] /\ stage' \in [Exchange -> Stage]
      /\ \A y \in Exchange : ack'[y] = "none"
      /\ \A y \in Exchange : stage'[y] = IF stage[y] = "idle" THEN "idle" ELSE "over"
  BY DEF Crash, IInv, TypeOK, Ack, Stage
<1>2. DirTyped' /\ Visible' /\ \A y \in Exchange : Kept(y)
  <2>1. DirTyped /\ Visible
    BY DirOf
  <2>2. CASE UNCHANGED dirVars
    BY <2>1, <2>2, DirUntouched
  <2>3. CASE PowerLoss
    <3>1. PICK m \in [Exchange -> Marker], r \in SUBSET Exchange :
            /\ \A x \in Exchange : /\ Exactly(m, r)[x].markers \subseteq onDisk[x].markers
                                   /\ Exactly(m, r)[x].records \subseteq onDisk[x].records
            /\ marker' = m /\ record' = r /\ onDisk' = Exactly(m, r)
      BY <2>3 DEF PowerLoss
    <3>2. \A x \in Exchange : m[x] \in onDisk[x].markers /\ (Recorded(x) => x \in r)
      BY <3>1 DEF Exactly, Recorded
    <3> QED BY <2>1, <3>1, <3>2, NarrowedKeeps
  <2> QED BY <2>2, <2>3 DEF Crash
<1>3. Shape' /\ Fitting' /\ Single' /\ Untouched' /\ ActedMeans' /\ TypeOK'
  BY <1>1, <1>2, NothingQueued DEF IInv, TypeOK, DirTyped
<1>4. ASSUME NEW y \in Exchange PROVE Owed(y)'
  <2>1. Owed(y) /\ Kept(y) /\ ack'[y] = "none" /\ told' = told /\ sent' = sent
        /\ stage'[y] = IF stage[y] = "idle" THEN "idle" ELSE "over"
    BY <1>1, <1>2 DEF IInv
  <2> QED BY <2>1 DEF Owed, Standing, AckMeans, Truth, Kept, NoCrossingKept, CrossingKept,
                        RecordKept
<1> QED BY <1>2, <1>3, <1>4 DEF IInv

-----------------------------------------------------------------------------
(* The invariant says what was promised.                                   *)
LEMMA Truthful == ASSUME IInv PROVE DiskTellsTheTruth
<1>1. ASSUME NEW x \in Exchange, Crossing(x) \/ Recorded(x),
             NEW m \in onDisk[x].markers, NEW r \in onDisk[x].records
      PROVE  m = "pending" \/ r
  BY <1>1, Zenon DEF Crossing, Recorded
<1>2. ASSUME NEW x \in Exchange, Recorded(x) PROVE onDisk[x].records = {TRUE}
  <2>1. onDisk[x].records # {}
    BY DEF IInv, Visible
  <2> QED BY <1>2, <2>1, Zenon DEF Recorded
<1>3. CrossingSurvivesCrash
  BY <1>1 DEF IInv, TypeOK, Owed, Truth, CrossingSurvivesCrash
<1>4. RefusalLeavesNoCrossing /\ ServedDurably
  BY <1>2 DEF IInv, Owed, Truth, RefusalLeavesNoCrossing, ServedDurably, NoCrossing
<1> QED BY <1>3, <1>4 DEF DiskTellsTheTruth

(* Every step of the store keeps the invariant.                            *)
LEMMA NextKeeps == ASSUME IInv, [Next]_vars PROVE IInv'
<1>1. CASE UNCHANGED vars
  <2>1. TypeOK' /\ Shape' /\ Visible' /\ Fitting' /\ Single'
    BY <1>1 DEF IInv, TypeOK, Shape, Visible, Fitting, Fits, Single, vars, callerVars,
                writerVars, dirVars
  <2>2. Untouched' /\ ActedMeans'
    BY <1>1 DEF IInv, Untouched, ActedMeans, CommitMeans, PublishMeans, NoCrossing, Crossing,
                Recorded, vars, writerVars, dirVars
  <2>3. \A y \in Exchange : Owed(y)'
    BY <1>1 DEF IInv, Owed, Standing, AckMeans, Truth, Awaiting, NoCrossing, Crossing, Recorded,
                vars, callerVars, dirVars
  <2> QED BY <2>1, <2>2, <2>3 DEF IInv
<1>2. ASSUME NEW x \in Exchange, Caller(x) \/ Cancel(x) PROVE IInv'
  BY <1>2, ReserveKeeps, ReserveAckedKeeps, CommitToDispatchKeeps, CommitAckedKeeps, DispatchKeeps,
     CompleteKeeps, CompleteAckedKeeps, CancelKeeps DEF Caller
<1>3. CASE Writer
  BY <1>3, DrainKeeps, DrainedKeeps, ActKeeps, BarrierKeeps, WithdrawKeeps, SettleKeeps DEF Writer
<1>4. CASE WriterDies \/ Crash
  BY <1>4, WriterDiesKeeps, CrashKeeps
<1> QED BY <1>1, <1>2, <1>3, <1>4 DEF Next

(* The invariant holds at every moment.                                    *)
LEMMA InvariantHolds == Spec => []IInv
<1>1. Init => IInv
  BY InitIInv
<1>2. IInv /\ [Next]_vars => IInv'
  BY NextKeeps
<1> QED BY <1>1, <1>2, PTL DEF Spec

(* The store keeps its types; in particular the queue never holds more     *)
(* than its capacity and a barrier never covers more than a batch          *)
(* (write_queue_capacity, MAX_WRITE_BATCH).                                *)
THEOREM RetentionTypeCorrect == Spec => []TypeOK
<1>1. IInv => TypeOK
  BY DEF IInv
<1> QED BY <1>1, InvariantHolds, PTL

(* What the evidence directory says after any crash is the truth: a        *)
(* dispatched exchange has its committed-stage marker or its record, one   *)
(* refused as never executed has no committed-stage marker, and one        *)
(* answered with success has its record (ReservedBeforeDispatch,           *)
(* CommittedToDispatch, DurableWriter's run_batch and settle).             *)
THEOREM DiskTellsTheTruthHolds == Spec => []DiskTellsTheTruth
<1>1. IInv => DiskTellsTheTruth
  BY Truthful
<1> QED BY <1>1, InvariantHolds, PTL
=============================================================================
