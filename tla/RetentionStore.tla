--------------------------- MODULE RetentionStore ---------------------------
(***************************************************************************)
(* The evidence store of mcp-re-proxy (src/transparency): request futures  *)
(* that reserve, commit and complete through a bounded queue, and the one  *)
(* writer thread that owns the directory, batches the queued jobs over one *)
(* directory barrier and withdraws what a failed barrier left behind.      *)
(*                                                                         *)
(* A marker and a record are directory entries.  What the writer sees is   *)
(* `marker` and `record`; what a crash may leave is any value the entry    *)
(* has had since the last barrier that held, kept in `onDisk`.             *)
(***************************************************************************)
EXTENDS Integers, Sequences, FiniteSets

CONSTANTS
  Exchange,          \* exchanges that reach the retention stage
  MAX_RESERVATIONS,  \* the admission permits
  MAX_WRITE_BATCH,   \* the jobs one barrier may cover
  MayCancel          \* a connection may go and drop its request future

ASSUME RetentionAssumption ==
  /\ MAX_RESERVATIONS \in Nat \ {0}
  /\ MAX_WRITE_BATCH \in Nat \ {0}
  /\ MayCancel \in BOOLEAN

VARIABLES
  stage,     \* where each request future stands
  ack,       \* the acknowledgement it was sent, until it reads it
  told,      \* what the serving path tells its client
  queue,     \* the write jobs, in order
  batch,     \* the jobs the writer took
  acted,     \* what acting on each of them, and withdrawing it, gave
  phase,     \* the writer: idle, drain, act, barrier, withdraw, settle or stopped
  barrier,   \* whether the batch's directory barrier held
  marker,    \* the marker entry as the writer sees it
  record,    \* exchanges whose completed record is visible
  onDisk,    \* per exchange, the markers and record flags a crash may leave
  sent,      \* history: exchanges that were dispatched
  full       \* history: exchanges whose completion found the queue full

callerVars == <<stage, told>>
writerVars == <<batch, acted, phase, barrier>>
dirVars    == <<marker, record, onDisk>>
vars == <<callerVars, ack, queue, writerVars, dirVars, sent, full>>

Marker == {"none", "reserved", "pending"}
JobKind == {"PublishOrWithdraw", "Commit", "Publish", "Rescind"}
Job == [kind : JobKind, x : Exchange]
Ack == {"none", "ok", "NotPublished", "Unwithdrawn", "lost"}
Told == {"none", "NothingExecuted", "RetentionUnresolved", "PossiblyExecuted", "Success"}
Stage == {"idle", "reserving", "reserved", "committing", "committed", "dispatched",
          "completing", "over"}

(* Mutant of write_queue_capacity: one slot per permit, no room for the rescind. *)
write_queue_capacity_without_overlap(max_reservations) == max_reservations

write_queue_capacity(max_reservations) == 2 * max_reservations

TypeOK ==
  /\ stage \in [Exchange -> Stage]
  /\ ack \in [Exchange -> Ack]
  /\ told \in [Exchange -> Told]
  /\ queue \in Seq(Job) /\ Len(queue) <= write_queue_capacity(MAX_RESERVATIONS)
  /\ batch \in Seq(Job) /\ Len(batch) <= MAX_WRITE_BATCH
  /\ acted \in Seq({"changed", "same", "failed", "withdrawn", "stuck"})
  /\ Len(acted) <= Len(batch)
  /\ phase \in {"idle", "drain", "act", "barrier", "withdraw", "settle", "stopped"}
  /\ barrier \in BOOLEAN
  /\ marker \in [Exchange -> Marker]
  /\ record \subseteq Exchange
  /\ onDisk \in [Exchange -> [markers : SUBSET Marker, records : SUBSET BOOLEAN]]
  /\ sent \subseteq Exchange
  /\ full \subseteq Exchange

Init ==
  /\ stage = [x \in Exchange |-> "idle"]
  /\ ack = [x \in Exchange |-> "none"]
  /\ told = [x \in Exchange |-> "none"]
  /\ queue = <<>>
  /\ batch = <<>>
  /\ acted = <<>>
  /\ phase = "idle"
  /\ barrier = TRUE
  /\ marker = [x \in Exchange |-> "none"]
  /\ record = {}
  /\ onDisk = [x \in Exchange |-> [markers |-> {"none"}, records |-> {FALSE}]]
  /\ sent = {}
  /\ full = {}

----------------------------------------------------------------------------
(* A permit is shared by the reservation or commitment a future holds and  *)
(* by its awaited job; the un-awaited rescind holds none.                  *)
Accounted(job) == job.kind # "Rescind"

Queued(x) == \E i \in 1 .. Len(queue) : queue[i].x = x /\ Accounted(queue[i])

InBatch(x) == \E i \in 1 .. Len(batch) : batch[i].x = x /\ Accounted(batch[i])

Permits == {x \in Exchange : stage[x] \notin {"idle", "over"} \/ Queued(x) \/ InBatch(x)}

HasRoom == Len(queue) < write_queue_capacity(MAX_RESERVATIONS)

Alive == phase # "stopped"

JobOf(kind, x) == [kind |-> kind, x |-> x]

(* Dropping a ReservedBeforeDispatch: a best-effort try_send of the rescind. *)
Rescinded(q, x) ==
  IF Alive /\ Len(q) < write_queue_capacity(MAX_RESERVATIONS) THEN Append(q, JobOf("Rescind", x)) ELSE q

Leave(x, what) ==
  /\ stage' = [stage EXCEPT ![x] = "over"]
  /\ told' = [told EXCEPT ![x] = what]

Wait(x, s) == stage' = [stage EXCEPT ![x] = s] /\ UNCHANGED told

(* submit: the queue takes the job, or the call fails where it stands. *)
Submit(x, kind, waiting) ==
  /\ Alive /\ HasRoom
  /\ queue' = Append(queue, JobOf(kind, x))
  /\ Wait(x, waiting)

----------------------------------------------------------------------------
(* reserve: a permit, then the guard, then the marker's publication.  A    *)
(* refusal after the guard exists drops it.                                *)
Reserve(x) ==
  /\ stage[x] = "idle"
  /\ \/ /\ Cardinality(Permits) < MAX_RESERVATIONS
        /\ Submit(x, "PublishOrWithdraw", "reserving")
     \/ /\ Cardinality(Permits) < MAX_RESERVATIONS /\ ~(Alive /\ HasRoom)
        /\ queue' = Rescinded(queue, x)
        /\ Leave(x, "NothingExecuted")
     \/ /\ Cardinality(Permits) >= MAX_RESERVATIONS
        /\ Leave(x, "NothingExecuted")
        /\ UNCHANGED queue
  /\ UNCHANGED <<ack, writerVars, dirVars, sent, full>>

(* Mutant of PreDispatchRefusal: a marker that could not be withdrawn reads as an outage. *)
PreDispatchRefusalPlain(fault) ==
  IF fault = "lost" THEN "RetentionUnresolved" ELSE "NothingExecuted"

(* Retention::pre_dispatch_refusal: what is not known to be withdrawn is   *)
(* reported as unresolved, and so is an acknowledgement that never came.   *)
PreDispatchRefusal(fault) ==
  IF fault = "NotPublished" THEN "NothingExecuted" ELSE "RetentionUnresolved"

ReserveAcked(x) ==
  /\ stage[x] = "reserving" /\ ack[x] # "none"
  /\ ack' = [ack EXCEPT ![x] = "none"]
  /\ IF ack[x] = "ok"
     THEN Wait(x, "reserved") /\ UNCHANGED queue
     ELSE Leave(x, PreDispatchRefusal(ack[x])) /\ queue' = Rescinded(queue, x)
  /\ UNCHANGED <<writerVars, dirVars, sent, full>>

(* commit_to_dispatch consumes the reservation, whichever way it returns. *)
CommitToDispatch(x) ==
  /\ stage[x] = "reserved"
  /\ \/ Submit(x, "Commit", "committing")
     \/ /\ ~(Alive /\ HasRoom)
        /\ queue' = Rescinded(queue, x)
        /\ Leave(x, "NothingExecuted")
  /\ UNCHANGED <<ack, writerVars, dirVars, sent, full>>

CommitAcked(x) ==
  /\ stage[x] = "committing" /\ ack[x] # "none"
  /\ ack' = [ack EXCEPT ![x] = "none"]
  /\ queue' = Rescinded(queue, x)
  /\ IF ack[x] = "ok" THEN Wait(x, "committed") ELSE Leave(x, PreDispatchRefusal(ack[x]))
  /\ UNCHANGED <<writerVars, dirVars, sent, full>>

Dispatch(x) ==
  /\ stage[x] = "committed"
  /\ Wait(x, "dispatched")
  /\ sent' = sent \cup {x}
  /\ UNCHANGED <<ack, queue, writerVars, dirVars, full>>

(* complete: the one completion a commitment is worth. *)
Complete(x) ==
  /\ stage[x] = "dispatched"
  /\ \/ Submit(x, "Publish", "completing") /\ UNCHANGED full
     \/ /\ ~(Alive /\ HasRoom)
        /\ full' = IF Alive THEN full \cup {x} ELSE full
        /\ Leave(x, "PossiblyExecuted")
        /\ UNCHANGED queue
  /\ UNCHANGED <<ack, writerVars, dirVars, sent>>

CompleteAcked(x) ==
  /\ stage[x] = "completing" /\ ack[x] # "none"
  /\ ack' = [ack EXCEPT ![x] = "none"]
  /\ Leave(x, IF ack[x] = "ok" THEN "Success" ELSE "PossiblyExecuted")
  /\ UNCHANGED <<queue, writerVars, dirVars, sent, full>>

(* The request future is dropped at an await: its guard rescinds, its      *)
(* queued job stays.                                                       *)
HoldsGuard(x) == stage[x] \in {"reserving", "reserved", "committing"}

Cancel(x) ==
  /\ MayCancel
  /\ stage[x] \notin {"idle", "over"}
  /\ Leave(x, "none")
  /\ ack' = [ack EXCEPT ![x] = "none"]
  /\ queue' = IF HoldsGuard(x) THEN Rescinded(queue, x) ELSE queue
  /\ UNCHANGED <<writerVars, dirVars, sent, full>>

----------------------------------------------------------------------------
(* The directory.  A change is visible at once and durable at a barrier.   *)
SetMarker(x, m) ==
  /\ marker' = [marker EXCEPT ![x] = m]
  /\ onDisk' = [onDisk EXCEPT ![x].markers = @ \cup {m}]
  /\ UNCHANGED record

AddRecord(x) ==
  /\ record' = record \cup {x}
  /\ onDisk' = [onDisk EXCEPT ![x].records = @ \cup {TRUE}]
  /\ UNCHANGED marker

(* What a crash leaves when every entry is one value. *)
Exactly(m, r) ==
  [x \in Exchange |-> [markers |-> {m[x]}, records |-> IF x \in r THEN {TRUE} ELSE {FALSE}]]

Durable == Exactly(marker, record)

(* sync_root: after a failure the entries may or may not have reached it. *)
SyncRoot(held) == onDisk' = (IF held THEN Durable ELSE onDisk) /\ UNCHANGED <<marker, record>>

----------------------------------------------------------------------------
(* write_loop: block for one job, then take what else is queued, up to     *)
(* the batch bound.                                                        *)
Drain ==
  /\ \/ phase = "idle"
     \/ phase = "drain" /\ Len(batch) < MAX_WRITE_BATCH
  /\ queue # <<>>
  /\ batch' = Append(batch, Head(queue))
  /\ queue' = Tail(queue)
  /\ phase' = "drain"
  /\ UNCHANGED <<callerVars, ack, acted, barrier, dirVars, sent, full>>

Drained ==
  /\ phase = "drain"
  /\ Len(batch) = MAX_WRITE_BATCH \/ queue = <<>>
  /\ phase' = "act"
  /\ UNCHANGED <<callerVars, ack, queue, batch, acted, barrier, dirVars, sent, full>>

(* act: the filesystem action of one job.  Any of them may fail; a commit  *)
(* fails when the marker it renames is not there.                          *)
Acted(job, result) ==
  \/ result = "failed" /\ UNCHANGED dirVars
  \/ job.kind = "PublishOrWithdraw" /\ result = "changed" /\ SetMarker(job.x, "reserved")
  \/ job.kind = "Publish" /\ result = "changed" /\ AddRecord(job.x)
  \/ /\ job.kind = "Commit" /\ marker[job.x] = "reserved"
     /\ result = "changed" /\ SetMarker(job.x, "pending")
  \/ /\ job.kind = "Rescind" /\ result = "same"
     /\ IF marker[job.x] = "reserved" THEN SetMarker(job.x, "none") ELSE UNCHANGED dirVars

Act ==
  /\ phase = "act"
  /\ IF Len(acted) = Len(batch)
     THEN phase' = "barrier" /\ UNCHANGED <<acted, dirVars>>
     ELSE /\ \E result \in {"changed", "same", "failed"} :
               /\ Acted(batch[Len(acted) + 1], result)
               /\ acted' = Append(acted, result)
          /\ UNCHANGED phase
  /\ UNCHANGED <<callerVars, ack, queue, batch, barrier, sent, full>>

(* run_batch: one barrier over everything the batch changed. *)
Published == \E i \in 1 .. Len(acted) : acted[i] = "changed"

Barrier ==
  /\ phase = "barrier"
  /\ barrier' \in (IF Published THEN BOOLEAN ELSE {TRUE})
  /\ IF Published THEN SyncRoot(barrier') ELSE UNCHANGED dirVars
  /\ phase' = IF barrier' THEN "settle" ELSE "withdraw"
  /\ UNCHANGED <<callerVars, ack, queue, batch, acted, sent, full>>

IsPreDispatch(kind) == kind \in {"PublishOrWithdraw", "Commit"}

ToWithdraw == {i \in 1 .. Len(batch) : acted[i] = "changed" /\ IsPreDispatch(batch[i].kind)}

(* withdraw: take a pre-dispatch publication back, if the entry is there.  *)
Undo(job, result) ==
  \/ result = "stuck" /\ UNCHANGED dirVars
  \/ /\ result = "withdrawn"
     /\ \/ job.kind = "PublishOrWithdraw" /\ marker[job.x] = "reserved" /\ SetMarker(job.x, "none")
        \/ job.kind = "Commit" /\ marker[job.x] = "pending" /\ SetMarker(job.x, "reserved")

WithdrawOne ==
  LET i == CHOOSE i \in ToWithdraw : \A j \in ToWithdraw : i <= j IN
  \E result \in {"withdrawn", "stuck"} :
    /\ Undo(batch[i], result)
    /\ acted' = [acted EXCEPT ![i] = result]

(* One further barrier over the withdrawals; a withdrawal it does not      *)
(* cover is not one.                                                       *)
AnyWithdrawal == \E i \in 1 .. Len(acted) : acted[i] \in {"withdrawn", "stuck"}

WithdrawalBarrier ==
  IF ~AnyWithdrawal THEN UNCHANGED <<acted, dirVars>>
  ELSE \E held \in BOOLEAN :
         /\ SyncRoot(held)
         /\ acted' = [i \in 1 .. Len(acted) |->
                        IF acted[i] = "withdrawn" /\ ~held THEN "stuck" ELSE acted[i]]

Withdraw ==
  /\ phase = "withdraw"
  /\ \/ ToWithdraw # {} /\ WithdrawOne /\ UNCHANGED phase
     \/ ToWithdraw = {} /\ WithdrawalBarrier /\ phase' = "settle"
  /\ UNCHANGED <<callerVars, ack, queue, batch, barrier, sent, full>>

(* Mutant of Outcome: a job is acknowledged whatever its barrier said. *)
OutcomeUnbarriered(result) ==
  CASE result \in {"failed", "withdrawn"} -> "NotPublished"
    [] result = "stuck" -> "Unwithdrawn"
    [] OTHER -> "ok"

(* resolve: what one job established. *)
Outcome(result) ==
  CASE result \in {"failed", "withdrawn"} -> "NotPublished"
    [] result = "stuck" -> "Unwithdrawn"
    [] OTHER -> IF barrier THEN "ok" ELSE "NotPublished"

(* clear_marker_of: a durable completion unlinks its marker, if it can. *)
ClearMarkerOf(job, outcome) ==
  \/ UNCHANGED dirVars
  \/ /\ job.kind = "Publish" /\ outcome = "ok" /\ marker[job.x] = "pending"
     /\ SetMarker(job.x, "none")

Awaiting(x) == stage[x] \in {"reserving", "committing", "completing"}

(* Mutant of SendAck: a job that could not be withdrawn is dropped unanswered. *)
SendAckUnlessUnwithdrawn(job, outcome) ==
  ack' = IF Accounted(job) /\ Awaiting(job.x) /\ outcome # "Unwithdrawn"
         THEN [ack EXCEPT ![job.x] = outcome] ELSE ack

SendAck(job, outcome) ==
  ack' = IF Accounted(job) /\ Awaiting(job.x) THEN [ack EXCEPT ![job.x] = outcome] ELSE ack

Settle ==
  /\ phase = "settle"
  /\ IF batch = <<>>
     THEN phase' = "idle" /\ UNCHANGED <<batch, acted, ack, dirVars>>
     ELSE LET outcome == Outcome(Head(acted)) IN
          /\ ClearMarkerOf(Head(batch), outcome)
          /\ SendAck(Head(batch), outcome)
          /\ batch' = Tail(batch)
          /\ acted' = Tail(acted)
          /\ UNCHANGED phase
  /\ UNCHANGED <<callerVars, queue, barrier, sent, full>>

----------------------------------------------------------------------------
(* The writer thread ends: the jobs it held go with their senders, and the *)
(* futures that awaited them learn only that.                              *)
WriterDies ==
  /\ Alive
  /\ phase' = "stopped"
  /\ queue' = <<>> /\ batch' = <<>> /\ acted' = <<>>
  /\ ack' = [x \in Exchange |->
              IF Awaiting(x) /\ ack[x] = "none" /\ (Queued(x) \/ InBatch(x))
              THEN "lost" ELSE ack[x]]
  /\ UNCHANGED <<callerVars, barrier, dirVars, sent, full>>

(* The process ends and starts again on the same directory: killed, with   *)
(* what it wrote still cached, or with the power, when each entry is one   *)
(* of the values it has had since its last barrier.                        *)
PowerLoss ==
  \E m \in [Exchange -> Marker], r \in SUBSET Exchange :
    /\ \A x \in Exchange : /\ Exactly(m, r)[x].markers \subseteq onDisk[x].markers
                           /\ Exactly(m, r)[x].records \subseteq onDisk[x].records
    /\ marker' = m
    /\ record' = r
    /\ onDisk' = Exactly(m, r)

Crash ==
  /\ \E x \in Exchange : stage[x] \notin {"idle", "over"}
  /\ stage' = [x \in Exchange |-> IF stage[x] = "idle" THEN "idle" ELSE "over"]
  /\ ack' = [x \in Exchange |-> "none"]
  /\ queue' = <<>> /\ batch' = <<>> /\ acted' = <<>>
  /\ phase' = "idle"
  /\ PowerLoss \/ UNCHANGED dirVars
  /\ UNCHANGED <<told, barrier, sent, full>>

Caller(x) ==
  \/ Reserve(x) \/ ReserveAcked(x)
  \/ CommitToDispatch(x) \/ CommitAcked(x)
  \/ Dispatch(x)
  \/ Complete(x) \/ CompleteAcked(x)

Writer == Drain \/ Drained \/ Act \/ Barrier \/ Withdraw \/ Settle

AllOver == /\ \A x \in Exchange : stage[x] = "over"
           /\ (phase = "idle" /\ queue = <<>>) \/ phase = "stopped"

Next ==
  \/ \E x \in Exchange : Caller(x) \/ Cancel(x)
  \/ Writer \/ WriterDies \/ Crash
  \/ AllOver /\ UNCHANGED vars

Spec == Init /\ [][Next]_vars

(* The runtime polls a woken future and the OS schedules the writer. *)
FairSpec == Spec /\ WF_vars(Writer) /\ \A x \in Exchange : WF_vars(Caller(x))

----------------------------------------------------------------------------
(* Whatever a crash leaves of a dispatched exchange says that it may have  *)
(* executed: a committed-stage marker or the completed record.             *)
CrossingSurvivesCrash ==
  \A x \in sent : \A m \in onDisk[x].markers, r \in onDisk[x].records : m = "pending" \/ r

(* A client told that nothing executed and a retry is free never finds a   *)
(* committed-stage marker, before or after a crash, that says otherwise.   *)
RefusalLeavesNoCrossing ==
  \A x \in Exchange :
    told[x] = "NothingExecuted" => "pending" \notin onDisk[x].markers

(* An exchange whose success left is on disk as a record, in every crash.  *)
ServedDurably ==
  \A x \in Exchange : told[x] = "Success" => onDisk[x].records = {TRUE}

(* What the directory says after a crash is the truth: a dispatch is on    *)
(* record, a refused exchange is not, and a served one is complete.        *)
(* (ReservedBeforeDispatch, DurableWriter::settle)                         *)
DiskTellsTheTruth == CrossingSurvivesCrash /\ RefusalLeavesNoCrossing /\ ServedDurably

(* durability_bounds: at 2K, a completion never finds the queue full.      *)
CompleteNeverRefusedForCapacity == full = {}

(* A future that awaits the writer is answered, whatever the disk does. *)
AwaitedIsAnswered == \A x \in Exchange : Awaiting(x) ~> ~Awaiting(x)
=============================================================================
