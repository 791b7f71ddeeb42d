----------------------------- MODULE AuditStream -----------------------------
(***************************************************************************)
(* The stderr audit stream: serving threads offer a decision's record to a *)
(* bounded hand-off queue without ever waiting, one writer thread drains   *)
(* it, drops are counted and reported in the stream, and the shutdown      *)
(* drain says whether everything handed over was written.                  *)
(*                                                                         *)
(* A record is its attribution ("known" or "anon"); each atomic operation  *)
(* of the code is one step.                                                *)
(***************************************************************************)
EXTENDS Integers, Sequences, FiniteSets

CONSTANTS
    Producers,
    STDERR_AUDIT_QUEUE_DEPTH,
    STDERR_AUDIT_UNATTRIBUTED_CEILING,
    MaxRecords,      \* bound: records offered in a run
    MaxFailures,     \* bound: writes to stderr that fail
    Starts           \* of TRUE, FALSE: whether the writer thread started

\* The queue holds something and a share of it may be unattributed.
ASSUME AuditAssumption ==
    /\ IsFiniteSet(Producers)
    /\ STDERR_AUDIT_QUEUE_DEPTH \in Nat \ {0}
    /\ STDERR_AUDIT_UNATTRIBUTED_CEILING \in 0 .. STDERR_AUDIT_QUEUE_DEPTH
    /\ MaxRecords \in Nat /\ MaxFailures \in Nat
    /\ Starts \subseteq BOOLEAN /\ Starts # {}

VARIABLES
    producer,   \* producer -> [pc, record]
    queued,     \* STDERR_AUDIT_QUEUED
    dropped,    \* STDERR_AUDIT_DROPPED
    failed,     \* STDERR_AUDIT_WRITES_FAILED
    chan,       \* the channel: records and "flush"
    stream,     \* [pc, message, report]: the writer thread
    drain,      \* [pc, sent, drops]: the shutdown drain, and what preceded it
    acked,      \* the flush was acknowledged
    failures,
    \* what became of the records
    offered, sent, written, told, lost

auditVars == <<producer, queued, dropped, failed, chan, stream, drain, acked, failures,
          offered, sent, written, told, lost>>

Records == {"known", "anon"}
\* Where the channel holds a message of these kinds.
Places(kinds) == {i \in 1 .. Len(chan) : chan[i] \in kinds}

AuditTypeOK ==
    /\ \A p \in DOMAIN producer : /\ producer[p].pc \in {"idle", "send", "refund", "drop"}
                                  /\ producer[p].record \in Records
    /\ queued \in 0 .. STDERR_AUDIT_QUEUE_DEPTH
    /\ dropped \in 0 .. MaxRecords /\ failed \in BOOLEAN
    /\ chan \in Seq(Records \cup {"flush"}) /\ Len(chan) <= STDERR_AUDIT_QUEUE_DEPTH
    /\ stream.pc \in {"recv", "took", "report", "tell", "write", "ack", "absent"}
    /\ drain.pc \in {"idle", "waiting", "check", "Drained", "OutcomeUnknown"}
    /\ acked \in BOOLEAN /\ failures \in 0 .. MaxFailures
    /\ \A n \in {offered, sent, written, told, lost} : n \in 0 .. MaxRecords

AuditInit ==
    /\ producer = [p \in Producers |-> [pc |-> "idle", record |-> "known"]]
    /\ queued = 0 /\ dropped = 0 /\ chan = <<>>
    /\ \E up \in Starts :
         /\ failed = ~ up
         /\ stream = [pc |-> IF up THEN "recv" ELSE "absent", message |-> "none", report |-> 0]
    /\ drain = [pc |-> "idle", sent |-> 0, drops |-> 0]
    /\ acked = FALSE /\ failures = 0
    /\ offered = 0 /\ sent = 0 /\ written = 0 /\ told = 0 /\ lost = 0

----------------------------------------------------------------------------
(* record *)

admission_ceiling_flat(record) == STDERR_AUDIT_QUEUE_DEPTH

admission_ceiling(record) ==
    IF record = "known" THEN STDERR_AUDIT_QUEUE_DEPTH ELSE STDERR_AUDIT_UNATTRIBUTED_CEILING

Moves(p, pc) == producer' = [producer EXCEPT ![p].pc = pc]

\* offer, its first step: reserve_slot is one fetch_update.
Reserve(p, record) ==
    /\ producer[p].pc = "idle" /\ offered < MaxRecords
    /\ offered' = offered + 1
    /\ \/ /\ queued < admission_ceiling(record)
          /\ queued' = queued + 1
          /\ producer' = [producer EXCEPT ![p] = [pc |-> "send", record |-> record]]
       \/ /\ queued >= admission_ceiling(record)
          /\ producer' = [producer EXCEPT ![p] = [pc |-> "drop", record |-> record]]
          /\ UNCHANGED queued
    /\ UNCHANGED <<dropped, failed, chan, stream, drain, acked, failures, sent,
                   written, told, lost>>

\* try_send: refused when the channel is full or nobody receives.
TrySend(p) ==
    /\ producer[p].pc = "send"
    /\ \/ /\ Len(chan) < STDERR_AUDIT_QUEUE_DEPTH /\ stream.pc # "absent"
          /\ chan' = Append(chan, producer[p].record) /\ sent' = sent + 1
          /\ Moves(p, "idle")
       \/ /\ Len(chan) >= STDERR_AUDIT_QUEUE_DEPTH \/ stream.pc = "absent"
          /\ Moves(p, "refund") /\ UNCHANGED <<chan, sent>>
    /\ UNCHANGED <<queued, dropped, failed, stream, drain, acked, failures, offered,
                   written, told, lost>>

Refund_forgets(p) ==
    /\ producer[p].pc = "refund"
    /\ Moves(p, "drop")
    /\ UNCHANGED <<queued, dropped, failed, chan, stream, drain, acked, failures, offered,
                   sent, written, told, lost>>

\* The slot is given back, then the drop is counted.
Refund(p) ==
    /\ producer[p].pc = "refund"
    /\ queued' = queued - 1
    /\ Moves(p, "drop")
    /\ UNCHANGED <<dropped, failed, chan, stream, drain, acked, failures, offered, sent,
                   written, told, lost>>

CountDrop(p) ==
    /\ producer[p].pc = "drop"
    /\ dropped' = dropped + 1
    /\ Moves(p, "idle")
    /\ UNCHANGED <<queued, failed, chan, stream, drain, acked, failures, offered, sent,
                   written, told, lost>>

----------------------------------------------------------------------------
(* The writer: write_until_disconnected *)

producing == <<producer, queued, offered, sent>>

\* recv_timeout hands over a message.
Recv ==
    /\ stream.pc = "recv" /\ chan # <<>>
    /\ stream' = [stream EXCEPT !.message = Head(chan),
                    !.pc = IF Head(chan) = "flush" THEN "report" ELSE "took"]
    /\ chan' = Tail(chan)
    /\ UNCHANGED <<producing, dropped, failed, drain, acked, failures, written, told, lost>>

Timeout_waits ==
    /\ stream.pc = "recv" /\ chan = <<>>
    /\ UNCHANGED auditVars

\* recv_timeout times out: an idle stream still reports its drops.
Timeout ==
    /\ stream.pc = "recv" /\ chan = <<>> /\ dropped > 0
    /\ stream' = [stream EXCEPT !.message = "none", !.pc = "report"]
    /\ UNCHANGED <<producing, dropped, failed, chan, drain, acked, failures, written,
                   told, lost>>

\* The received line leaves the count, checked_sub.
Took ==
    /\ stream.pc = "took"
    /\ queued' = IF queued = 0 THEN 0 ELSE queued - 1
    /\ stream' = [stream EXCEPT !.pc = "report"]
    /\ UNCHANGED <<producer, offered, sent, dropped, failed, chan, drain, acked, failures,
                   written, told, lost>>

AfterReport(m) == IF m = "flush" THEN "ack" ELSE IF m = "none" THEN "recv" ELSE "write"

\* report_drops: the counter is swapped for zero before the report is written.
Swap ==
    /\ stream.pc = "report"
    /\ dropped' = 0
    /\ stream' = [stream EXCEPT !.report = dropped,
                    !.pc = IF dropped = 0 THEN AfterReport(stream.message) ELSE "tell"]
    /\ UNCHANGED <<producing, failed, chan, drain, acked, failures, written, told, lost>>

Told ==
    /\ stream.pc = "tell"
    /\ told' = told + stream.report
    /\ stream' = [stream EXCEPT !.report = 0, !.pc = AfterReport(stream.message)]
    /\ UNCHANGED <<producing, dropped, failed, chan, drain, acked, failures, written, lost>>

TellFails_forgets ==
    /\ stream.pc = "tell" /\ failures < MaxFailures
    /\ failures' = failures + 1
    /\ failed' = TRUE
    /\ stream' = [stream EXCEPT !.report = 0, !.pc = AfterReport(stream.message)]
    /\ UNCHANGED <<producing, dropped, chan, drain, acked, written, told, lost>>

\* The report could not be written: the count is put back.
TellFails ==
    /\ stream.pc = "tell" /\ failures < MaxFailures
    /\ failures' = failures + 1
    /\ dropped' = dropped + stream.report /\ failed' = TRUE
    /\ stream' = [stream EXCEPT !.report = 0, !.pc = AfterReport(stream.message)]
    /\ UNCHANGED <<producing, chan, drain, acked, written, told, lost>>

Write ==
    /\ stream.pc = "write"
    /\ \/ written' = written + 1 /\ UNCHANGED <<failures, failed, lost>>
       \/ /\ failures < MaxFailures /\ failures' = failures + 1
          /\ failed' = TRUE /\ lost' = lost + 1 /\ UNCHANGED written
    /\ stream' = [stream EXCEPT !.message = "none", !.pc = "recv"]
    /\ UNCHANGED <<producing, dropped, chan, drain, acked, told>>

Ack ==
    /\ stream.pc = "ack"
    /\ acked' = TRUE
    /\ stream' = [stream EXCEPT !.message = "none", !.pc = "recv"]
    /\ UNCHANGED <<producing, dropped, failed, chan, drain, failures, written, told, lost>>

----------------------------------------------------------------------------
(* The drain at shutdown *)

drainOnly == <<producing, dropped, failed, stream, acked, failures, written, told, lost>>

\* drain_queue sends the flush behind everything queued before it.
Flush ==
    /\ drain.pc = "idle"
    /\ \/ /\ Len(chan) < STDERR_AUDIT_QUEUE_DEPTH /\ stream.pc # "absent"
          /\ chan' = Append(chan, "flush")
          /\ drain' = [pc |-> "waiting", sent |-> sent,
                       drops |-> told + dropped + stream.report]
       \/ /\ Len(chan) >= STDERR_AUDIT_QUEUE_DEPTH \/ stream.pc = "absent"
          /\ drain' = [drain EXCEPT !.pc = "OutcomeUnknown"] /\ UNCHANGED chan
    /\ UNCHANGED drainOnly

DrainTimesOut ==
    /\ drain.pc = "waiting"
    /\ drain' = [drain EXCEPT !.pc = "OutcomeUnknown"]
    /\ UNCHANGED <<chan, drainOnly>>

Acked ==
    /\ drain.pc = "waiting" /\ acked
    /\ drain' = [drain EXCEPT !.pc = "check"]
    /\ UNCHANGED <<chan, drainOnly>>

Verdict_ack ==
    /\ drain.pc = "check"
    /\ drain' = [drain EXCEPT !.pc = "Drained"]
    /\ UNCHANGED <<chan, drainOnly>>

Verdict ==
    /\ drain.pc = "check"
    /\ drain' = [drain EXCEPT !.pc = IF failed THEN "OutcomeUnknown" ELSE "Drained"]
    /\ UNCHANGED <<chan, drainOnly>>

Writer == Recv \/ Timeout \/ Took \/ Swap \/ Told \/ TellFails \/ Write \/ Ack

AuditNext ==
    \/ \E p \in Producers, record \in Records : Reserve(p, record)
    \/ \E p \in Producers : TrySend(p) \/ Refund(p) \/ CountDrop(p)
    \/ Writer
    \/ Flush \/ DrainTimesOut \/ Acked \/ Verdict

AuditSpec == AuditInit /\ [][AuditNext]_auditVars

----------------------------------------------------------------------------
(* What the stream promises *)

InFlight(pcs) == Cardinality({p \in DOMAIN producer : producer[p].pc \in pcs})
Holding == IF stream.message \in Records THEN 1 ELSE 0

\* No decision disappears: every record offered is queued, written, being handed
\* over, counted as dropped, reported as dropped, or was lost to a failed write.
NothingUnaccounted ==
    offered = InFlight({"send", "refund", "drop"}) + Cardinality(Places(Records)) + Holding
              + written + lost + dropped + stream.report + told

\* The slot counter is exact: it is the lines in the channel, the slots reserved
\* for lines not yet sent or not yet refunded, and the line just received.  A
\* leaked slot would shrink the queue until restart, one given back twice would
\* void the share kept for attributed decisions.
SlotsExact ==
    queued = InFlight({"send", "refund"}) + Cardinality(Places(Records))
             + (IF stream.pc = "took" THEN 1 ELSE 0)

\* An unattributed flood leaves the rest of the queue to attributed decisions.
AttributedShareKept ==
    Cardinality(Places({"anon"})) <= STDERR_AUDIT_UNATTRIBUTED_CEILING

\* A clean drain is a true statement: every record handed to the writer before
\* it is on stderr, and every drop counted before it has been reported.
DrainedMeansWritten ==
    drain.pc = "Drained" => written >= drain.sent /\ told >= drain.drops

\* Every decision offered to the audit stream is queued, written, counted as dropped,
\* told or lost to a failed write; no slot leaks, attributed decisions keep their
\* share, and a clean drain is a true statement.  (offer, report_drops, drain_queue)
AuditAccounted ==
    AuditTypeOK /\ NothingUnaccounted /\ SlotsExact /\ AttributedShareKept /\ DrainedMeansWritten

\* Drops do not stay unsaid: also on a stream that goes quiet they are reported,
\* unless no writer ever started.
DropsReported == dropped > 0 ~> (dropped = 0 \/ stream.pc = "absent")
=============================================================================
