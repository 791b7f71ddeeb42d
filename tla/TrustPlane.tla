----------------------------- MODULE TrustPlane -----------------------------
(***************************************************************************)
(* How a request signer's key is resolved, and how a removal reaches the   *)
(* answer: the --trust file, the reload worker that swaps the snapshot,    *)
(* the bounded trust cache, the trust-epoch poller that flushes it, and    *)
(* the freshness switch that fails everything closed.                      *)
(*                                                                         *)
(* Time is kept as countdowns and ages, one tick being the unit of every   *)
(* duration constant.  The workers wake on time and a file read takes no   *)
(* tick; an epoch read takes up to ReadBudget, and the counter may move    *)
(* between the GET and its answer; a resolving thread may be descheduled   *)
(* for MaxStall ticks before its lookup and for MaxStall after it.         *)
(***************************************************************************)
EXTENDS Integers, FiniteSets, FiniteSetsExt

CONSTANTS
    Keys, Threads,
    t_secs, negative_ttl_secs,      \* the cache's two windows
    max_entries, PRUNE_EVERY_N_WRITES,
    Reload,                         \* --trust-reload-secs
    TRUST_RELOAD_FAILURE_BUDGET,
    Poll,                           \* TRUST_EPOCH_POLL_SECS, 0 without an epoch source
    ReadBudget,                     \* TRUST_EPOCH_READ_BUDGET: the longest epoch read
    MaxStall,                       \* how long a thread may be descheduled
    MaxEdits, MaxAdvances,          \* the operator's edits and INCRs
    Faults                          \* of "file", "epoch", "drop", "panic", "wedge"

ASSUME TrustAssumption ==
    /\ IsFiniteSet(Keys) /\ Keys # {}
    /\ t_secs \in Nat \ {0} /\ negative_ttl_secs \in Nat /\ Reload \in Nat \ {0} /\ Poll \in Nat
    /\ ReadBudget \in Nat
    /\ max_entries \in Nat /\ PRUNE_EVERY_N_WRITES \in Nat \ {0}
    /\ TRUST_RELOAD_FAILURE_BUDGET \in Nat \ {0} /\ MaxStall \in Nat
    /\ MaxEdits \in Nat /\ MaxAdvances \in Nat
    /\ Faults \subseteq {"file", "epoch", "drop", "panic", "wedge"}

VARIABLES
    file, edits,        \* what --trust says, and how often it was edited
    fileBad, unread,    \* the mount cannot be read, and could not at some time
    removed,            \* key -> ticks since it was taken out of the file, or Present
    snapshot,           \* ReloadingTrustStore.current
    reload,             \* the reload worker: [pc, timer, failures]
    stale, terminal,    \* TrustStoreFreshness
    epoch, last_seen,   \* the shared counter, and the poller's baseline (0: none)
    poll,               \* the poller: [pc, timer]
    got,                \* what GET answered: [epoch (0: nothing), behind (ticks since
                        \* the counter left it), retried]
    healthy, quiet,     \* TrustEpochSource.healthy, and ticks since last_poll
    missed,             \* ticks since the counter left the poller's baseline
    pending,            \* a FlushAll is queued
    cache, writes,      \* BoundedTrustCache
    th,                 \* thread -> the resolution it runs
    gone                \* the plane was dropped

world   == <<file, edits, fileBad, unread, removed>>
fresh   == <<stale, terminal>>
epochs  == <<epoch, last_seen, poll, got, healthy, quiet, missed, pending>>
caching == <<cache, writes>>
vars == <<world, snapshot, reload, fresh, epochs, caching, th, gone>>

Present == -1
Window == TRUST_RELOAD_FAILURE_BUDGET * Reload + t_secs
LastSeen == Window + MaxStall + 1           \* removals older than this are told apart no more
Outcomes == {"Active", "Revoked", "NotFound"}

\* No entry: what the map returns for a key it does not hold.
None == [outcome |-> "None", left |-> 0, invalidated |-> FALSE, age |-> 0]

Resting == [pc |-> "idle", key |-> CHOOSE k \in Keys : TRUE, age |-> 0, read |-> "None",
            since |-> Present, late |-> FALSE, behind |-> 0, answer |-> "None"]

\* polled_recently's bound: the tolerated misses and the one in progress.
LivenessBound == 3 * Poll + Poll

\* The oldest advance a healthy poller may not know of: the last good read began
\* ReadBudget before it answered, a cadence before the last poll began.
Unnoticed == LivenessBound + Poll + ReadBudget

NoAnswer == [epoch |-> 0, behind |-> 0, retried |-> FALSE]

\* TrustPlane::materialize: the file is read once, the epoch is read but no
\* baseline is taken from it, and both workers start.
Init ==
    /\ file = [k \in Keys |-> "Active"] /\ edits = 0 /\ fileBad = FALSE /\ unread = FALSE
    /\ removed = [k \in Keys |-> Present]
    /\ snapshot = file
    /\ reload = [pc |-> "sleep", timer |-> Reload, failures |-> 0]
    /\ stale = FALSE /\ terminal = FALSE
    /\ epoch = 1 /\ last_seen = 0
    /\ poll = [pc |-> IF Poll = 0 THEN "gone" ELSE "sleep", timer |-> 0] /\ got = NoAnswer
    /\ healthy = TRUE /\ quiet = LivenessBound + 1 /\ missed = 0 /\ pending = FALSE
    /\ cache = [k \in Keys |-> None] /\ writes = 0
    /\ th = [t \in Threads |-> Resting] /\ gone = FALSE

----------------------------------------------------------------------------
(* The operator *)

\* The operator edits --trust: a key is removed, revoked or published again.
Edit(k, to) ==
    /\ edits < MaxEdits /\ file[k] # to
    /\ edits' = edits + 1
    /\ file' = [file EXCEPT ![k] = to]
    /\ removed' = [removed EXCEPT ![k] = IF to = "Active" THEN Present
                                         ELSE IF @ = Present THEN 0 ELSE @]
    /\ th' = [t \in Threads |-> IF th[t].key = k /\ to = "Active"
                                THEN [th[t] EXCEPT !.since = Present] ELSE th[t]]
    /\ UNCHANGED <<fileBad, unread, snapshot, reload, fresh, epochs, caching, gone>>

FileBreaks ==
    /\ "file" \in Faults /\ ~ fileBad /\ fileBad' = TRUE /\ unread' = TRUE
    /\ UNCHANGED <<file, edits, removed, snapshot, reload, fresh, epochs, caching, th, gone>>

FileFixed ==
    /\ fileBad /\ fileBad' = FALSE
    /\ UNCHANGED <<file, edits, unread, removed, snapshot, reload, fresh, epochs, caching, th, gone>>

Advance ==
    /\ epoch <= MaxAdvances /\ epoch' = epoch + 1
    /\ UNCHANGED <<world, snapshot, reload, fresh, last_seen, poll, got, healthy, quiet,
                   missed, pending, caching, th, gone>>

----------------------------------------------------------------------------
(* The reload worker *)

mark_stale_only == terminal' = terminal /\ stale' = TRUE

\* TrustStoreFreshness::mark_stale_permanently
mark_stale_permanently == terminal' = TRUE /\ stale' = TRUE

Cycle(pc, failures) == reload' = [pc |-> pc, timer |-> Reload, failures |-> failures]

\* trust_reload_cycle, the file was read: the snapshot is swapped, then
\* mark_fresh loads terminal and, later, clears stale.
ReloadOk ==
    /\ reload.pc = "sleep" /\ reload.timer = 0 /\ ~ gone /\ ~ fileBad
    /\ snapshot' = file
    /\ Cycle(IF terminal THEN "sleep" ELSE "mark", 0)
    /\ UNCHANGED <<world, fresh, epochs, caching, th, gone>>

MarkFresh ==
    /\ reload.pc = "mark"
    /\ stale' = FALSE
    /\ reload' = [reload EXCEPT !.pc = "sleep"]
    /\ UNCHANGED <<world, snapshot, terminal, epochs, caching, th, gone>>

ReloadFailsKeeps ==
    /\ reload.pc = "sleep" /\ reload.timer = 0 /\ ~ gone /\ fileBad
    /\ Cycle("sleep", Min({reload.failures + 1, TRUST_RELOAD_FAILURE_BUDGET}))
    /\ UNCHANGED <<world, snapshot, fresh, epochs, caching, th, gone>>

\* trust_reload_cycle, the read failed: the last-good snapshot stays until the
\* budget of consecutive failures is spent.
ReloadFails ==
    /\ reload.pc = "sleep" /\ reload.timer = 0 /\ ~ gone /\ fileBad
    /\ LET failures == Min({reload.failures + 1, TRUST_RELOAD_FAILURE_BUDGET})
       IN /\ Cycle("sleep", failures)
          /\ stale' = (stale \/ failures = TRUST_RELOAD_FAILURE_BUDGET)
    /\ UNCHANGED <<world, snapshot, terminal, epochs, caching, th, gone>>

\* halt.sleep reports the halt, or the supervisor catches a panic.
ReloadEnds ==
    /\ reload.pc # "gone" /\ (gone \/ "panic" \in Faults)
    /\ reload' = [reload EXCEPT !.pc = "gone"]
    /\ mark_stale_permanently
    /\ UNCHANGED <<world, snapshot, epochs, caching, th, gone>>

\* Drop for TrustPlane: the switch first, then the workers are halted.
Drop ==
    /\ "drop" \in Faults /\ ~ gone /\ gone' = TRUE
    /\ mark_stale_permanently
    /\ UNCHANGED <<world, snapshot, reload, epochs, caching, th>>

----------------------------------------------------------------------------
(* The epoch poller *)

\* poll_once: the time of the poll is recorded, then the read starts.
PollStarts ==
    /\ poll.pc = "sleep" /\ poll.timer = 0 /\ ~ gone
    /\ quiet' = 0
    /\ poll' = [pc |-> "reading", timer |-> ReadBudget]
    /\ UNCHANGED <<epoch, last_seen, got, healthy, missed, pending, world, snapshot, reload,
                   fresh, caching, th, gone>>

AtRead == poll.pc \in {"reading", "answered"}

\* read_epoch: GET executes on the server; its answer is on the way.
GetExecutes ==
    /\ poll.pc = "reading"
    /\ poll' = [poll EXCEPT !.pc = "answered"]
    /\ got' = [got EXCEPT !.epoch = epoch]
    /\ UNCHANGED <<epoch, last_seen, healthy, quiet, missed, pending, world, snapshot, reload,
                   fresh, caching, th, gone>>

\* The connection broke before the answer came: one reconnect, one more GET.
PollRetries ==
    /\ AtRead /\ "epoch" \in Faults /\ ~ got.retried
    /\ poll' = [poll EXCEPT !.pc = "reading"]
    /\ got' = [NoAnswer EXCEPT !.retried = TRUE]
    /\ UNCHANGED <<epoch, last_seen, healthy, quiet, missed, pending, world, snapshot, reload,
                   fresh, caching, th, gone>>

\* The answer is here: the first is the baseline, a moved counter queues a FlushAll.
PollOk ==
    /\ poll.pc = "answered"
    /\ healthy' = TRUE /\ missed' = got.behind
    /\ last_seen' = got.epoch
    /\ pending' = (pending \/ (last_seen # 0 /\ last_seen # got.epoch))
    /\ poll' = [pc |-> "sleep", timer |-> Poll] /\ got' = NoAnswer
    /\ UNCHANGED <<epoch, quiet, world, snapshot, reload, fresh, caching, th, gone>>

PollFails ==
    /\ AtRead /\ "epoch" \in Faults
    /\ healthy' = FALSE
    /\ poll' = [pc |-> "sleep", timer |-> Poll] /\ got' = NoAnswer
    /\ UNCHANGED <<epoch, last_seen, quiet, missed, pending, world, snapshot, reload,
                   fresh, caching, th, gone>>

\* report_poller_gone: the loop was told to stop, or panicked.
PollerEnds ==
    /\ poll.pc = "sleep" \/ AtRead
    /\ gone \/ "panic" \in Faults
    /\ poll' = [poll EXCEPT !.pc = "gone"] /\ got' = NoAnswer
    /\ healthy' = FALSE /\ quiet' = LivenessBound + 1
    /\ UNCHANGED <<epoch, last_seen, missed, pending, world, snapshot, reload, fresh,
                   caching, th, gone>>

\* The thread stops making progress without ending: nobody reports it.
PollerWedges ==
    /\ poll.pc = "sleep" \/ AtRead
    /\ "wedge" \in Faults
    /\ poll' = [poll EXCEPT !.pc = "wedged"] /\ got' = NoAnswer
    /\ UNCHANGED <<epoch, last_seen, healthy, quiet, missed, pending, world, snapshot,
                   reload, fresh, caching, th, gone>>

polled_once == healthy

\* is_healthy: polled_recently, and the last read worked.
is_healthy == quiet <= LivenessBound /\ healthy

----------------------------------------------------------------------------
(* A resolution *)

\* CacheEntry's window judged at a thread's own `now`, `age` ticks ago.
Open(e, age) == e # None /\ e.left + age > 0

\* StaleFailsClosed::resolve, then drain_pending takes every queued event.
Start(t, k) ==
    /\ th[t].pc \in {"idle", "done"}
    /\ \/ /\ stale \/ terminal
          /\ th' = [th EXCEPT ![t] = [Resting EXCEPT !.pc = "done", !.key = k,
                      !.late = gone, !.answer = "Unavailable"]]
          /\ UNCHANGED pending
       \/ /\ ~ (stale \/ terminal)
          /\ th' = [th EXCEPT ![t] = [Resting EXCEPT !.key = k, !.late = gone,
                      !.since = removed[k], !.pc = IF pending THEN "clear" ELSE "lookup"]]
          /\ pending' = FALSE
    /\ UNCHANGED <<world, snapshot, reload, fresh, epoch, last_seen, poll, got, healthy,
                   quiet, missed, caching, gone>>

\* BoundedTrustCache::clear
Clear(t) ==
    /\ th[t].pc = "clear"
    /\ th' = [th EXCEPT ![t].pc = "lookup"]
    /\ cache' = [k \in Keys |-> IF Open(cache[k], 0)
                                THEN [cache[k] EXCEPT !.invalidated = TRUE] ELSE None]
    /\ UNCHANGED <<writes, world, snapshot, reload, fresh, epochs, gone>>

\* BoundedTrustCache::resolve up to the inner resolver: `now` is read here.
Lookup(t) ==
    LET k == th[t].key
        hit == Open(cache[k], 0) /\ ~ cache[k].invalidated
    IN /\ th[t].pc = "lookup"
       /\ th' = [th EXCEPT ![t] = [@ EXCEPT !.age = 0,
                   !.pc = IF hit THEN "done" ELSE "inner",
                   !.answer = IF hit THEN cache[k].outcome ELSE "None",
                   !.behind = IF hit THEN cache[k].age ELSE 0]]
       /\ UNCHANGED <<world, snapshot, reload, fresh, epochs, caching, gone>>

\* inner.resolve: ReloadingTrustStore answers from the snapshot of the moment.
Inner(t) ==
    /\ th[t].pc = "inner"
    /\ th' = [th EXCEPT ![t].pc = "store", ![t].read = snapshot[th[t].key]]
    /\ UNCHANGED <<world, snapshot, reload, fresh, epochs, caching, gone>>

ttl_of(outcome) == IF outcome = "NotFound" THEN negative_ttl_secs ELSE t_secs

Installed_anew(e, outcome, age, behind) ==
    [outcome |-> outcome, left |-> ttl_of(outcome), invalidated |-> FALSE,
     age |-> behind]

\* What store leaves under the key: the captured now plus the window, under the
\* deadline of an invalidated entry it replaces, or nothing.
Installed(e, outcome, age, behind) ==
    LET whole == ttl_of(outcome) - age
        left == IF e.invalidated THEN Min({whole, e.left}) ELSE whole
    IN IF left + age <= 0 THEN None
       ELSE [outcome |-> outcome, left |-> Max({left, -MaxStall}), invalidated |-> FALSE,
             age |-> behind]

AtCapacity_late(kept) == Cardinality({k \in Keys : kept[k] # None}) > max_entries

AtCapacity(kept) == Cardinality({k \in Keys : kept[k] # None}) >= max_entries

\* BoundedTrustCache::store
Store(t) ==
    LET q == th[t]
        prune == writes + 1 = PRUNE_EVERY_N_WRITES
        kept == [k \in Keys |-> IF prune /\ ~ Open(cache[k], q.age) THEN None ELSE cache[k]]
        next == Installed(kept[q.key], q.read, q.age, q.age)
    IN /\ q.pc = "store"
       /\ writes' = IF prune THEN 0 ELSE writes + 1
       /\ cache' = IF next # None /\ AtCapacity(kept) /\ kept[q.key] = None
                   THEN kept ELSE [kept EXCEPT ![q.key] = next]
       /\ th' = [th EXCEPT ![t].pc = "done", ![t].answer = q.read, ![t].age = 0]
       /\ UNCHANGED <<world, snapshot, reload, fresh, epochs, gone>>

----------------------------------------------------------------------------
(* Time *)

Running(t) == th[t].pc \notin {"idle", "done"}

\* Due work is done before time passes; a stalled thread is bounded.
Tick ==
    /\ reload.pc # "gone" => reload.timer > 0 \/ gone
    /\ reload.pc # "mark"
    /\ poll.pc = "sleep" => poll.timer > 0 \/ gone
    /\ AtRead => poll.timer > 0
    /\ \A t \in Threads : Running(t) => th[t].age < MaxStall
    /\ reload' = [reload EXCEPT !.timer = Max({@ - 1, 0})]
    /\ poll' = [poll EXCEPT !.timer = Max({@ - 1, 0})]
    /\ quiet' = Min({quiet + 1, LivenessBound + 1})
    /\ missed' = IF last_seen \in {0, epoch} THEN 0 ELSE Min({missed + 1, Unnoticed + 1})
    /\ got' = IF got.epoch \in {0, epoch} THEN got ELSE [got EXCEPT !.behind = @ + 1]
    /\ removed' = [k \in Keys |-> IF removed[k] = Present THEN Present
                                  ELSE Min({removed[k] + 1, LastSeen})]
    /\ cache' = [k \in Keys |-> IF cache[k] = None THEN None
                    ELSE [cache[k] EXCEPT !.left = Max({@ - 1, -MaxStall}),
                                          !.age = Min({@ + 1, t_secs + MaxStall + 1})]]
    /\ th' = [t \in Threads |-> IF Running(t)
                                THEN [th[t] EXCEPT !.age = @ + 1] ELSE th[t]]
    /\ UNCHANGED <<file, edits, fileBad, unread, snapshot, fresh, epoch, last_seen, healthy,
                   pending, writes, gone>>

Reloader == ReloadOk \/ MarkFresh \/ ReloadFails

Next ==
    \/ \E k \in Keys, o \in Outcomes : Edit(k, o)
    \/ FileBreaks \/ FileFixed \/ Advance
    \/ Reloader \/ ReloadEnds \/ Drop
    \/ PollStarts \/ GetExecutes \/ PollRetries \/ PollOk \/ PollFails \/ PollerEnds \/ PollerWedges
    \/ \E t \in Threads, k \in Keys : Start(t, k)
    \/ \E t \in Threads : Clear(t) \/ Lookup(t) \/ Inner(t) \/ Store(t)
    \/ Tick

Spec == Init /\ [][Next]_vars

----------------------------------------------------------------------------
(* What the plane promises *)

TypeOK ==
    /\ \A k \in DOMAIN file : {file[k], snapshot[k]} \subseteq Outcomes
    /\ \A k \in DOMAIN removed : removed[k] \in Present .. LastSeen
    /\ reload.pc \in {"sleep", "mark", "gone"} /\ reload.timer \in 0 .. Reload
    /\ reload.failures \in 0 .. TRUST_RELOAD_FAILURE_BUDGET
    /\ poll.pc \in {"sleep", "reading", "answered", "wedged", "gone"} /\ poll.timer \in Nat
    /\ got.epoch \in 0 .. epoch /\ got.behind \in 0 .. ReadBudget
    /\ quiet \in 0 .. LivenessBound + 1 /\ missed \in 0 .. Unnoticed + 1
    /\ \A b \in {stale, terminal, healthy, pending, fileBad, unread, gone} : b \in BOOLEAN
    /\ epoch \in Nat \ {0} /\ last_seen \in 0 .. epoch
    /\ \A k \in DOMAIN cache : /\ cache[k].outcome \in Outcomes \cup {"None"}
                               /\ cache[k].left \in Int /\ cache[k].age \in Nat
    /\ writes \in 0 .. PRUNE_EVERY_N_WRITES - 1
    /\ \A t \in DOMAIN th : th[t].pc \in {"idle", "clear", "lookup", "inner", "store", "done"}

\* The cache never holds more than it may, whichever threads fill it.
WithinCapacity == Cardinality({k \in DOMAIN cache : cache[k] # None}) <= max_entries

\* The exposure window is T: an active key answered from the cache was asked of
\* the store less than T before, however long the thread that filled the entry
\* was descheduled, and across flushes, prunes and refills.
ServedWithinT ==
    \A t \in DOMAIN th : th[t].pc = "done" /\ th[t].answer = "Active" => th[t].behind < t_secs

\* The delivered window: a key taken out of --trust is not answered Active to a
\* resolution begun R + T later, or, once the file could not be read, as many cadences
\* later as the failure budget allows and the time a thread may be descheduled
\* between the freshness check and its lookup.
Delivered == t_secs + (IF unread THEN TRUST_RELOAD_FAILURE_BUDGET * Reload + MaxStall
                       ELSE Reload)

RemovedOut ==
    \A t \in DOMAIN th : th[t].pc = "done" /\ th[t].answer = "Active" =>
        th[t].since < Delivered

\* Nothing resolves once the plane is dropped, also when the drop falls between
\* the two steps of mark_fresh.
ClosedAfterDrop ==
    \A t \in DOMAIN th : th[t].pc = "done" /\ th[t].late => th[t].answer = "Unavailable"

\* The exposure window holds.  An active key answered from the cache was asked of
\* the store less than T before, however long the thread that filled the entry was
\* descheduled (BoundedTrustCache::resolve, store, clear); a key taken out of --trust
\* is not answered Active to a resolution begun R + T later, and the failure budget
\* bounds that once the file could not be read (trust_reload_cycle); nothing resolves
\* once the plane is dropped, also between the two steps of mark_fresh.
TrustWindowHolds == TypeOK /\ WithinCapacity /\ ServedWithinT /\ RemovedOut /\ ClosedAfterDrop

\* The surfaced push health is honest: while it is reported, no advance of the
\* epoch has gone unnoticed for longer than the tolerated misses, one poll and one
\* read, also when the counter moves between a GET and its answer, and whether the
\* poller fails, retries, panics, is slow or is wedged.  (is_healthy, poll_once)
HealthyMeansCurrent == is_healthy => missed <= Unnoticed

\* Failing closed is not for ever: after the budget was spent, verification
\* serves again once the file can be read for good, unless the plane is gone.
ComesBack == <>[] ~ fileBad => (stale ~> (~ stale \/ terminal))
=============================================================================
