# MCP-RE: a TLA+ model of the proxy and its client

MCP-RE puts a verifying proxy (`mcp-re-proxy`) in front of an MCP server. A
client signs each request (RFC 9421); the proxy verifies it, decides whether it
may run, runs it at most once on the inner server, signs the answer and keeps
evidence of what happened. Many exchanges run at once, on many replicas that
share a replay tier and a continuation store; any connection may go away at any
`.await`, any store call may fail or lose its answer, and the process may die.

The promise the design turns on is what a *refusal* says. A refused client is
told one of: nothing was executed, retry freely; nothing was executed but your
human's approval is spent; it may have executed, do not retry. The model is
built around the question whether that is true in every interleaving, and
around what a true answer rests on: the nonce, the approval and the crossing
marker; the trust, admission and revocation state a request is judged by; the
key its answer is signed with; the bounds that keep the process serving.

## Contents

| module | what it models | proofs |
| --- | --- | --- |
| `ExchangeState`, `ExchangeMachine` | the per-exchange lifecycle machine as operators, and driven by any caller | `ServingProofs` |
| `Serving` | the serving pipeline: many exchanges over the shared stores | `ServingProofs` |
| `ClientExchange` | a signing client and an unreliable network before `Serving` | `ServingProofs` |
| `RetentionStore` | the evidence store: futures, queue, writer thread, disk | `ReplyProofs` |
| `ReplayOnce` | what a replay tier promises (abstract) | |
| `ReplayTier` | the tier over Redis, etcd and memory, with its L1 | `ReplayTierProofs` |
| `RetentionLedger`, `LedgerMachine` | the tier's account as operators, and driven by any charges | |
| `InnerPool` | the backends behind their circuit breakers | `ReplyProofs` |
| `Admission` | the admission gate, its degraded window and revision floor | `AdmissionProofs` |
| `TrustPlane` | how a signer's key is resolved and a removal arrives | `TrustProofs` |
| `ClientAnchors` | the client's trust anchors and their rollback floor | `TrustProofs` |
| `ClientRevocation` | client certificates and the CRL reload | `ClientRevocationProofs` |
| `DelegatedSigning` | the response key: custody, rotation, epoch, window | `SignerProofs` |
| `SignerToken` | the credential cache behind a remote signer | `SignerProofs` |
| `HandshakeQuota` | the handshake path's share of a remote signer's quota | `SignerProofs` |
| `ServingCore` | one core: connections, handshakes, requests, body bytes | `RuntimeProofs` |
| `AuditStream` | the stderr audit stream and its drain | `RuntimeProofs` |
| `RuntimeTeardown` | a deployment from its build to its end | `RuntimeProofs` |
| `MC*` and `*.cfg` | the instances TLC checks | |

`PROJECT.json` holds the components, runs, mutants, source map, findings,
hazards and theorems. Run a configuration with `tlc -config Serving.cfg
MCServing`, check a proof module with `tlapm ServingProofs.tla`.

## Inventory

For each component its state, its operations, what is hard about it, and when it
is correct.

**Exchange lifecycle machine** (`exchange_state.rs`). A request state (23
positions in pipeline order), three sibling observations (continuation, response
origin, open leg), the backend flag and an anomaly latch; `advance`, the
`observe_*`, `may_publish` / `publish`, `may_establish`, `retry_semantics`. It
must stay conservative when its caller is wrong: an illegal event latches an
anomaly and *still* raises the state. Correct when it never reports less than it
was told, never takes a warning back and publishes only coherent successes.

**Serving pipeline** (`http_profile_serve/`, `request_stages.rs`, `refusal/`).
Per exchange its stage, its progress, the bases it peeked, the requestState it
opens with, the outcome of its dispatch, its reply; `handle` and its stages in
order: verify, transport binding, admission and authorization, peek the
continuation, burn the nonce, snapshot the signing key, retire the approval,
prepare the body, reserve and commit the evidence marker, dispatch, observe,
read, sign, record the open leg, publish, retain. Each resource is spent at a
different await and a refusal may fall between any two. Correct when every
refusal is true and stays true, and a nonce and an approval are spent once.

**Continuation store** (`continuation_store/`, `redis_continuation_store.rs`).
Actor-scoped key to retained bases; `create`, `peek`, `consume`, expiry. Two
answer legs on two replicas peek the same entry, and an answer lost on the wire
leaves its caller not knowing whether the call was applied.

**Evidence retention store** (`transparency/`, `retained_evidence/store.rs`).
Permits, a bounded queue, the writer's batch, the directory and what of it is on
disk; `reserve`, `commit_to_dispatch`, `complete`, the `Drop` that rescinds, and
the writer's drain, act, barrier, withdraw, settle. One barrier covers jobs of
different exchanges, each of which owes its caller a different answer when it
fails. Correct when the directory tells the truth after every crash.

**Replay tier** (`async_replay/`, `async_redis_store.rs`, `async_etcd_store.rs`).
The retained keys with their expiries, leases and replicas, the per-actor ledger
and the L1; `check_and_insert` with the charge guard around the store's round
trip. Commands execute late or lose their answer, a master fails over, a guard
is dropped at an await. Correct when one presentation of a request is admitted
while it could be accepted and the account never falls below what is held.

**Inner plane** (`http_inner/`, `async_inner/`). Per backend a breaker made of
atomics, the in-flight permits; `prepare`, `select_backend`, `round_trip`,
`record_outcome`, `ProbeGuard::drop`. No lock: handlers interleave between two
loads, and a client may leave anywhere. Correct when permits and trial slots
come back and a pool whose backends recover serves again.

**Delegated signing and custody** (`delegated_server_signer/`, `signing_plane/`,
`custody/`, `signing_window.rs`). The active key and hold-off, the snapshot the
cores read, the worker's wait, back-off and epoch watch; mint, publish, advance,
retire, open and use a window. The root goes away, the epoch counter goes back
or cannot be read, the worker panics, the plane is dropped. Correct when replies
are signed inside their window and the epoch in service is the announced one.

**Admission enforcer and source** (`admission_enforcer/`, `admission_source/`,
`authoritative_admission/`). The degraded window (last answered read), the
revision floor, the shared store of signed records; a decision around a lookup
that may fail. Lookups end out of order, the store goes back to superseded
bytes, clocks step. Correct when degraded serving is bounded and not cut short
and a revocation takes effect.

**Trust plane** (`trust_plane/`, `trust_epoch.rs`, `reloading_trust.rs`). The
`--trust` snapshot, the bounded cache, the freshness switch, the poller's
health; reload, flush, resolve in steps under separate locks, drop. A thread may
be descheduled between reading the store and filling the cache. Correct when a
removed key is out within its window and the reported health is honest.

**TLS plane** (`tls_plane/`, `client_revocation.rs`, `tls.rs`,
`handshake_quota.rs`). The CRL files, the request index, the handshake
configuration, the posture, the quota window; reload, handshake, resumption,
per-request judgement, gate, probe, arm. Two installs are not one step, and a
resumed handshake judges nothing. Correct when a listed certificate is refused,
and the operator told, in bounded time.

**Key sources** (`gcp_kms_keysource.rs`, `aws_sts.rs`). One cached token, one
flight, the last failure, the suspension of the repeat. Threads refused with an
old token must not throw its successor away.

**Audit stream** (`audit_sink/`). Slot counter, queue, drop counts, the drain's
verdict. Producers never wait. Correct when every decision is written or its
loss is told.

**Connection admission** (`async_serve/`, `async_fleet/`). Connection, handshake
and in-flight permits, the body budget, the drain. Every way out of a request
must give back exactly what it took, and a flood of handshakes must leave a
worker.

**Runtime and workers** (`managed_worker/`, `materialized_runtime.rs`,
`runtime_state.rs`, `app.rs`). The planes in build order, halts, the bounded
reclaim. The build may fail anywhere, and the fleet with some of its cores already
serving. Correct when the planes outlive their users and no thread is
unaccounted for; a fleet that fails halfway keeps neither (see the deviations below).

**Client crates** (`mcp-re-client*`, `mcp-re-host`). The calls in flight and what
each signed; the manifest in force and the shared directory of accepted
versions. The network repeats and mixes up messages; processes share the
directory without a lock and lose power. Correct when the application is told
the truth and anchors never go back.

**RFC 9421 profile** (`mcp-re-http-profile`). Which message a signature vouches
for is modelled as the client uses it; parsing and cryptography are not.

Not modelled: see the end of this document.

## How the modules correspond to the code

A definition keeps the name of the function it models where it can, and
`PROJECT.json` maps it to lines. Stated here: what a step is, and what each
module abstracts.

**ExchangeState, ExchangeMachine.** `ExchangeRequestState` derives `Ord` and its
order is the pipeline's, so a state is its position. `Established` is the event
table, `Legal` the transition relation, `Advance` is `ExchangeProgress::advance`:
raise, synchronise the backend flag, then latch if the step was illegal or a
cross-machine invariant is broken. `ExchangeMachine` has one action per public
method and two history variables (was it ever told of the crossing, of a spent
approval) to compare the machine's answer with.

**Serving.** A stage of `pc` is the stretch of `handle` between two awaits; every
early return is a disjunct with the refusal it produces and the progress value
it is minted from. `Refuse` is `refuse`; `RefuseRetained` is `refuse_retained`,
which offers the refusal to the evidence store first. `Abandon` is a dropped
future, possible at every stage. `Rescind` is the queued rescind of a dropped
reservation, which may come late or never. `InnerExecutes` is the inner server
acting on what it was sent, possibly after the deadline. Abstractions:

* a payload, signature or body is what a stage decides about it, so a stage that
  can refuse may refuse, and what is shown holds whatever the stages decide;
* the bases an open leg stores are named by the exchange that produced them: a
  signed continuation binds exactly when the entry read is the one the client
  answers; a client answers a leg only after being served it;
* a store call answers or fails, and a failed call may have been applied;
* `spends`, `sent`, `executed` and `stored` are history, read by no guard except
  `InnerExecutes` and `DispatchReturns`;
* the in-memory store's capacity bound refuses like an outage.

The evidence store appears here by its contract (marker `none`, `reserved`,
`pending`, and a completed record); `RetentionStore` is its implementation. The
replay tier appears as one atomic check-and-insert whose answer may be lost;
`ReplayTier` is its implementation and refines `ReplayOnce`.

**ClientExchange.** Every exchange of `Serving` is one arrival of some
transmission. A transmission is its nonce, since the signature base differs
whenever the nonce does; `CallerOf` is the call it was signed for. The network hands any response ever given to any call
that waits. What a peer outside the route's pin signs is arbitrary; on an
unpinned route a sibling of the server is accepted by design. A response that is
damaged, unsigned or late never verifies and is a gateway failure. A plain
"nothing executed" refusal tells the client nothing by itself: it may be the
replay refusal of a copy whose first copy ran. The clock a response is verified
at is the one sampled before sending.

**RetentionStore.** `stage` is where a request future stands. A permit is held by
a future or by its awaited job, as the `Arc`ed permit is; the rescind queued by
`Drop` holds none. The writer is `Drain`, `Act` (one filesystem action per job,
any of which may fail), `Barrier`, `Withdraw`, `Settle`. `marker` and `record`
are what the process sees; `onDisk` holds every value an entry has had since the
last barrier that held. A kill leaves what the process saw, a power loss any
value of `onDisk`. Two assumptions on the filesystem: a barrier that reports
success has made everything visible durable, and entries of different exchanges
persist independently.

**ReplayTier.** A call is one presentation to one replica. A command sent stays
in `net` until it executes or is lost, also after its caller gave up. Redis: SET
on the master, WAIT for `quorum` replicas, replication, a bounded number of
failovers to any other server. etcd: leases, a pool of reusable
ones, the txn and its one retry. Memory: the store's own map and prune. The
verifier's window and the store's TTL are computed as in the code, from a clock
read before the first await; the clock runs on, without a bound, between that
reading, the command and its answer, so that a command may find the record of an
earlier copy expired. `owner` is the last write of a nonce. In `ReplayOnce` a nonce
whose window has closed may be taken again.

**InnerPool.** A step is one atomic operation, or the backend's. The synchronous
parts take no time on the breaker's clock, a handler refuses at most once per
tick, the load of state and of the reopening time is one step, and failures are
counted up to the threshold.

**Admission.** One workload. `clock` is `Instant`, the wall clock reads
`clock + offset - Behind` and may be stepped. The substrate may lose a record,
hold bytes nobody signed, or be put back to any record issued before. The
verifier's read of its floor and the raise of it are two steps.

**The epoch poll.** `PollStarts` stamps the poll, `GetExecutes` reads the counter,
`PollOk` applies the answer, and the clock runs in between; `PollRetries` is the one
reconnect and repeat. `got` is the answer under way and how long ago the counter
moved past it. A read ends within `ReadBudget` (the code's four bounded operations)
unless it wedges for good. `ReadBudget` is longer than the cadence `Poll`, as 8 s are
longer than 5 s.

**TrustPlane, ClientRevocation, DelegatedSigning, HandshakeQuota.** Time is kept
as countdowns or ages. A resolving thread may be descheduled for `MaxStall`
ticks before its lookup and after it; a clock reading at the quota gate may be
used any number of ticks later. `unread` remembers that the `--trust` file could
not be read at some time: while it always could, the reload cadence bounds a
removal; after that the failure budget does. A worker's cycle is split where another thread
can see the difference: between the request index and the handshake
configuration, between the load of `terminal` and the clearing of `stale`.

**ClientAnchors.** One marker file per accepted version; create, directory sync
and prune are separate steps, the read of the small directory is one. `record`'s
read and persist race between processes and the next reload closes the gap.

**ServingCore, AuditStream, SignerToken, RuntimeTeardown.** Each atomic operation
or lock section is a step; a handler's work is `Serving`'s and only returns
here. Cores share nothing, so one is modelled. To the teardown the fleet is one
value: `serving`, `draining` and `joined` of one that started, `stranded` and
`stopped` of the cores that a start which failed later left behind. They share the
proxy: `run` lets go of it without waiting for the evidence writer, and the last of
them closes the queue if ever the caller's flag is raised.

## Runs

An MC module runs several *scenes*: a variable `scene`, chosen initially and never
changed, selects the instance whose steps are taken, so that one run asks one
question of several instances. A property of such a run is a conjunction of the
component's named parts.

| run | scenes | states | shows |
| --- | --- | --- | --- |
| `serving` | `pair`: two exchanges from their arrival; `answers`: two answers of one actor to a served elicitation; `actors`: one of each of two actors, requestState reused | 1,144,946 | refusals are true in both directions (`DispositionHonest`, `NothingOverstated`), a nonce and an approval are dispatched once and by their actor, the disk accounts for every dispatch, served legs were stored, no live entry is replaced |
| `exchange` | `machine`: the machine under any caller; `client`: two calls over the network; `wired`, `bare`: without retention, with and without a continuation store, under fairness | 610,414 | never understates, publishes coherently; clients are told the truth and a careful one runs its call once; whatever is taken on is answered or abandoned |
| `replay` | `redis` (quorum 1 of 2, one failover), `l1`, `etcd`, `memory`, `account` (the ledger alone) | 692,591 | admitted once until the window closes, however long a call is on its way; the tier implements `ReplayOnce`; the account covers the store, its totals are exact and one actor never spends the reserve |
| `admission` | `outage`, `order`, `revoked`, `rollback` | 2,552,376 | degraded serving lasts at most P and is not cut short, a revoked generation is out within the currentness budget, a floor read is not undercut |
| `trust` | `push`, `removed`, `stale`, `health`, `live`, `anchors` | 2,622,271 | the exposure window, honest health, verification comes back; anchors of two clients never roll back |
| `revocation` | `chain`, `split`, `live` | 2,281,400 | a listed certificate is refused within a validity period and for good once indexed; the posture is honest |
| `runtime` | `halt`, `ends`; `requests`, `handshakes`, `stops`; `audit`, `quiet` | 1,185,790 | teardown order, also of a fleet that starts in part; bounds of a core, the audit account, and all of them end |
| `signer` | `quota`, `aws`, `gcp`, `epoch`, `outage` | 1,946,717 | one fetch serves all, throttles hold, the announced epoch is in service, short outages are ridden out, replies verify |
| `reply` | `crash`, `queue`, `writer`; `rotation`; `pool`, `revival` | 291,917 | the directory tells the truth after a crash, permits and trial slots return, no completion finds the queue full while no client leaves, nothing waits for good |
| `serving_reuse`, `inner_timeout`, `replay_edge` | | | the findings below |

**Bounds.** Two exchanges give every race of two legs, a replayed nonce and an
answer to a leg; answer races need the leg and its two answers, and start
(`InitOpened`) from the state in which the first leg was served and every store
call succeeded, which `Spec` reaches and `pair` covers. Two replicas, two servers
and one failover are the smallest in which a replica that never saw a key takes
over; three calls give a replay and a bystander that fills the account. Three
lookups are needed for one to end before and one after a third that began
between them; three calls race the verifier's two locks with two revisions. Two
permits and a queue of four are the smallest retention store with one exchange's
job in another's way. Two handlers and one or two backends give every race of a
trial. Two requests of up to two bytes under a ceiling of two exhaust the body
budget with bytes of both held. Clocks run one or two windows past the longest duration, so that what must
end has time to. `RECORD_ATTEMPTS` keeps the code's value 3; other counts and durations are scaled
down keeping their order, e.g. the token's reuse floor outlasts its margin and a
timeout as 120 s do 60 s and 5 s, and a read of the epoch outlasts a poll (the
bound of `HealthyMeansCurrent` is reached there: one tick less is violated). The proofs remove the bounds for the safety of
every component but the replay ledger's account.

**Symmetry** is declared in `admission` and `signer` only, over values no scene
tells apart, and neither run has a liveness property (their temporal properties
are invariants and action properties).

**Deadlock** is checked in `reply` and `trust`: the retention store has an
explicit final state (`AllOver`) and futures and writer are never all waiting on
each other short of it. Elsewhere it is off because the instance really stops:
exchanges and calls are not renewed and clocks are bounded.

**Fairness** is weak and only of what a scheduler runs: an exchange's handler (a
woken future is polled, each store call returns or errors, a dispatch has a
deadline); the store's writer thread and its callers; the reload, rotation and
CRL workers; the main thread at teardown, and the steps of workers, though not
the call a stuck worker never leaves; the audit writer and a producer inside
`offer`; the passage of time. Two assumptions are of the environment and stated
where used: in `rotation` a root that is down comes back, in `revival` so does a
backend, and a backend that is up ends its body (the code does not bound that,
see finding 2). Nothing is assumed of the inner server in `wired` and `bare`, of
rescinds or of expiry. In `MCReply` one fairness condition stands for one of each
scene; a behaviour never changes its scene, so this is the conjunction.

## Findings

1. **`serving_reuse`** (code). `retire` consumes by key and does not compare
   what it removes with the bases the leg peeked. If the inner application mints
   a requestState again, the first answer can re-open the key between the second
   answer's peek and consume; the second then removes the *new* entry, is told it
   was the one, and both answers to the first elicitation are dispatched.
   `continuation_store/mod.rs:53` says that of two concurrent answer legs exactly
   one is admitted, and `:65` that nothing is assumed about how the value was
   minted. The theorem `ApprovalOneShotHolds` shows that minting each value once
   is enough.
2. **`inner_timeout`** (code). The timeout of `round_trip` ends with the response
   head; the body is collected under no deadline, so that a dispatch can outlast
   the bound `prepare` stated for it, which the signing window is checked against
   (`http_inner/mod.rs:388`, `:505`).
3. **`replay_edge`** (code). The staleness guard and the TTL come from one reading
   of the clock before the await, and nothing looks at the window again when the
   command has executed, seconds later at worst. The record expires in the last
   second in which the verifier accepts the request: a second copy that passed the
   guard just before finds an empty key and is admitted
   (`async_redis_store.rs:247`), though `freshness.rs:71` says that the horizon
   exists so that this cannot happen while the verifier would accept the request.
   `AdmittedOnceHolds` shows that until that second it does not.
Further deviations met while modelling. They are in the model, the properties that
pass are stated so as to be true of them, and no run of their own shows them:

* `serve_fleet` builds and spawns core by core (`async_fleet/mod.rs:234`, `:235`,
  `:269`). If a later core fails, the earlier ones serve on with their handles dropped
  and no flag raised, and the caller, who takes the `Err` for a fleet that never
  bound (`materialized_runtime.rs:129`), drops the planes, the proxy and the control
  runtime under them, though `:187` says that no request can be using anything below
  by then (`FleetFailsPartly`). The trust plane goes first, so they refuse everything
  from then on, which `DrainBeforeTransition` states and the proof shows; the binary
  then exits. `NoOrphans` is about the planes' workers, not about those cores;
* the trust reload worker takes the caller's flag as its halt and fails resolution
  closed (`trust_plane/reload/mod.rs:111`) while the fleet drains, so that a request
  accepted before is refused. `materialized_runtime.rs:18-23` puts the drain before
  the planes' drop to avoid just that; the worker's comment (`reload/mod.rs:103-110`)
  takes it as the right side of the trade. It fails closed. `DrainBeforeTransition`
  says that the planes stand during the drain, not that resolution succeeds;
* a txn on a pooled etcd lease that took effect after its deadline is retried
  (`async_etcd_store.rs:332`) and meets the call's own key, so the first presentation
  of a request is answered Replay, though `http_profile_dispatch.rs:482` says that an
  outage must not read as a replay. It fails closed. In the refinement of
  `ReplayOnce` a Replay told to a call that tried twice over etcd stands for
  Unavailable, and the theorem leaves etcd out;
* a continuation `create` applied with its answer lost meets its own record on
  the retry and is refused as a conflict, though `open_leg.rs:46` takes a live
  entry for another approval; it fails closed;
* `durability_bounds.rs:25` and `:54` give a permit at most two outstanding jobs.
  A cancelled reservation returns its permit while its rescind is queued, and a
  completion can then find the queue full; the client is told, truly, that the
  call may have executed. `queue` checks the argument without cancellation;
* the etcd retry hands back a charge whose key is held (`with_owned_charge`), so
  the account's cover is not claimed over etcd;
* once the response key has expired `retry_schedule.rs:27` names the 30 s ceiling
  as the only bound on retries, but the custody's hold-off also applies:
  `ResumesWithinHoldOff` states the bound that holds;
* a trust-cache fill in flight across a flush installs its answer afterwards; the
  entry's window starts at the thread's own reading, which is what bounds it;
* a core's drain may see zero in the moment a keep-alive request starts, and the
  end of the runtime then cuts it, though `core_admission.rs:88` says that no new
  request is admitted once the accept loop has stopped; `CleanDrain` speaks of
  the requests being served when zero was seen;
* the token retry's suspension is counted from the start of the operation that
  was refused;
* `startup.rs` in the client says that nothing on the request path consults the
  manifest's expiry; `resolve_root` does;
* an ejected backend is tried only while no backend is `Closed`: beside a healthy
  one it is never re-admitted, though `http_inner/mod.rs:33` says that a single
  trial re-admits it after `ejection_duration`; two trials may run at once in the
  race `selection.rs:64-67` describes, though `:35` says exactly one; and "every
  inner backend is ejected" can be told while a backend has just closed.

## What is proved

With TLAPS, for every value of the constants that the named assumptions allow:
any number of exchanges, actors, nonces, replicas, servers, handlers, threads,
any policy and any durations.

| theorem | states | premise |
| --- | --- | --- |
| `ServingProofs`: `TypeCorrect`, `NeverUnderstatesHolds`, `ConsequenceMonotoneHolds`, `PublishedCoherentlyHolds` | the machine under any caller | |
| `ServingProofs`: `ServingTypeCorrect`, `IncumbentKeptHolds`, `NonceDispatchedOnceHolds`, `DispositionHonestHolds` | the pipeline: types, replay, honest refusals | |
| `ServingProofs`: `ApprovalByItsActorHolds`, `CrossingAccountedHolds`, `NoFalseCrossingHolds`, `ServedLegWasStoredHolds`, `NothingOverstatedHolds` | the pipeline: approvals, evidence, no overstatement | |
| `ServingProofs`: `ApprovalOneShotHolds` | an approval is dispatched once | no requestState is minted twice |
| `ServingProofs`: `ClientToldTheTruthHolds` | clients are told the truth, and no call runs twice | |
| `ServingProofs`: `ClientBoundary` | `ClientSpec` implements `Spec`: the pipeline's theorems hold behind the network too | |
| `ReplyProofs`: `DiskTellsTheTruthHolds`, `RetentionTypeCorrect` | the evidence directory after any crash; queue and batch within their bounds | `RetentionAssumption` |
| `ReplayTierProofs`: `AdmittedOnceHolds` | one presentation is admitted until its window closes, on each backend, however slow the calls | `QuorumCovers` |
| `ReplayTierProofs`: `ReplayOnceImplemented` | the tier implements `ReplayOnce` | `QuorumCovers`, not etcd |
| `AdmissionProofs`: `DegradedBoundedHolds`, `NoRewindHolds` | the degraded window, the floor | |
| `AdmissionProofs`: `WindowNotCutShortHolds` | the window is not cut short | degraded serving is allowed |
| `AdmissionProofs`: `RevokedOutHolds` | a revocation takes effect | `ClocksAgree` |
| `ReplyProofs`: `PoolTypeCorrect`, `SlotsAlwaysReturn` | permits and trial slots come back | |
| `TrustProofs`: `TrustWindowAlways`, `HealthyMeansCurrentHolds` | a removed key is out within its window; honest push health | |
| `TrustProofs`: `AnchorsNeverRollBackHolds` | the anchors' floor over kills, power losses and races | |
| `ClientRevocationProofs`: `RevokedIsRefusedHolds`, `PostureHonestHolds` | a listed certificate is refused; the operator is told what is judged by | |
| `RuntimeProofs`: `ComesDownInOrderHolds` | the order of teardown, stranded cores fail closed, halts for good, no plane's worker unaccounted for | |
| `RuntimeProofs`: `CoreBoundsKeptHolds` | every permit, count and byte of a core given out exactly; a clean drain | |
| `RuntimeProofs`: `AuditAccountedHolds` | every audit record written, told or counted | |
| `SignerProofs`: `ThrottleAlwaysHolds`, `ProbesAlwaysSpaced` | the quota window | |
| `SignerProofs`: `TokenSharedHolds` | one fetch, its failure shared, no successor lost | |
| `SignerProofs`: `WaitsOneTimeoutHolds` | nobody waits for a queue of fetches | `TokensLast` |
| `SignerProofs`: `EpochHonouredHolds`, `RepliesVerifyHolds` | the epoch in service is the announced one; replies are signed inside their window | |
| `SignerProofs`: `RootOutageRiddenHolds` | a root outage is ridden out, or recovered from at once | `OneOutage` |

The premises on the constants are `ASSUME`s of the component's module, which TLC
evaluates in every run; those in the last column are hypotheses of the theorem.

**The machine.** `AdvanceFacts` is the central lemma: the state after `advance`
is at least what the event establishes and at least what it was, nothing
observed is lost, and an anomaly-free result means that the step was legal. The
inductive invariant ties the history to the tuple: told of the crossing, so the
state is past the threshold or an anomaly is latched.

**The pipeline, one step at a time.** `Handle` has twenty actions. Rather than
prove each invariant twenty times, `HandleEffect` shows once that every action
moves one exchange's stage forward, lets its progress only grow, and answers only
from what it knows; the `Handle*` frame lemmas say which shared variable each
stage may touch. Each invariant is then one argument over those facts.

* *Typing* is not free: the key of an answer is a key only because the leg it
  answers is finished and had a state, and the attempt counter stays in range
  only because the exchange is answered when it runs out.
* *The nonce.* `NonceInv`: an exchange in the admitted stages, or sent, holds its
  replay key, and no two hold the same. `NonceDispatchedOnce` alone is not
  inductive: it says nothing of an exchange that has burned its nonce and not
  been sent yet.
* *Honest refusals.* `HonestInv`: what was sent is known as crossed, what was
  spent is known as spent, *before* the answer is minted. Late execution is
  harmless since only a sent exchange executes.
* *Approvals.* `OwnedInv`: an entry lies under its own leg's key, so the bases
  read are of one's own actor, and past the replay stage they are the bases of
  the leg answered. `OneShotInv` adds, when no state is minted twice, that a spent
  leg is finished, so that nobody puts its entry back, that nobody spends it
  again, and that nobody passes the retirement without having spent it.
* *Evidence.* `EvidenceInv`: the marker is renamed before the dispatch, a crossing
  marker is known to the machine that may have to answer for it, and a success
  waits for its record. `LegInv`: a leg is stored before it can be served.
* *Nothing overstated.* `WalkInv` fixes, for every stage of the handler,
  the exact position of its machine and its siblings. Each event is then legal
  where it is raised (`AdvanceClean`, `OrdinaryAdvance`, `LastAdvance`,
  `PublishClean`), so no anomaly is latched, and a disposition minted before the
  dispatch does not warn of execution.

**The client.** The invariant `ClientIInv` takes the pipeline's own invariants as
its base and follows an answer from where it is minted to the application.
`BurnedInv`: a burned nonce is of one exchange alone; `SilentInv`: an exchange refused
before its nonce was burned is refused without a contract; `RanInv`: one that was
served was executed. `ArrivedInv` and `SignedInv`: every arrival is a copy of a
transmission that its caller signed, is not changed once read, and a call knows
its latest one. `SupersededInv`: a transmission that is no longer its call's latest
was told not to have been executed. `ToldInv` has, for every outcome told, a witness
among the copies. A refusal alone proves nothing to the client, since another copy
may have run; `NeverRuns` is what makes the sentence true: the witness's refusal
burned the one nonce and promises that nothing ran, so that no copy of that
transmission was or will be executed. `ClientBoundary` maps every step of
client and network to a stutter of the pipeline.

**The evidence store.** `DiskTellsTheTruth` speaks of three moments long after the
decisions that make it true, with a writer in between that works on other
exchanges' jobs. The inductive invariant (`IInv`) says what is owed at each point:

* `Standing`: before the crossing no value an entry may have on disk is `pending`;
  a future that holds a commitment has no other value left (`Crossing`). A
  dropped future is owed nothing, but its job stays.
* `Fitting` and `Single`: a job that a permit accounts for is awaited unanswered by
  its future or outlives it, and an exchange has one such job in queue and batch
  together. So whatever the writer does to one job disturbs no other (`OneJob`);
  the rescind, which holds no permit, only ever takes a `reserved` marker away,
  and then no crossing rests on it.
* `ActedMeans`: what the result noted for a job says of the directory, visibly
  while the batch is worked on and for good once it is settled. A changed commit
  that reaches `settle` had its barrier; a withdrawn one had the second barrier,
  or was renamed to `stuck` and is reported as unresolved. `AckMeans` carries it to
  the future.

A barrier that held and a power loss are one lemma (`NarrowedKeeps`): both replace
the values an entry may have by one of them, which keeps every fact of the form
"none of them is" or "all of them are". `RetentionAssumption` says only that
there is a permit and room for a job in a batch.

**The replay tier.** The store's promise is about time, and no theorem assumes
anything of how long a call takes: time passes between a call's staleness check, its
command and its answer, in any amount. `KeptLongEnough`: every
copy, lease and pooled lease lasts to the end of its nonce's window, which
`compute_ttl`'s rounding has to give (`TtlReaches`) however late it was computed.
`AdmittedIsKept`: while its window lasts, an admitted nonce is on every server that may
be elected, since the quorum with the master is all of them (`QuorumIsAll`).
`WinnerIsSole`: in the window there is one winner between the write and its answer, and
nobody was admitted before it; without it `AdmittedOnceInWindow` is not inductive. A
call whose command comes after the window finds the key gone (`AbsentIsFree`) and
may be admitted again: the abstract specification allows this exactly once a
tick has closed the window (`TickCloses`), and the run `replay_edge` shows that it
happens. The only premise is `QuorumCovers`: over Redis there is no failover, or
the WAIT quorum with the master takes in every server that may be elected; a
smaller quorum loses the key with the master, which the code leaves to the
deployment. For the refinement, `OwnInv` keeps the history `owner`, the last write
of a nonce, in step with what a store, an answer or an L1 knows; each step is then a
`Take`, a `TakeAndAnswer`, an `Answer`, the end of a window or a stutter.

**The admission gate.** `ReadsWereServed` relates the window to the moment a store
last executed a lookup, whose answer may still be under way: a window opened from
the *start* of a read is never later than that. `WindowIsAnswered` makes it
exactly the latest start among answered reads, in any order of the answers, which
gives the other direction. `FloorIsAccepted`: the floor is the highest revision
accepted and a call's own copy is no lower than what had been accepted when it
read it, although it is read under another lock than the one that raises it. For
revocation, an admitted record was signed before its generation was revoked
(`SignedBeforeRevoked`), what verifies was signed (`SoundIsIssued`), and the wall
clock a call read is near its start (`NowIsNear`); the record's own age then ends
it. `ClocksAgree` asks that the wall clock be off by at most the policy's skew,
which is what the skew is for; the other three theorems need nothing of it.

**The pool.** `Counted`: free permits and dispatches under way add up to the
limit, a cardinality argument over the handlers. `TrialsRun`: a set trial flag has
a running trial of that backend. It is inductive only with the fact that a handler
that still selects runs no trial, so that its refusal frees none.

**The trust plane.** `TrustWindowHolds` is about time at three places: an entry, the
thread that is filling it, and the snapshot the thread read. `WindowInv` bounds an
entry's remaining time and the age of what it answers by T together, from the
thread's first reading on, so that a fill descheduled across a flush gains
nothing. `RemovedInv` follows a removal: a snapshot that still holds the key is at
most a cadence old for each reload that failed since (`ReloadInv`), what was read
from it (`ReadInv`) and cached (`EntryInv`) inherits that, and the freshness switch is
off once the budget is spent. `HealthInv` does the same for the push health: an answer
under way hides at most what advanced since its GET was executed, which is what is
used up of the read's budget; so what is missed is at most the silence, one poll
and one read (`got.behind` is the part that has to be carried between the GET and its
reply). `ClosedInv` is about a dropped plane.

**The anchors.** `AnchorInv`: every version ever recorded has a marker of an equal or
a later version in the directory *and* on disk (`KeptInv`), although a prune in
another process removes markers without a lock: it only removes markers below the
version its own client has recorded, for which an equal or later one is kept. `LoadInv` carries it through a reload's steps, and a power
loss can then take no floor away.

**Client revocation.** `Dated` and `Kept` (in `NamedInv`) split the lists in force by
when they were read: one read before a certificate was named ends within a
validity period of the naming, and one read later names it. The invariant has to
hold between the two installs, where requests and handshakes are judged by
different lists: `WorkInv` has all of them gathered before any is installed, and
`PostureInv` says that between reloads the index, the snapshot and the evidence
given to the operator agree. `ConnInv`: a connection judged once and used later was
judged less than a validity period after the revocation.

**The runtime.** `BuiltInv` and `GoneInv` say which planes stand at each point of
build and teardown, also when a step of the build failed; `HandleInv` says
of whom is to be joined that its plane stands or is being reclaimed with its halt
raised, and of a detached worker that its plane's halt is raised; `HaltInv` where a
worker's "yes, halt" comes from: the latch until that was read, the owner's flag
after it. `StateInv` keeps the fleet's state in step with the lifecycle's, a fleet
that failed after its first cores were serving included, and `ClosedInv` says of
those cores that once the trust plane under them is gone their resolution fails
closed.

**A core and the audit stream.** Permits are counted by cardinality: `ConnInv` and
`CallInv` say exactly which connections and requests hold one, `BytesInv` represents
the buffered bytes as a set of pairs, so that the budget is a cardinality and no sum
over a function is needed. `CountsInv` does it for the audit queue's slots over the
places of a sequence, with `HandInv` for what the writer has in hand at each step,
`ShareInv` for the unattributed share, `BehindInv` and `DropsInv` for the records and
drops before a drain's flush (written and told, or failed), and `DrainsInv` for the
drain's verdict.

**The signer.** *Quota*: a probe's window is the one its own reading of the clock gave
(`OwnWindow`), so that clearing it late says nothing of a throttle armed since.
*Token*: `FlightInv`: the holder of the flight is the one thread that looks again or
fetches; `FailureInv`: until the wall clock is set back the two clocks agree, and who
fetches does so a cool-off after the last failure. `WaitInv`: who
queues has just come, or waits behind a fetch begun no later than it queued, or
that fetch is over within a timeout and its answer is there; `TokensLast` asks that what is
fetched outlast the margin (it does not over a service that evicts or grants
less). *Epoch*: `EpochInv` orders what was minted under, what is announced, what the
custody is set to and what has been read; between a declined advance and its retry
the second and third differ, and the key held is the announced one all the same.
*Windows*: the credential's time left and the window's age never add up to less than
the window (`WindowInv`). *Outage*: the worker is `OnTime`, with the whole overlap
before it, or `Trying`: then `Delay`, the ticks to the next answered call computed from
the back-off and the hold-off together, is bounded; a tick takes as much from the
delay as from the key; and when the root comes back the key outlasts the delay.
`OneOutage` asks for a single outage (a second one soon after the first starts with
less than the overlap), no advance, drop or panic besides, and calls that are short
against the overlap.

## What is only model-checked

* Every liveness property (`AnsweredAndKept`, `VerificationComesBack`,
  `RevocationArrives`, `ThreadsMakeProgress`, `NothingWaitsForGood`): fairness and
  `ENABLED` are out of the prover's reach.
* The ledger's account (`AccountTrue`): its totals are sums over functions, which
  need induction over data.
* That 2K slots are enough for K permits (`CompleteNeverRefusedForCapacity`, a part
  of `NothingWaitsForGood`): it counts the rescinds between jobs of a sequence,
  which needs induction over the queue.
* Recovery of the root under several outages and an epoch that moves
  (`SigningComesBack`, a part of `NothingWaitsForGood`): `RootOutageRiddenHolds` is
  about one outage.

## What is not modelled

* The authorization decision, parsing, canonicalisation and cryptography (pure
  functions over bytes, no shared state): their verdicts are choices.
* The transparency auditor and SCITT encoding (an offline single-threaded tool).
* Configuration, materialisation and the CLI: they run once, on one thread, before
  serving. `RuntimeTeardown` has their order and failures.
* The online OCSP checker: no validated deployment enables it. The session
  store's epoch: it never moves within a listener.
* PKCS#11 sessions, file keys and the wire formats of the key services; core value
  types; the client's local listener and the SDK bindings over the same core.
* Inside modelled parts: the one-shot `retain()`, the store's read projection and
  shutdown's join inside `RetentionStore` (the join is in `RuntimeTeardown`); the
  `Evict` event, which has no networked producer; audit texts and metric totals;
  the synchronous stores of the conformance tests.

Most of the repository's lines are tests, configuration validation and byte
formats; the map covers the stateful core and about 7 % of all lines (13 % of
those that are not tests).

## What could follow

1. `RetentionStore` implements the contract `Serving` uses: a refinement from
   (stage, marker, record) to `Serving`'s marker and archive.
2. `OneOutage` weakened to outages that are at least an overlap apart.
3. The ledger's account with its totals as cardinalities, as `BytesInv` does it.
