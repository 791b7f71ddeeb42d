----------------------------- MODULE ReplayTier -----------------------------
(***************************************************************************)
(* The authoritative replay tier: AsyncReplayTier::check_and_insert over   *)
(* the Redis, etcd and in-memory stores, on several replicas, with the     *)
(* retention ledger each replica keeps above the store.                    *)
(*                                                                         *)
(* A call is one presentation of a signed request to one replica; calls    *)
(* with the same nonce are the same request presented again.  A command    *)
(* that was sent may execute any number of ticks later, also after the     *)
(* window has closed that its caller checked and after its caller has      *)
(* given up, and its answer may be lost.                                   *)
(***************************************************************************)
EXTENDS RetentionLedger, SequencesExt

CONSTANTS
  Call, Nonce, Replica, None,
  NonceOf(_), ReplicaOf(_),     \* of a call
  PrincipalOf(_), ExpiresAt(_), \* of a nonce: the signed request is the same
  max_clock_skew_secs,
  Backend,                      \* "redis" | "etcd" | "memory"
  Server,                       \* Redis servers; the first master is a choice
  quorum,                       \* WAIT quorum, replicas besides the master
  MaxFailovers,
  L1Capacity                    \* 0: the L1 fast reject is not wired (as shipped)

ASSUME TierAssumption ==
  /\ max_clock_skew_secs \in Nat
  /\ Backend \in {"redis", "etcd", "memory"}
  /\ quorum \in Nat /\ MaxFailovers \in Nat /\ L1Capacity \in Nat
  /\ \A c \in Call : NonceOf(c) \in Nonce /\ ReplicaOf(c) \in Replica
  /\ \A n \in Nonce : /\ PrincipalOf(n) \in Actor /\ ExpiresAt(n) \in Nat
                      /\ ExpiresAt(n) + max_clock_skew_secs <= Horizon
  /\ None \notin Call

(* FreshnessWindow::replay_retain_until and verifier_accepts_until.        *)
retain_until(n) == ExpiresAt(n) + max_clock_skew_secs
verifier_accepts_until(n) == ExpiresAt(n) + max_clock_skew_secs

VARIABLES
  clock,
  phase,        \* call -> "new" | "verified" | "granting" | "waiting" | "over"
  verified_at,  \* call -> the verifier's now
  sampled,      \* call -> the store's own now, read before the first await
  verdict,      \* call -> what check_and_insert returned
  ledger,       \* replica -> Ledger
  net,          \* commands sent and not executed yet
  attempt,      \* call -> number of the round trip it awaits
  reply,        \* call -> the executed command's answer, not consumed yet
  copies,       \* Redis: server -> nonce -> instant the key expires (0: absent)
  master, failovers,
  etcd,         \* etcd: nonce -> lease the key hangs on (0: absent)
  leases,       \* etcd: lease id -> instant it expires (index is the id)
  pool,         \* replica -> retain_until -> lease offered for reuse (0: none)
  lease,        \* call -> [id, reused]
  seen,         \* in-memory store: nonces retained
  since,        \* in-memory store: inserts_since_prune
  l1,           \* replica -> L1 keys in insertion order
  owner         \* nonce -> the call whose write took effect last (history)

callVars  == <<phase, verified_at, sampled, verdict, attempt, reply, lease>>
redisVars == <<copies, master, failovers>>
etcdVars  == <<etcd, leases, pool>>
memVars   == <<seen, since>>
vars == <<clock, callVars, ledger, net, redisVars, etcdVars, memVars, l1, owner>>

Verdict == {"pending", "Fresh", "Replay", "Unavailable"}
Reply == {"none", "set", "nil", "error"}
LeaseId == 0..(2 * Cardinality(Call))
Command == [c : Call, n : 1..2, id : LeaseId]

TypeOK ==
  /\ clock \in Instant
  /\ phase \in [Call -> {"new", "verified", "granting", "waiting", "over"}]
  /\ verified_at \in [Call -> Instant]
  /\ sampled \in [Call -> Instant]
  /\ verdict \in [Call -> Verdict]
  /\ ledger \in [Replica -> Ledger]
  /\ \A r \in Replica : ledger[r].inserts_since_prune < ASYNC_PRUNE_EVERY_N_INSERTS
  /\ net \subseteq Command
  /\ attempt \in [Call -> 0..2]
  /\ reply \in [Call -> Reply]
  /\ copies \in [Server -> [Nonce -> 0..(2 * Horizon)]]
  /\ master \in Server
  /\ failovers \in 0..MaxFailovers
  /\ etcd \in [Nonce -> LeaseId]
  /\ leases \in Seq(0..(2 * Horizon))
  /\ pool \in [Replica -> [Instant -> LeaseId]]
  /\ lease \in [Call -> [id : LeaseId, reused : BOOLEAN]]
  /\ seen \subseteq Nonce
  /\ since \in 0..(ASYNC_PRUNE_EVERY_N_INSERTS - 1)
  /\ \A r \in Replica : ToSet(l1[r]) \subseteq Nonce /\ Len(l1[r]) <= L1Capacity
  /\ owner \in [Nonce -> Call \cup {None}]

(* The calls of S are going to be made.                                    *)
Start(S) ==
  /\ clock = 0
  /\ phase = [c \in Call |-> IF c \in S THEN "new" ELSE "over"]
  /\ verified_at = [c \in Call |-> 0]
  /\ sampled = [c \in Call |-> 0]
  /\ verdict = [c \in Call |-> "pending"]
  /\ ledger = [r \in Replica |-> EmptyLedger]
  /\ net = {}
  /\ attempt = [c \in Call |-> 0]
  /\ reply = [c \in Call |-> "none"]
  /\ copies = [s \in Server |-> [n \in Nonce |-> 0]]
  /\ master \in Server
  /\ failovers = 0
  /\ etcd = [n \in Nonce |-> 0]
  /\ leases = <<>>
  /\ pool = [r \in Replica |-> [t \in Instant |-> 0]]
  /\ lease = [c \in Call |-> [id |-> 0, reused |-> FALSE]]
  /\ seen = {}
  /\ since = 0
  /\ l1 = [r \in Replica |-> <<>>]
  /\ owner = [n \in Nonce |-> None]

Init == Start(Call)

Admitted(n) == \E c \in Call : NonceOf(c) = n /\ verdict[c] = "Fresh"

OwnerAfterWrite(c) == [owner EXCEPT ![NonceOf(c)] = c]

-----------------------------------------------------------------------------
(* The key as each store sees it.                                          *)
OnRedis(s, n) == copies[s][n] > clock
OnEtcd(n) == etcd[n] # 0 /\ leases[etcd[n]] > clock
Retained(n) ==
  \/ Backend = "redis" /\ OnRedis(master, n)
  \/ Backend = "etcd" /\ OnEtcd(n)
  \/ Backend = "memory" /\ n \in seen

is_stale_pre_store(t, now) == t - now <= 0

(* Mutant of compute_ttl: the skew is not folded in.                       *)
compute_ttl_unskewed(n, now) == Max({1, ExpiresAt(n) - now})

compute_ttl(n, now) == Max({1, retain_until(n) - now})

(* Mutant of wait_quorum_satisfied: the master counts as an acknowledgement. *)
wait_quorum_with_master(acked) == acked + 1 >= quorum

wait_quorum_satisfied(acked) == acked >= quorum

Acked(n) == Cardinality({s \in Server \ {master} : OnRedis(s, n)})

l1_lookup(r, n) == L1Capacity > 0 /\ n \in ToSet(l1[r])

(* BoundedKeySet::insert: FIFO, the oldest makes room.                     *)
L1Insert(q, n) ==
  IF L1Capacity = 0 \/ n \in ToSet(q) THEN q
  ELSE Append(IF Len(q) >= L1Capacity THEN Tail(q) ELSE q, n)

l1_record(c) == [l1 EXCEPT ![ReplicaOf(c)] = L1Insert(@, NonceOf(c))]

-----------------------------------------------------------------------------
(* check_and_insert: the charge, and what is left of it when it settles.   *)
Principal(c) == PrincipalOf(NonceOf(c))

Reserved(c) == AfterReserve(ledger[ReplicaOf(c)], Principal(c), verified_at[c])

ReserveRefused(c) ==
  Refuses(PruneIfDue(ledger[ReplicaOf(c)], verified_at[c]), Principal(c))

(* Mutant of Settlement: an unanswered insert hands its charge back.       *)
SettlementHandsBack(l, c, v) ==
  IF v = "Fresh" THEN Commit(l, Principal(c), retain_until(NonceOf(c)))
  ELSE Release(l, Principal(c))

(* Charge::commit on Fresh, release_proven_absent on Replay; on an error   *)
(* or a dropped future the guard is dropped Indeterminate and committed.   *)
Settlement(l, c, v) ==
  IF v = "Replay" THEN Release(l, Principal(c))
  ELSE Commit(l, Principal(c), retain_until(NonceOf(c)))

Return(c, v, l) ==
  /\ phase' = [phase EXCEPT ![c] = "over"]
  /\ verdict' = [verdict EXCEPT ![c] = v]
  /\ reply' = [reply EXCEPT ![c] = "none"]
  /\ ledger' = [ledger EXCEPT ![ReplicaOf(c)] = l]

Settle(c, v) == Return(c, v, Settlement(ledger[ReplicaOf(c)], c, v))

-----------------------------------------------------------------------------
(* The verifier accepts the request; the pipeline carries its now along.   *)
Verify(c) ==
  /\ phase[c] = "new"
  /\ clock <= verifier_accepts_until(NonceOf(c))
  /\ phase' = [phase EXCEPT ![c] = "verified"]
  /\ verified_at' = [verified_at EXCEPT ![c] = clock]
  /\ UNCHANGED <<clock, sampled, verdict, attempt, reply, lease, ledger, net, redisVars,
                 etcdVars, memVars, l1, owner>>

(* The ledger refuses before the store is touched.                         *)
RefuseCharge(c) ==
  /\ phase[c] = "verified"
  /\ ReserveRefused(c)
  /\ Return(c, "Unavailable", Reserved(c))
  /\ UNCHANGED <<clock, verified_at, sampled, attempt, lease, net, redisVars, etcdVars,
                 memVars, l1, owner>>

(* A key the L1 knows: Replay without a round trip.                        *)
FastReject(c) ==
  /\ phase[c] = "verified"
  /\ ~ReserveRefused(c)
  /\ l1_lookup(ReplicaOf(c), NonceOf(c))
  /\ Return(c, "Replay", Settlement(Reserved(c), c, "Replay"))
  /\ UNCHANGED <<clock, verified_at, sampled, attempt, lease, net, redisVars, etcdVars,
                 memVars, l1, owner>>

Submits(c) ==
  /\ phase[c] = "verified"
  /\ ~ReserveRefused(c)
  /\ ~l1_lookup(ReplicaOf(c), NonceOf(c))

(* The pre-store guard: the window has closed since the verifier accepted. *)
RefuseStale(c) ==
  /\ Submits(c)
  /\ is_stale_pre_store(retain_until(NonceOf(c)),
                        IF Backend = "memory" THEN verified_at[c] ELSE clock)
  /\ Return(c, "Unavailable", Settlement(Reserved(c), c, "Unavailable"))
  /\ UNCHANGED <<clock, verified_at, sampled, attempt, lease, net, redisVars, etcdVars,
                 memVars, l1, owner>>

Sends(c, p) ==
  /\ Submits(c)
  /\ ~is_stale_pre_store(retain_until(NonceOf(c)), clock)
  /\ phase' = [phase EXCEPT ![c] = p]
  /\ sampled' = [sampled EXCEPT ![c] = clock]
  /\ ledger' = [ledger EXCEPT ![ReplicaOf(c)] = Reserved(c)]
  /\ UNCHANGED <<clock, verified_at, verdict, reply, redisVars, memVars, l1, owner>>

SendSet(c) ==
  /\ Backend = "redis"
  /\ Sends(c, "waiting")
  /\ attempt' = [attempt EXCEPT ![c] = 1]
  /\ net' = net \cup {[c |-> c, n |-> 1, id |-> 0]}
  /\ UNCHANGED <<lease, etcdVars>>

(* pooled_lease drops what has come due before it looks.                   *)
PoolAt(r) == [t \in Instant |-> IF t >= clock + 1 THEN pool[r][t] ELSE 0]

SendTxn(c) ==
  LET p == PoolAt(ReplicaOf(c))
      id == p[retain_until(NonceOf(c))]
  IN /\ Backend = "etcd"
     /\ pool' = [pool EXCEPT ![ReplicaOf(c)] = p]
     /\ \/ /\ id # 0
           /\ Sends(c, "waiting")
           /\ lease' = [lease EXCEPT ![c] = [id |-> id, reused |-> TRUE]]
           /\ attempt' = [attempt EXCEPT ![c] = 1]
           /\ net' = net \cup {[c |-> c, n |-> 1, id |-> id]}
        \/ /\ id = 0
           /\ Sends(c, "granting")
           /\ UNCHANGED <<lease, attempt, net>>
     /\ UNCHANGED <<etcd, leases>>

(* lease/grant is answered: the lease is pooled and the txn goes out.      *)
Granted(c) ==
  LET id == Len(leases) + 1
      n == NonceOf(c)
  IN /\ phase[c] = "granting"
     /\ leases' = Append(leases, clock + compute_ttl(n, sampled[c]))
     /\ pool' = [pool EXCEPT ![ReplicaOf(c)][retain_until(n)] = id]
     /\ lease' = [lease EXCEPT ![c] = [id |-> id, reused |-> FALSE]]
     /\ attempt' = [attempt EXCEPT ![c] = @ + 1]
     /\ net' = net \cup {[c |-> c, n |-> attempt[c] + 1, id |-> id]}
     /\ phase' = [phase EXCEPT ![c] = "waiting"]
     /\ UNCHANGED <<clock, verified_at, sampled, verdict, reply, ledger, redisVars, etcd,
                    memVars, l1, owner>>

Answers(m, a) ==
  reply' = IF phase[m.c] = "waiting" /\ attempt[m.c] = m.n
             THEN [reply EXCEPT ![m.c] = a] ELSE reply

(* SET NX PX executes on the master.                                       *)
ExecuteSet(m) ==
  LET n == NonceOf(m.c)
  IN /\ Backend = "redis" /\ m \in net
     /\ net' = net \ {m}
     /\ \/ /\ OnRedis(master, n)
           /\ Answers(m, "nil")
           /\ UNCHANGED <<copies, owner>>
        \/ /\ ~OnRedis(master, n)
           /\ copies' = [copies EXCEPT ![master][n] = clock + compute_ttl(n, sampled[m.c])]
           /\ Answers(m, "set")
           /\ owner' = OwnerAfterWrite(m.c)
     /\ UNCHANGED <<clock, phase, verified_at, sampled, verdict, attempt, lease, ledger,
                    master, failovers, etcdVars, memVars, l1>>

(* The put-if-absent txn executes: refused under a lease that is gone.     *)
ExecuteTxn(m) ==
  LET n == NonceOf(m.c)
  IN /\ Backend = "etcd" /\ m \in net
     /\ net' = net \ {m}
     /\ \/ /\ leases[m.id] <= clock
           /\ Answers(m, "error")
           /\ UNCHANGED <<etcd, owner>>
        \/ /\ leases[m.id] > clock /\ OnEtcd(n)
           /\ Answers(m, "nil")
           /\ UNCHANGED <<etcd, owner>>
        \/ /\ leases[m.id] > clock /\ ~OnEtcd(n)
           /\ etcd' = [etcd EXCEPT ![n] = m.id]
           /\ Answers(m, "set")
           /\ owner' = OwnerAfterWrite(m.c)
     /\ UNCHANGED <<clock, phase, verified_at, sampled, verdict, attempt, lease, ledger,
                    redisVars, leases, pool, memVars, l1>>

(* The answer to SET + WAIT: acknowledged by enough replicas, or an error. *)
AnswerSet(c) ==
  /\ Backend = "redis" /\ phase[c] = "waiting"
  /\ \/ reply[c] = "nil" /\ Settle(c, "Replay") /\ l1' = l1_record(c)
     \/ /\ reply[c] = "set" /\ wait_quorum_satisfied(Acked(NonceOf(c)))
        /\ Settle(c, "Fresh") /\ l1' = l1_record(c)
     \/ /\ reply[c] = "set" /\ ~wait_quorum_satisfied(Acked(NonceOf(c)))
        /\ Settle(c, "Unavailable") /\ UNCHANGED l1
  /\ UNCHANGED <<clock, verified_at, sampled, attempt, lease, net, redisVars, etcdVars,
                 memVars, owner>>

AnswerTxn(c) ==
  /\ Backend = "etcd" /\ phase[c] = "waiting"
  /\ \/ reply[c] = "nil" /\ Settle(c, "Replay") /\ l1' = l1_record(c)
     \/ reply[c] = "set" /\ Settle(c, "Fresh") /\ l1' = l1_record(c)
     \/ reply[c] = "error" /\ ~lease[c].reused /\ Settle(c, "Unavailable") /\ UNCHANGED l1
  /\ UNCHANGED <<clock, verified_at, sampled, attempt, lease, net, redisVars, etcdVars,
                 memVars, owner>>

(* A txn on a reused lease failed (refused, or past op_timeout): the lease *)
(* is forgotten and the insert is tried once more on a lease of its own.   *)
RetryTxn(c) ==
  LET r == ReplicaOf(c)
      t == retain_until(NonceOf(c))
  IN /\ Backend = "etcd" /\ phase[c] = "waiting" /\ lease[c].reused
     /\ pool' = [pool EXCEPT ![r][t] = IF @ = lease[c].id THEN 0 ELSE @]
     /\ lease' = [lease EXCEPT ![c].reused = FALSE]
     /\ reply' = [reply EXCEPT ![c] = "none"]
     /\ phase' = [phase EXCEPT ![c] = "granting"]
     /\ UNCHANGED <<clock, verified_at, sampled, verdict, attempt, ledger, net, redisVars,
                    etcd, leases, memVars, l1, owner>>

(* An error, a timeout, or the future dropped at its await.                *)
GiveUp(c) ==
  /\ phase[c] \in {"granting", "waiting"}
  /\ Settle(c, "Unavailable")
  /\ UNCHANGED <<clock, verified_at, sampled, attempt, lease, net, redisVars, etcdVars,
                 memVars, l1, owner>>

(* RetainedSet::prune_if_due, on the store's own clock.                    *)
PruneDue == since + 1 >= ASYNC_PRUNE_EVERY_N_INSERTS
SeenAfterPrune ==
  IF PruneDue THEN {n \in seen : retain_until(n) >= clock} ELSE seen

MemoryFull(a) ==
  LET left == SeenAfterPrune
      held == [b \in Actor |-> Cardinality({n \in left : PrincipalOf(n) = b})]
  IN OverFairShare(held, Cardinality(left), a) \/ Cardinality(left) >= max_entries

MemoryRefuses(c) ==
  /\ Return(c, "Unavailable", Settlement(Reserved(c), c, "Unavailable"))
  /\ seen' = SeenAfterPrune
  /\ since' = IF PruneDue THEN 0 ELSE since + 1
  /\ UNCHANGED <<l1, owner>>

MemoryRecords(c) ==
  /\ Return(c, "Fresh", Settlement(Reserved(c), c, "Fresh"))
  /\ seen' = SeenAfterPrune \cup {NonceOf(c)}
  /\ since' = IF PruneDue THEN 0 ELSE since + 1
  /\ l1' = l1_record(c)
  /\ owner' = OwnerAfterWrite(c)

MemoryInserts(c) ==
  /\ Backend = "memory"
  /\ Submits(c)
  /\ ~is_stale_pre_store(retain_until(NonceOf(c)), verified_at[c])
  /\ UNCHANGED <<clock, verified_at, sampled, attempt, lease, net, redisVars, etcdVars>>

(* The in-memory reference store answers in the same poll.                 *)
MemoryInsert(c) ==
  /\ MemoryInserts(c)
  /\ \/ /\ NonceOf(c) \in seen
        /\ Return(c, "Replay", Settlement(Reserved(c), c, "Replay"))
        /\ l1' = l1_record(c)
        /\ UNCHANGED <<memVars, owner>>
     \/ NonceOf(c) \notin seen /\ MemoryFull(Principal(c)) /\ MemoryRefuses(c)
     \/ NonceOf(c) \notin seen /\ ~MemoryFull(Principal(c)) /\ MemoryRecords(c)

-----------------------------------------------------------------------------
(* The servers and the clock (external).                                   *)
Replicate(s) ==
  /\ Backend = "redis" /\ s # master
  /\ copies[s] # copies[master]
  /\ copies' = [copies EXCEPT ![s] = copies[master]]
  /\ UNCHANGED <<clock, callVars, ledger, net, master, failovers, etcdVars, memVars, l1, owner>>

(* The master dies and s takes over: what was sent to it is lost.          *)
Failover(s) ==
  /\ Backend = "redis" /\ s # master /\ failovers < MaxFailovers
  /\ master' = s
  /\ failovers' = failovers + 1
  /\ net' = {}
  /\ reply' = [c \in Call |-> "none"]
  /\ UNCHANGED <<clock, phase, verified_at, sampled, verdict, attempt, lease, ledger, copies,
                 etcdVars, memVars, l1, owner>>

(* A command nobody will see executed: the connection died first.          *)
Lose(m) ==
  /\ m \in net
  /\ net' = net \ {m}
  /\ UNCHANGED <<clock, callVars, ledger, redisVars, etcdVars, memVars, l1, owner>>

(* Nothing on its way holds the clock back.                                *)
Tick ==
  /\ clock < Horizon
  /\ clock' = clock + 1
  /\ UNCHANGED <<callVars, ledger, net, redisVars, etcdVars, memVars, l1, owner>>

Next ==
  \/ \E c \in Call :
       \/ Verify(c) \/ RefuseCharge(c) \/ FastReject(c) \/ RefuseStale(c)
       \/ SendSet(c) \/ SendTxn(c) \/ Granted(c)
       \/ AnswerSet(c) \/ AnswerTxn(c) \/ RetryTxn(c) \/ GiveUp(c)
       \/ MemoryInsert(c)
  \/ \E m \in net : ExecuteSet(m) \/ ExecuteTxn(m) \/ Lose(m)
  \/ \E s \in Server : Replicate(s) \/ Failover(s)
  \/ Tick

Spec == Init /\ [][Next]_vars

-----------------------------------------------------------------------------
(* The window of a signed request has not closed yet.                      *)
InWindow(n) == clock < retain_until(n)

(* The tier implements ReplayOnce: however its calls, its commands, its    *)
(* failovers and its clock interleave, one presentation of a signed        *)
(* request is admitted until its window closes, and Replay is said only of *)
(* a nonce somebody else took.  (AsyncReplayTier::check_and_insert over    *)
(* each store)                                                             *)
Once == INSTANCE ReplayOnce WITH closed <- {n \in Nonce : ~InWindow(n)}
ImplementsReplayOnce == Once!Spec

(* The account never falls below what the store holds for this replica:    *)
(* every entry still owed its retention is charged to its principal on the *)
(* replica that wrote it.  (Charge, RetentionLedger)                       *)
Owes(r, a) ==
  {n \in Nonce : /\ PrincipalOf(n) = a /\ Retained(n) /\ clock <= retain_until(n)
                 /\ owner[n] # None /\ ReplicaOf(owner[n]) = r}
LedgerCoversStore ==
  \A r \in Replica, a \in Actor : Cardinality(Owes(r, a)) <= ledger[r].per_actor[a]

(* Until its window closes one presentation of a signed request is         *)
(* admitted, on all replicas, however long a call is on its way between    *)
(* its staleness check and the store.  (check_and_insert, compute_ttl)     *)
AdmittedOnceInWindow ==
  \A c, d \in Call :
    /\ NonceOf(c) = NonceOf(d) /\ InWindow(NonceOf(c))
    /\ verdict[c] = "Fresh" /\ verdict[d] = "Fresh"
    => c = d

=============================================================================
