---------------------------- MODULE LedgerMachine ---------------------------
(***************************************************************************)
(* One replica's ledger driven by any number of requests: a charge is      *)
(* taken before the store round trip and ends as committed, as released,   *)
(* or by the drop of its guard (async_replay/charge.rs).  Requests differ  *)
(* only by the actor they charge and the instant they are retained to.     *)
(***************************************************************************)
EXTENDS RetentionLedger

VARIABLES
  ledger,
  flight,        \* actor -> retain_until -> guards alive on that charge
  now            \* the verifier's clock

vars == <<ledger, flight, now>>

TypeOK ==
  /\ ledger \in Ledger /\ ledger.inserts_since_prune < ASYNC_PRUNE_EVERY_N_INSERTS
  /\ flight \in [Actor -> [Instant -> Nat]]
  /\ now \in Instant

Init ==
  /\ ledger = EmptyLedger
  /\ flight = [a \in Actor |-> [t \in Instant |-> 0]]
  /\ now = 0

(* Charge::reserve, admitted: the guard is alive from here on.             *)
Reserved(a, t) ==
  LET p == PruneIfDue(ledger, now)
  IN /\ t > now
     /\ ~Refuses(p, a)
     /\ ledger' = AfterReserve(ledger, a, now)
     /\ flight' = [flight EXCEPT ![a][t] = @ + 1]
     /\ UNCHANGED now

(* Charge::reserve, refused before the store is touched.                   *)
ReserveRefused(a) ==
  LET p == PruneIfDue(ledger, now)
  IN /\ Refuses(p, a)
     /\ ledger' = AfterReserve(ledger, a, now)
     /\ UNCHANGED <<flight, now>>

(* Charge::commit: the store answered Fresh.                               *)
Committed(a, t) ==
  /\ flight[a][t] > 0
  /\ ledger' = Commit(ledger, a, t)
  /\ flight' = [flight EXCEPT ![a][t] = @ - 1]
  /\ UNCHANGED now

(* Charge::release_proven_absent: the store answered Replay.               *)
ReleasedProvenAbsent(a, t) ==
  /\ flight[a][t] > 0
  /\ ledger' = Release(ledger, a)
  /\ flight' = [flight EXCEPT ![a][t] = @ - 1]
  /\ UNCHANGED now

(* Mutant of Dropped: the guard forgets its charge.                        *)
DroppedForgotten(a, t) ==
  /\ flight[a][t] > 0
  /\ flight' = [flight EXCEPT ![a][t] = @ - 1]
  /\ UNCHANGED <<ledger, now>>

(* Drop for Charge, still Indeterminate: an error, or a future dropped.    *)
Dropped(a, t) ==
  /\ flight[a][t] > 0
  /\ ledger' = Commit(ledger, a, t)
  /\ flight' = [flight EXCEPT ![a][t] = @ - 1]
  /\ UNCHANGED now

Tick ==
  /\ now < Horizon
  /\ now' = now + 1
  /\ UNCHANGED <<ledger, flight>>

Next ==
  \/ \E a \in Actor, t \in Instant :
       \/ Reserved(a, t)
       \/ Committed(a, t)
       \/ ReleasedProvenAbsent(a, t)
       \/ Dropped(a, t)
  \/ \E a \in Actor : ReserveRefused(a)
  \/ Tick

Spec == Init /\ [][Next]_vars

-----------------------------------------------------------------------------
InFlight(a) == MapThenSumSet(LAMBDA t : flight[a][t], Instant)
Settled(a) == MapThenSumSet(LAMBDA t : ledger.by_expiry[t][a], Instant)

(* The totals the budget is decided on are the charges that exist: however *)
(* a guard ends (committed, released or dropped at an await) and however   *)
(* late the prune comes, no charge is counted twice, leaked or lost.       *)
(* (Charge::drop, RetentionLedger::commit, release, LedgerState::prune)    *)
AccountExact ==
  /\ ledger.outstanding = MapThenSumSet(InFlight, Actor)
  /\ ledger.committed = MapThenSumSet(Settled, Actor)
  /\ \A a \in Actor : ledger.per_actor[a] = InFlight(a) + Settled(a)

(* One principal never spends the reserve, whatever it has in flight at    *)
(* once and whoever else comes and goes.  (RetentionLedger::reserve)       *)
OneActorNeverSpendsReserve == \A a \in Actor : ledger.per_actor[a] <= Spendable(max_entries)
=============================================================================
