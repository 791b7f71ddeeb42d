--------------------------- MODULE RetentionLedger --------------------------
(***************************************************************************)
(* The retention account of async_replay/retention_ledger.rs and the       *)
(* budget rule of async_replay/bounds.rs, as operators on one ledger.      *)
(*                                                                         *)
(* per_actor   actor -> entries charged to it (an actor at 0 has no row)   *)
(* by_expiry   instant -> actor -> settled charges that end there          *)
(* committed   settled charges; outstanding: charges still in flight       *)
(***************************************************************************)
EXTENDS Integers, FiniteSets, FiniteSetsExt

CONSTANTS
  Actor,                        \* principals the verifier resolves
  Horizon,                      \* last instant of the model
  max_entries,                  \* RetentionLedger::max_entries
  ASYNC_PRUNE_EVERY_N_INSERTS

ASYNC_RESERVE_DIVISOR == 5

Instant == 0..Horizon

ASSUME LedgerAssumption ==
  /\ Horizon \in Nat
  /\ max_entries \in Nat \ {0}
  /\ ASYNC_PRUNE_EVERY_N_INSERTS \in Nat \ {0}

EmptyLedger ==
  [per_actor |-> [a \in Actor |-> 0],
   by_expiry |-> [t \in Instant |-> [a \in Actor |-> 0]],
   committed |-> 0, outstanding |-> 0, inserts_since_prune |-> 0]

Ledger ==
  [per_actor : [Actor -> Nat], by_expiry : [Instant -> [Actor -> Nat]],
   committed : Nat, outstanding : Nat, inserts_since_prune : Nat]

saturating_sub(m, n) == IF m > n THEN m - n ELSE 0

(* What the reserve leaves of the ceiling.                                 *)
Spendable(max) == saturating_sub(max, max \div ASYNC_RESERVE_DIVISOR)

per_actor_budget(max, actors) == Max({1, Spendable(max) \div Max({1, actors})})

under_pressure(len, max) == len >= Spendable(max)

Holders(charges) == {a \in Actor : charges[a] > 0}

(* Mutant of Held: a charge in flight is not counted yet.                  *)
HeldSettledOnly(l) == l.committed

Held(l) == l.committed + l.outstanding

(* BTreeMap::split_off keeps now itself.                                   *)
Dead(now) == {t \in Instant : t < now}

DeadOf(l, now, a) == MapThenSumSet(LAMBDA t : l.by_expiry[t][a], Dead(now))

(* Drops the settled charges that have ended.                              *)
Prune(l, now) ==
  [l EXCEPT !.by_expiry = [t \in Instant |->
                             IF t \in Dead(now) THEN [a \in Actor |-> 0] ELSE l.by_expiry[t]],
            !.committed = saturating_sub(@, MapThenSumSet(LAMBDA a : DeadOf(l, now, a), Actor)),
            !.per_actor = [a \in Actor |-> saturating_sub(l.per_actor[a], DeadOf(l, now, a))]]

(* Mutant of PruneIfDue: the counter is not reset by the prune.            *)
PruneIfDueUnreset(l, now) ==
  IF l.inserts_since_prune + 1 >= ASYNC_PRUNE_EVERY_N_INSERTS
    THEN Prune([l EXCEPT !.inserts_since_prune = @ + 1], now)
    ELSE [l EXCEPT !.inserts_since_prune = @ + 1]

PruneIfDue(l, now) ==
  IF l.inserts_since_prune + 1 >= ASYNC_PRUNE_EVERY_N_INSERTS
    THEN Prune([l EXCEPT !.inserts_since_prune = 0], now)
    ELSE [l EXCEPT !.inserts_since_prune = @ + 1]

OverFairShare(charges, len, a) ==
  /\ under_pressure(len, max_entries)
  /\ charges[a] >= per_actor_budget(max_entries, Cardinality(Holders(charges)))

Refuses(l, a) == OverFairShare(l.per_actor, Held(l), a) \/ Held(l) >= max_entries

(* reserve: the prune it may trigger happens whether or not it refuses.    *)
AfterReserve(l, a, now) ==
  LET p == PruneIfDue(l, now)
  IN IF Refuses(p, a)
       THEN p
       ELSE [p EXCEPT !.per_actor[a] = @ + 1, !.outstanding = @ + 1]

Commit(l, a, retain_until) ==
  [l EXCEPT !.outstanding = saturating_sub(@, 1),
            !.committed = @ + 1,
            !.by_expiry[retain_until][a] = @ + 1]

Release(l, a) ==
  [l EXCEPT !.outstanding = saturating_sub(@, 1),
            !.per_actor[a] = saturating_sub(@, 1)]
=============================================================================
