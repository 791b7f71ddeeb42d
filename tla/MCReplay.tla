------------------------------ MODULE MCReplay ------------------------------
(***************************************************************************)
(* The replay tier for TLC, a store at a time: c1 and c2 present one       *)
(* request (over Redis to two replicas, over etcd to one, which pools its  *)
(* leases), c3, with the L1 and in memory, another, and c4, in memory, one *)
(* that is retained longer.  `account` runs the ledger alone under any     *)
(* guards.                                                                 *)
(***************************************************************************)
EXTENDS ReplayTier

CONSTANTS c1, c2, c3, c4, n1, n2, n3, r1, r2, a1, a2, s1

VARIABLES scene, account, flight, now

MCNonceOf(c) == CASE c = c3 -> n2 [] c = c4 -> n3 [] OTHER -> n1
MCReplicaOf(c) == IF c = c2 THEN r2 ELSE r1
OneReplica(c) == r1
MCPrincipalOf(n) == a1
TwoPrincipals(n) == IF n = n1 THEN a1 ELSE a2
MCExpiresAt(n) == 1
ThirdLater(n) == IF n = n3 THEN 2 ELSE 1

L1 == INSTANCE ReplayTier WITH
        ReplicaOf <- OneReplica, quorum <- 0, MaxFailovers <- 0, L1Capacity <- 1
Etcd == INSTANCE ReplayTier WITH Backend <- "etcd", ReplicaOf <- OneReplica
Memory == INSTANCE ReplayTier WITH
            Backend <- "memory", ReplicaOf <- OneReplica, PrincipalOf <- TwoPrincipals,
            ExpiresAt <- ThirdLater, max_entries <- 2, ASYNC_PRUNE_EVERY_N_INSERTS <- 4
Account == INSTANCE LedgerMachine WITH
             ledger <- account, ASYNC_PRUNE_EVERY_N_INSERTS <- 2

accountVars == <<account, flight, now>>
SceneVars == <<vars, accountVars, scene>>

Presented(s) ==
  CASE s \in {"redis", "etcd"} -> {c1, c2}
    [] s = "l1" -> {c1, c2, c3}
    [] s = "memory" -> Call
    [] s = "account" -> {}

SceneInit ==
  /\ scene \in {"redis", "l1", "etcd", "memory", "account"}
  /\ Start(Presented(scene)) /\ (scene # "redis" => master = s1)
  /\ Account!Init

SceneNext ==
  /\ \/ scene = "redis"  /\ Next /\ UNCHANGED accountVars
     \/ scene = "l1"     /\ L1!Next /\ UNCHANGED accountVars
     \/ scene = "etcd"   /\ Etcd!Next /\ UNCHANGED accountVars
     \/ scene = "memory" /\ Memory!Next /\ UNCHANGED accountVars
     \/ scene = "account" /\ Account!Next /\ UNCHANGED vars
  /\ UNCHANGED scene

SceneSpec == SceneInit /\ [][SceneNext]_SceneVars
RedisSpec == SceneInit /\ scene = "redis" /\ [][SceneNext]_SceneVars

(* Every scene's state has its type.                                       *)
TypesOK ==
  CASE scene = "l1" -> L1!TypeOK
    [] scene = "memory" -> Memory!TypeOK
    [] scene = "account" -> Account!TypeOK
    [] OTHER -> TypeOK

(* What the abstract tier sees.  Over etcd a call's second txn may meet the *)
(* key its first one wrote: what it is told then says that the store gave   *)
(* no answer.                                                               *)
Promise == INSTANCE ReplayOnce WITH
             closed <- IF scene = "memory" THEN {n \in Nonce : ~Memory!InWindow(n)}
                       ELSE {n \in Nonce : ~InWindow(n)},
             verdict <- [c \in Call |->
                           IF scene = "etcd" /\ attempt[c] = 2 /\ verdict[c] = "Replay"
                           THEN "Unavailable" ELSE verdict[c]]

(* Over every store, with and without the L1, the tier implements          *)
(* ReplayOnce: however its calls, commands, failovers and clock            *)
(* interleave, one presentation of a signed request is admitted until its  *)
(* window closes, and Replay is said only of a nonce somebody else took,   *)
(* unless the call itself had tried twice.                                 *)
TierImplementsReplayOnce == Promise!Spec

LedgerCovers ==
  CASE scene \in {"redis", "account"} -> LedgerCoversStore
    [] scene = "l1" -> L1!LedgerCoversStore
    [] scene = "memory" -> Memory!LedgerCoversStore
    [] scene = "etcd" -> TRUE

(* The retention account is true: it never falls below what the store      *)
(* holds, over every store but etcd, whose retry hands back a charge it    *)
(* owes (with_owned_charge); its totals are the charges that exist,        *)
(* however each guard ends and however late the prune comes (Charge::drop, *)
(* commit, release, prune); and one principal never spends the reserve.    *)
AccountTrue ==
  /\ TypesOK /\ LedgerCovers
  /\ Account!AccountExact /\ Account!OneActorNeverSpendsReserve
=============================================================================
