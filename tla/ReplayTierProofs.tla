-------------------------- MODULE ReplayTierProofs --------------------------
(***************************************************************************)
(* Until its window closes one presentation of a signed request is         *)
(* admitted, for any number of calls, nonces, replicas and Redis servers,  *)
(* for any ledger and however long a call is on its way, if over Redis the *)
(* WAIT quorum leaves out no server that may take over.                    *)
(***************************************************************************)
EXTENDS ReplayTier, FiniteSetTheorems, TLAPS

(* What the deployment has to provide: no failover, or a WAIT quorum that  *)
(* takes in every server that may be elected.                              *)
QuorumCovers ==
  Backend = "redis" =>
    MaxFailovers = 0 \/ (IsFiniteSet(Server) /\ quorum + 1 >= Cardinality(Server))

Phase == {"new", "verified", "granting", "waiting", "over"}

(* The types the argument needs: the ledger and the charges have no part.  *)
Typed ==
  /\ clock \in Nat
  /\ phase \in [Call -> Phase]
  /\ verified_at \in [Call -> Nat] /\ sampled \in [Call -> Nat]
  /\ verdict \in [Call -> Verdict] /\ reply \in [Call -> Reply]
  /\ attempt \in [Call -> Nat]
  /\ net \subseteq [c : Call, n : Nat, id : Nat]
  /\ copies \in [Server -> [Nonce -> Nat]]
  /\ master \in Server /\ failovers \in 0 .. MaxFailovers
  /\ etcd \in [Nonce -> Nat] /\ leases \in Seq(Nat)
  /\ pool \in [Replica -> [Instant -> Nat]]
  /\ seen \subseteq Nonce
  /\ owner \in [Nonce -> Call \cup {None}]

(* A call on its way has read the clock before; only a waiting call has    *)
(* heard anything.                                                         *)
Flights ==
  \A c \in Call :
    /\ sampled[c] <= clock
    /\ phase[c] \in {"granting", "waiting"} => Backend # "memory"
    /\ phase[c] = "granting" => Backend = "etcd"
    /\ phase[c] # "waiting" => reply[c] = "none"

Leased(id, t) == id \in 1 .. Len(leases) /\ leases[id] >= t

(* Whatever a store keeps, it keeps to the end of the window, however late *)
(* it was written.                                                         *)
KeptLongEnough ==
  /\ \A s \in Server, n \in Nonce : copies[s][n] = 0 \/ copies[s][n] >= retain_until(n)
  /\ \A n \in Nonce : etcd[n] = 0 \/ Leased(etcd[n], retain_until(n))
  /\ \A r \in Replica, t \in Instant : pool[r][t] = 0 \/ Leased(pool[r][t], t)
  /\ Backend = "etcd" => \A m \in net : Leased(m.id, retain_until(NonceOf(m.c)))

(* The servers that may answer for an admitted nonce.                      *)
Electable == IF MaxFailovers = 0 THEN {master} ELSE Server

(* In its window an admitted nonce is where the next presentation looks.   *)
AdmittedIsKept ==
  \A c \in Call : verdict[c] = "Fresh" /\ InWindow(NonceOf(c)) =>
    LET n == NonceOf(c) IN
    /\ Backend = "redis" => \A s \in Electable : copies[s][n] >= retain_until(n)
    /\ Backend = "etcd" => etcd[n] # 0
    /\ Backend = "memory" => n \in seen

(* A call whose write took effect and that waits to hear so.               *)
Winning(c) == phase[c] = "waiting" /\ reply[c] = "set"

(* In the window it is the only one, and nobody was admitted before it.    *)
WinnerIsSole ==
  \A c \in Call : Winning(c) /\ InWindow(NonceOf(c)) =>
    /\ Retained(NonceOf(c)) /\ ~Admitted(NonceOf(c))
    /\ \A d \in Call : NonceOf(d) = NonceOf(c) /\ Winning(d) => d = c

IInv == Typed /\ Flights /\ KeptLongEnough /\ AdmittedIsKept /\ WinnerIsSole /\ AdmittedOnceInWindow

-----------------------------------------------------------------------------
(* The lifetime asked of a store reaches to the end of the window, and is  *)
(* never zero.  (compute_ttl)                                              *)
LEMMA TtlReaches ==
  ASSUME NEW n \in Nonce, NEW now \in Nat
  PROVE  /\ retain_until(n) \in Instant /\ retain_until(n) \in Nat
         /\ compute_ttl(n, now) \in Nat \ {0}
         /\ now + compute_ttl(n, now) >= retain_until(n)
<1> DEFINE k == retain_until(n) - now
           S == {1, k}
<1>1. retain_until(n) \in Nat /\ retain_until(n) \in Instant
  BY TierAssumption, LedgerAssumption DEF retain_until, Instant
<1>2. k \in Int
  BY <1>1
<1>3. \E x \in S : \A y \in S : x >= y
  <2>1. CASE k >= 1
    BY <2>1, <1>2
  <2>2. CASE k < 1
    BY <2>2, <1>2
  <2> QED BY <2>1, <2>2, <1>2
<1>4. Max(S) \in S /\ \A y \in S : Max(S) >= y
  BY <1>3 DEF Max
<1>5. compute_ttl(n, now) \in Int /\ compute_ttl(n, now) >= 1 /\ compute_ttl(n, now) >= k
  BY <1>4, <1>2 DEF compute_ttl
<1> QED BY <1>5, <1>1

(* A quorum that leaves nobody out: once WAIT reports it, every server     *)
(* holds the key.  (wait_quorum_satisfied)                                 *)
LEMMA QuorumIsAll ==
  ASSUME IsFiniteSet(Server), master \in Server, quorum + 1 >= Cardinality(Server),
         NEW n, wait_quorum_satisfied(Acked(n))
  PROVE  \A s \in Server \ {master} : OnRedis(s, n)
<1> DEFINE O == Server \ {master}
           H == {s \in O : OnRedis(s, n)}
<1>1. IsFiniteSet(O) /\ Cardinality(O) = Cardinality(Server) - 1
  BY FS_RemoveElement
<1>2. H \subseteq O
  OBVIOUS
<1>3. IsFiniteSet(H) /\ Cardinality(H) <= Cardinality(O) /\ (Cardinality(H) = Cardinality(O) => H = O)
  BY <1>1, <1>2, FS_Subset
<1>4. Cardinality(H) \in Nat /\ Cardinality(O) \in Nat /\ Cardinality(Server) \in Nat
  BY <1>1, <1>3, FS_CardinalityType
<1>5. Cardinality(H) >= quorum
  BY DEF wait_quorum_satisfied, Acked
<1>6. H = O
  BY <1>1, <1>3, <1>4, <1>5, TierAssumption
<1> QED BY <1>6

-----------------------------------------------------------------------------
(* The invariant holds at the start.                                       *)
LEMMA InitIInv == ASSUME Init PROVE IInv
<1> USE DEF Init, Start
<1>1. Typed
  BY TierAssumption DEF Typed, Phase, Verdict, Reply
<1>2. Flights
  BY DEF Flights
<1>3. KeptLongEnough
  BY DEF KeptLongEnough
<1>4. AdmittedIsKept /\ AdmittedOnceInWindow
  BY DEF InWindow, AdmittedIsKept, AdmittedOnceInWindow
<1>5. WinnerIsSole
  BY DEF InWindow, WinnerIsSole, Winning
<1> QED BY <1>1, <1>2, <1>3, <1>4, <1>5 DEF IInv

(* What a return leaves alone: the stores and the clock.                   *)
Undisturbed ==
  UNCHANGED <<clock, verified_at, sampled, attempt, net, redisVars, etcdVars>>

(* A call that ends without being admitted disturbs nothing.               *)
LEMMA TurnedAway ==
  ASSUME IInv, NEW c \in Call, NEW v \in {"Replay", "Unavailable"}, NEW l,
         Return(c, v, l), Undisturbed, owner' \in [Nonce -> Call \cup {None}],
         seen' \in {seen, SeenAfterPrune}
  PROVE  IInv'
<1> USE DEF IInv, Undisturbed, redisVars, etcdVars, Return
<1>0. \A d \in Call : /\ verdict'[d] = "Fresh" => verdict[d] = "Fresh"
                      /\ Winning(d)' => Winning(d) /\ d # c
                      /\ NonceOf(d) \in Nonce
  BY TierAssumption DEF Typed, Winning
<1>1. Typed'
  BY DEF Typed, Phase, Verdict, Reply, SeenAfterPrune
<1>2. Flights'
  BY DEF Flights, Typed
<1>3. KeptLongEnough'
  BY DEF KeptLongEnough, Leased
<1>4. AdmittedIsKept'
  <2> SUFFICES ASSUME NEW d \in Call, InWindow(NonceOf(d)), NonceOf(d) \in seen
               PROVE  NonceOf(d) \in seen'
    BY <1>0 DEF InWindow, AdmittedIsKept, Electable
  <2>1. retain_until(NonceOf(d)) \in Nat /\ clock \in Nat
    BY <1>0, TierAssumption DEF retain_until, Typed
  <2> QED BY <2>1 DEF SeenAfterPrune, InWindow
<1>5. WinnerIsSole'
  BY <1>0 DEF InWindow, WinnerIsSole, Retained, OnRedis, OnEtcd, Winning, Admitted, Flights
<1>6. AdmittedOnceInWindow'
  BY <1>0 DEF InWindow, AdmittedOnceInWindow
<1> QED BY <1>1, <1>2, <1>3, <1>4, <1>5, <1>6

(* The winner hears of its write, and it is where every later presentation *)
(* will look.                                                              *)
LEMMA Admits ==
  ASSUME IInv, NEW c \in Call, NEW l, Return(c, "Fresh", l), Undisturbed, UNCHANGED <<seen, owner>>,
         Winning(c),
         Backend = "redis" /\ InWindow(NonceOf(c)) => \A s \in Electable : OnRedis(s, NonceOf(c))
  PROVE  IInv'
<1> USE DEF IInv, Undisturbed, redisVars, etcdVars, Return
<1>0. \A d \in Call : /\ verdict'[d] = "Fresh" => verdict[d] = "Fresh" \/ d = c
                      /\ Winning(d)' => Winning(d) /\ d # c
                      /\ NonceOf(d) \in Nonce
  BY TierAssumption DEF Typed, Winning
<1>1. Typed'
  BY DEF Typed, Phase, Verdict, Reply
<1>2. Flights'
  BY DEF Flights, Typed
<1>3. KeptLongEnough'
  BY DEF KeptLongEnough, Leased
<1>4. AdmittedIsKept'
  <2>1. Backend # "memory" /\ (InWindow(NonceOf(c)) => Retained(NonceOf(c)))
    BY DEF WinnerIsSole, Flights, Winning
  <2>2. Backend = "redis" /\ InWindow(NonceOf(c)) =>
          \A s \in Electable : copies[s][NonceOf(c)] >= retain_until(NonceOf(c))
    <3> SUFFICES ASSUME Backend = "redis", InWindow(NonceOf(c)), NEW s \in Electable
                 PROVE  copies[s][NonceOf(c)] >= retain_until(NonceOf(c))
      OBVIOUS
    <3>1. s \in Server /\ copies[s][NonceOf(c)] > clock
      BY DEF Electable, Typed, OnRedis
    <3> QED BY <3>1, <1>0 DEF KeptLongEnough, Typed
  <2>3. Backend = "etcd" /\ InWindow(NonceOf(c)) => etcd[NonceOf(c)] # 0
    BY <2>1 DEF Retained, OnEtcd
  <2> QED BY <1>0, <2>1, <2>2, <2>3 DEF InWindow, AdmittedIsKept, Electable
<1>5. WinnerIsSole'
  <2>1. \A d \in Call : Winning(d)' /\ InWindow(NonceOf(d)) => NonceOf(d) # NonceOf(c)
    BY <1>0 DEF InWindow, WinnerIsSole
  <2> QED BY <1>0, <2>1 DEF InWindow, WinnerIsSole, Retained, OnRedis, OnEtcd, Admitted
<1>6. AdmittedOnceInWindow'
  BY <1>0 DEF InWindow, AdmittedOnceInWindow, WinnerIsSole, Admitted
<1> QED BY <1>1, <1>2, <1>3, <1>4, <1>5, <1>6

-----------------------------------------------------------------------------
(* One lemma per kind of step.                                             *)
LEMMA VerifyKeeps ==
  ASSUME IInv, NEW c \in Call, Verify(c)
  PROVE  IInv'
<1> USE DEF IInv, Verify, redisVars, etcdVars, memVars
<1>0. \A d \in Call : Winning(d)' => Winning(d)
  BY DEF Typed, Winning
<1>1. Typed'
  BY DEF Typed, Phase
<1>2. Flights'
  BY DEF Flights, Typed
<1>3. KeptLongEnough'
  BY DEF KeptLongEnough, Leased
<1>4. AdmittedIsKept'
  BY DEF InWindow, AdmittedIsKept, Electable
<1>5. WinnerIsSole'
  BY <1>0 DEF InWindow, WinnerIsSole, Retained, OnRedis, OnEtcd, Admitted
<1>6. AdmittedOnceInWindow'
  BY DEF InWindow, AdmittedOnceInWindow
<1> QED BY <1>1, <1>2, <1>3, <1>4, <1>5, <1>6

(* A call that goes out has nothing to hear yet, and no store has changed. *)
LEMMA SendsKeeps ==
  ASSUME IInv, NEW c \in Call, NEW p \in {"granting", "waiting"}, Sends(c, p),
         p = "granting" => Backend = "etcd", Backend # "memory",
         attempt' \in [Call -> Nat], UNCHANGED <<etcd, leases>>,
         net' \subseteq [c : Call, n : Nat, id : Nat], pool' \in [Replica -> [Instant -> Nat]],
         \A r \in Replica, t \in Instant : pool'[r][t] = 0 \/ Leased(pool'[r][t], t),
         Backend = "etcd" => \A m \in net' : Leased(m.id, retain_until(NonceOf(m.c)))
  PROVE  IInv'
<1> USE DEF IInv, Sends, redisVars, memVars
<1>0. \A d \in Call : Winning(d)' => Winning(d)
  BY DEF Typed, Winning, Flights, Submits
<1>1. Typed'
  BY DEF Typed, Phase
<1>2. Flights'
  BY DEF Flights, Typed, Submits
<1>3. KeptLongEnough'
  BY DEF KeptLongEnough, Leased
<1>4. AdmittedIsKept'
  BY DEF InWindow, AdmittedIsKept, Electable
<1>5. WinnerIsSole'
  BY <1>0 DEF InWindow, WinnerIsSole, Retained, OnRedis, OnEtcd, Admitted
<1>6. AdmittedOnceInWindow'
  BY DEF InWindow, AdmittedOnceInWindow
<1> QED BY <1>1, <1>2, <1>3, <1>4, <1>5, <1>6

LEMMA SendSetKeeps ==
  ASSUME IInv, NEW c \in Call, SendSet(c)
  PROVE  IInv'
<1>1. /\ Sends(c, "waiting") /\ Backend = "redis" /\ UNCHANGED <<etcd, leases, pool>>
      /\ attempt' = [attempt EXCEPT ![c] = 1]
      /\ net' = net \cup {[c |-> c, n |-> 1, id |-> 0]}
  BY DEF SendSet, etcdVars
<1>2. attempt' \in [Call -> Nat] /\ net' \subseteq [c : Call, n : Nat, id : Nat]
  BY <1>1 DEF IInv, Typed
<1> QED BY <1>1, <1>2, SendsKeeps DEF IInv, Typed, KeptLongEnough

LEMMA SendTxnKeeps ==
  ASSUME IInv, NEW c \in Call, SendTxn(c)
  PROVE  IInv'
<1> DEFINE p == PoolAt(ReplicaOf(c))
           id == p[retain_until(NonceOf(c))]
<1>1. /\ Backend = "etcd" /\ UNCHANGED <<etcd, leases>>
      /\ pool' = [pool EXCEPT ![ReplicaOf(c)] = p]
  BY DEF SendTxn
<1>2. NonceOf(c) \in Nonce /\ ReplicaOf(c) \in Replica
  BY TierAssumption
<1>3. retain_until(NonceOf(c)) \in Instant
  BY <1>2, TierAssumption, LedgerAssumption DEF retain_until, Instant
<1>4. /\ p \in [Instant -> Nat]
      /\ \A t \in Instant : p[t] = 0 \/ Leased(p[t], t)
  BY <1>2 DEF IInv, Typed, KeptLongEnough, PoolAt
<1>5. /\ pool' \in [Replica -> [Instant -> Nat]]
      /\ \A r \in Replica, t \in Instant : pool'[r][t] = 0 \/ Leased(pool'[r][t], t)
  BY <1>1, <1>2, <1>4 DEF IInv, Typed, KeptLongEnough
<1>6. CASE id # 0
  <2>1. /\ Sends(c, "waiting") /\ attempt' = [attempt EXCEPT ![c] = 1]
        /\ net' = net \cup {[c |-> c, n |-> 1, id |-> id]}
    BY <1>6 DEF SendTxn
  <2>2. id \in Nat /\ Leased(id, retain_until(NonceOf(c)))
    BY <1>6, <1>3, <1>4
  <2>3. attempt' \in [Call -> Nat] /\ net' \subseteq [c : Call, n : Nat, id : Nat]
    BY <2>1, <2>2 DEF IInv, Typed
  <2>4. \A m \in net' : Leased(m.id, retain_until(NonceOf(m.c)))
    BY <2>1, <2>2, <1>1 DEF IInv, KeptLongEnough
  <2> QED BY <1>1, <1>5, <2>1, <2>3, <2>4, SendsKeeps
<1>7. CASE id = 0
  <2>1. Sends(c, "granting") /\ UNCHANGED <<attempt, net>>
    BY <1>7 DEF SendTxn
  <2> QED BY <1>1, <1>5, <2>1, SendsKeeps DEF IInv, Typed, KeptLongEnough
<1> QED BY <1>6, <1>7

LEMMA GrantedKeeps ==
  ASSUME IInv, NEW c \in Call, Granted(c)
  PROVE  IInv'
<1> DEFINE id == Len(leases) + 1
           n == NonceOf(c)
           e == clock + compute_ttl(n, sampled[c])
<1> USE DEF IInv
<1>0. /\ n \in Nonce /\ clock \in Nat /\ phase[c] = "granting"
      /\ sampled[c] \in Nat /\ sampled[c] <= clock
  BY TierAssumption DEF Granted, Flights, Typed
<1>1. /\ n \in Nonce /\ ReplicaOf(c) \in Replica /\ retain_until(n) \in Instant
      /\ retain_until(n) \in Nat /\ e \in Nat /\ e >= retain_until(n)
      /\ clock \in Nat /\ phase[c] = "granting"
  <2> HIDE DEF n
  <2>1. /\ retain_until(n) \in Instant /\ retain_until(n) \in Nat
        /\ compute_ttl(n, sampled[c]) \in Nat \ {0}
        /\ sampled[c] + compute_ttl(n, sampled[c]) >= retain_until(n)
    BY <1>0, TtlReaches
  <2> QED BY <1>0, <2>1, TierAssumption
<1>2. /\ leases' = Append(leases, e)
      /\ pool' = [pool EXCEPT ![ReplicaOf(c)][retain_until(n)] = id]
      /\ attempt' = [attempt EXCEPT ![c] = @ + 1]
      /\ net' = net \cup {[c |-> c, n |-> attempt[c] + 1, id |-> id]}
      /\ phase' = [phase EXCEPT ![c] = "waiting"]
      /\ UNCHANGED <<clock, verified_at, sampled, verdict, reply, copies, master, failovers, etcd,
                     seen, owner>>
  BY DEF Granted, redisVars, memVars
<1> HIDE DEF id, e, n
<1>3. /\ leases' \in Seq(Nat) /\ Len(leases') = Len(leases) + 1 /\ Len(leases) \in Nat
      /\ id \in 1 .. Len(leases') /\ leases'[id] = e
      /\ \A i \in 1 .. Len(leases) : i \in 1 .. Len(leases') /\ leases'[i] = leases[i]
  BY <1>1, <1>2 DEF Typed, id
<1>5. Typed'
  <2>1. net' \subseteq [c : Call, n : Nat, id : Nat] /\ attempt' \in [Call -> Nat]
    BY <1>2, <1>3 DEF Typed, id
  <2>2. pool' \in [Replica -> [Instant -> Nat]]
    BY <1>1, <1>2, <1>3 DEF Typed
  <2> QED BY <1>2, <1>3, <2>1, <2>2 DEF Typed, Phase
<1>6. Flights'
  BY <1>1, <1>2 DEF Flights, Typed
<1>7. KeptLongEnough'
  <2>1. \A m \in Nonce : (etcd[m] = 0 \/ Leased(etcd[m], retain_until(m)))'
    BY <1>2, <1>3, TtlReaches DEF KeptLongEnough, Leased
  <2>2. \A r \in Replica, t \in Instant : (pool[r][t] = 0 \/ Leased(pool[r][t], t))'
    BY <1>1, <1>2, <1>3 DEF KeptLongEnough, Typed, Leased
  <2>3. Backend = "etcd" => \A m \in net' : Leased(m.id, retain_until(NonceOf(m.c)))'
    <3> SUFFICES ASSUME Backend = "etcd", NEW m \in net'
                 PROVE  Leased(m.id, retain_until(NonceOf(m.c)))'
      OBVIOUS
    <3>1. CASE m \in net
      <4>1. m.id \in 1 .. Len(leases) /\ leases[m.id] >= retain_until(NonceOf(m.c))
        BY <3>1 DEF KeptLongEnough, Leased
      <4> QED BY <1>3, <4>1 DEF Leased
    <3>2. CASE m = [c |-> c, n |-> attempt[c] + 1, id |-> id]
      BY <1>1, <1>3, <3>2 DEF Leased, n
    <3> QED BY <1>2, <3>1, <3>2
  <2> QED BY <1>2, <2>1, <2>2, <2>3 DEF KeptLongEnough
<1>8. AdmittedIsKept' /\ AdmittedOnceInWindow'
  BY <1>2 DEF InWindow, AdmittedIsKept, Electable, AdmittedOnceInWindow
<1>9. WinnerIsSole'
  <2>1. \A d \in Call : Winning(d)' => Winning(d)
    BY <1>1, <1>2 DEF Flights, Typed, Winning
  <2>2. \A m \in Nonce : Retained(m) => Retained(m)'
    BY <1>2, <1>3 DEF Retained, OnRedis, OnEtcd, KeptLongEnough, Leased
  <2> QED BY <1>2, <2>1, <2>2, TierAssumption DEF InWindow, WinnerIsSole, Admitted
<1> QED BY <1>5, <1>6, <1>7, <1>8, <1>9

(* In its window a nonce the store does not hold was not admitted.         *)
LEMMA AbsentIsFree ==
  ASSUME IInv, NEW n \in Nonce, ~Retained(n), InWindow(n)
  PROVE  ~Admitted(n)
<1> USE DEF IInv
<1> SUFFICES ASSUME NEW d \in Call, NonceOf(d) = n, verdict[d] = "Fresh"
             PROVE  FALSE
  BY DEF Admitted
<1>1. clock \in Nat /\ retain_until(n) \in Nat /\ clock < retain_until(n)
  BY TierAssumption DEF InWindow, Typed, retain_until
<1>2. CASE Backend = "redis"
  <2>1. copies[master][n] >= retain_until(n) /\ copies[master][n] \in Nat
    BY <1>2 DEF AdmittedIsKept, Electable, Typed
  <2> QED BY <1>1, <1>2, <2>1 DEF Retained, OnRedis
<1>3. CASE Backend = "etcd"
  <2>1. etcd[n] # 0
    BY <1>3 DEF AdmittedIsKept
  <2>2. Leased(etcd[n], retain_until(n))
    BY <2>1 DEF KeptLongEnough
  <2>3. leases[etcd[n]] \in Nat
    BY <2>2 DEF Typed, Leased
  <2> QED BY <1>1, <1>3, <2>1, <2>2, <2>3 DEF Retained, OnEtcd, Leased
<1>4. CASE Backend = "memory"
  BY <1>4 DEF AdmittedIsKept, Retained
<1> QED BY <1>2, <1>3, <1>4, TierAssumption

(* What a store that writes a key leaves alone.                            *)
Unanswered ==
  UNCHANGED <<clock, phase, verified_at, sampled, verdict, attempt, master, failovers,
              leases, pool, seen>>

(* A write of an absent key, and what its caller hears of it: in the       *)
(* window nobody was admitted before, nor waits to hear of a write.        *)
LEMMA WriteWins ==
  ASSUME IInv, NEW m \in net, ~Retained(NonceOf(m.c)), Retained(NonceOf(m.c))', Unanswered,
         Answers(m, "set"),
         \A n \in Nonce : Retained(n) => Retained(n)', Backend # "memory"
  PROVE  WinnerIsSole'
<1> USE DEF IInv, Unanswered
<1>1. m.c \in Call /\ NonceOf(m.c) \in Nonce
  BY TierAssumption DEF Typed
<1>2. \A d \in Call : Winning(d)' => Winning(d) \/ (d = m.c /\ phase[d] = "waiting")
  BY <1>1 DEF Answers, Winning, Typed
<1>3. \A d \in Call : Winning(d) /\ InWindow(NonceOf(d)) => NonceOf(d) # NonceOf(m.c)
  BY DEF WinnerIsSole
<1>4. InWindow(NonceOf(m.c)) => ~Admitted(NonceOf(m.c))
  BY <1>1, AbsentIsFree
<1> QED BY <1>1, <1>2, <1>3, <1>4, TierAssumption DEF InWindow, WinnerIsSole, Admitted

(* An answer that is no "set" makes no winner.                             *)
LEMMA NoNewWinner ==
  ASSUME IInv, NEW m \in net, NEW a \in Reply \ {"set"}, Unanswered, UNCHANGED <<copies, etcd>>,
         Answers(m, a)
  PROVE  WinnerIsSole'
<1>1. \A d \in Call : Winning(d)' => Winning(d)
  BY DEF Answers, Winning, IInv, Typed, Unanswered
<1> QED BY <1>1 DEF InWindow, WinnerIsSole, Retained, OnRedis, OnEtcd, Admitted, IInv, Unanswered

(* What any executed command keeps, whatever it answers.                   *)
LEMMA AnswersKeeps ==
  ASSUME IInv, NEW m \in net, net' = net \ {m}, NEW a \in Reply, Answers(m, a), Unanswered
  PROVE  /\ reply' \in [Call -> Reply]
         /\ Flights' /\ AdmittedOnceInWindow'
<1>1. reply' \in [Call -> Reply]
  BY DEF Answers, IInv, Typed
<1>2. Flights'
  BY DEF Flights, Answers, IInv, Typed, Unanswered
<1>3. AdmittedOnceInWindow'
  BY DEF InWindow, AdmittedOnceInWindow, IInv, Unanswered
<1> QED BY <1>1, <1>2, <1>3

LEMMA ExecuteSetKeeps ==
  ASSUME IInv, NEW m \in net, ExecuteSet(m)
  PROVE  IInv'
<1> DEFINE n == NonceOf(m.c)
           e == clock + compute_ttl(n, sampled[m.c])
<1> USE DEF IInv
<1>1. m.c \in Call /\ n \in Nonce /\ master \in Server
  BY TierAssumption DEF Typed
<1>2. sampled[m.c] \in Nat /\ clock \in Nat /\ sampled[m.c] <= clock
  BY <1>1 DEF Flights, Typed
<1>3. e \in Nat /\ e > clock /\ e >= retain_until(n)
  <2> HIDE DEF n
  <2>1. /\ retain_until(n) \in Nat /\ compute_ttl(n, sampled[m.c]) \in Nat \ {0}
        /\ sampled[m.c] + compute_ttl(n, sampled[m.c]) >= retain_until(n)
    BY <1>1, <1>2, TtlReaches
  <2> QED BY <2>1, <1>2
<1>4. /\ Backend = "redis" /\ net' = net \ {m} /\ Unanswered /\ UNCHANGED etcd
      /\ \/ OnRedis(master, n) /\ Answers(m, "nil") /\ UNCHANGED <<copies, owner>>
         \/ /\ ~OnRedis(master, n) /\ copies' = [copies EXCEPT ![master][n] = e]
            /\ Answers(m, "set") /\ owner' = OwnerAfterWrite(m.c)
  BY DEF ExecuteSet, Unanswered, etcdVars, memVars
<1> HIDE DEF n, e
<1>5. PICK a \in Reply : Answers(m, a)
  BY <1>4 DEF Reply
<1>6. reply' \in [Call -> Reply] /\ Flights' /\ AdmittedOnceInWindow'
  BY <1>4, <1>5, AnswersKeeps
<1>7. owner' \in [Nonce -> Call \cup {None}]
  BY <1>1, <1>4 DEF Typed, OwnerAfterWrite, n
<1>8. copies' \in [Server -> [Nonce -> Nat]]
  <2>1. copies \in [Server -> [Nonce -> Nat]] /\ [copies[master] EXCEPT ![n] = e] \in [Nonce -> Nat]
    BY <1>1, <1>3 DEF Typed
  <2> QED BY <1>1, <1>4, <2>1
<1>9. Typed'
  BY <1>4, <1>6, <1>7, <1>8 DEF Typed, Unanswered
<1>10. \A s \in Server, k \in Nonce :
         copies'[s][k] = copies[s][k] \/ (s = master /\ k = n /\ copies'[s][k] = e)
  BY <1>1, <1>4 DEF Typed
<1>11. KeptLongEnough'
  <2>1. \A s \in Server, k \in Nonce : (copies[s][k] = 0 \/ copies[s][k] >= retain_until(k))'
    BY <1>3, <1>10 DEF KeptLongEnough
  <2> QED BY <1>4, <2>1 DEF KeptLongEnough, Leased, Unanswered
<1>12. AdmittedIsKept'
  <2>1. Electable' = Electable /\ Electable \subseteq Server
    BY <1>1, <1>4 DEF Electable, Unanswered
  <2> QED BY <1>3, <1>4, <1>10, <2>1, TierAssumption DEF InWindow, AdmittedIsKept, Unanswered
<1>13. WinnerIsSole'
  <2>1. CASE OnRedis(master, n) /\ Answers(m, "nil") /\ UNCHANGED <<copies, owner>>
    BY <1>4, <2>1, NoNewWinner DEF Reply
  <2>2. CASE /\ ~OnRedis(master, n) /\ copies' = [copies EXCEPT ![master][n] = e]
             /\ Answers(m, "set")
    <3>1. copies'[master][n] = e
      BY <1>1, <2>2 DEF Typed
    <3>2. ~Retained(NonceOf(m.c)) /\ Retained(NonceOf(m.c))'
      BY <1>1, <1>3, <1>4, <2>2, <3>1 DEF Retained, OnRedis, n, Unanswered
    <3>3. \A k \in Nonce : Retained(k) => Retained(k)'
      BY <1>1, <1>3, <1>4, <1>10 DEF Retained, OnRedis, Unanswered
    <3> QED BY <1>4, <2>2, <3>2, <3>3, WriteWins
  <2> QED BY <1>4, <2>1, <2>2
<1> QED BY <1>6, <1>9, <1>11, <1>12, <1>13

LEMMA ExecuteTxnKeeps ==
  ASSUME IInv, NEW m \in net, ExecuteTxn(m)
  PROVE  IInv'
<1> DEFINE n == NonceOf(m.c)
<1> USE DEF IInv
<1>1. m.c \in Call /\ n \in Nonce /\ m.id \in Nat
  BY TierAssumption DEF Typed
<1>2. /\ Backend = "etcd" /\ net' = net \ {m} /\ Unanswered /\ UNCHANGED copies
      /\ \/ \E a \in Reply \ {"set"} : Answers(m, a) /\ UNCHANGED <<etcd, owner>>
         \/ /\ leases[m.id] > clock /\ ~OnEtcd(n) /\ etcd' = [etcd EXCEPT ![n] = m.id]
            /\ Answers(m, "set") /\ owner' = OwnerAfterWrite(m.c)
  BY DEF ExecuteTxn, Unanswered, redisVars, memVars, Reply
<1>3. m.id \in 1 .. Len(leases) /\ leases[m.id] >= retain_until(n)
  BY <1>2 DEF KeptLongEnough, Leased
<1> HIDE DEF n
<1>4. PICK a \in Reply : Answers(m, a)
  BY <1>2 DEF Reply
<1>5. reply' \in [Call -> Reply] /\ Flights' /\ AdmittedOnceInWindow'
  BY <1>2, <1>4, AnswersKeeps
<1>6. owner' \in [Nonce -> Call \cup {None}]
  BY <1>1, <1>2 DEF Typed, OwnerAfterWrite, n
<1>7. etcd' \in [Nonce -> Nat]
  BY <1>1, <1>2 DEF Typed
<1>8. Typed'
  BY <1>2, <1>5, <1>6, <1>7 DEF Typed, Unanswered
<1>9. \A k \in Nonce : etcd'[k] = etcd[k] \/ (k = n /\ etcd'[k] = m.id)
  BY <1>1, <1>2 DEF Typed
<1>10. KeptLongEnough'
  <2>1. \A k \in Nonce : (etcd[k] = 0 \/ Leased(etcd[k], retain_until(k)))'
    BY <1>2, <1>3, <1>9 DEF KeptLongEnough, Leased, Unanswered
  <2> QED BY <1>2, <2>1 DEF KeptLongEnough, Leased, Unanswered
<1>11. AdmittedIsKept'
  BY <1>2, <1>3, <1>9, TierAssumption DEF InWindow, AdmittedIsKept, Unanswered
<1>12. WinnerIsSole'
  <2>1. CASE \E b \in Reply \ {"set"} : Answers(m, b) /\ UNCHANGED <<etcd, owner>>
    BY <1>2, <2>1, NoNewWinner
  <2>2. CASE /\ leases[m.id] > clock /\ ~OnEtcd(n) /\ etcd' = [etcd EXCEPT ![n] = m.id]
             /\ Answers(m, "set")
    <3>1. etcd'[n] = m.id /\ m.id # 0
      BY <1>1, <1>3, <2>2 DEF Typed
    <3>2. ~Retained(NonceOf(m.c)) /\ Retained(NonceOf(m.c))'
      BY <1>1, <1>2, <2>2, <3>1 DEF Retained, OnEtcd, n, Unanswered
    <3>3. \A k \in Nonce : Retained(k) => Retained(k)'
      BY <1>2, <2>2, <1>9, <3>1 DEF Retained, OnEtcd, Unanswered
    <3> QED BY <1>2, <2>2, <3>2, <3>3, WriteWins
  <2> QED BY <1>2, <2>1, <2>2
<1> QED BY <1>5, <1>8, <1>10, <1>11, <1>12

LEMMA AnswerSetKeeps ==
  ASSUME IInv, QuorumCovers, NEW c \in Call, AnswerSet(c)
  PROVE  IInv'
<1>1. Backend = "redis" /\ phase[c] = "waiting" /\ Undisturbed /\ UNCHANGED <<seen, owner>>
  BY DEF AnswerSet, Undisturbed, memVars
<1>2. ASSUME NEW v \in {"Replay", "Unavailable"}, Settle(c, v)
      PROVE  IInv'
  BY <1>1, <1>2, TurnedAway DEF Settle, IInv, Typed
<1>3. CASE reply[c] = "set" /\ wait_quorum_satisfied(Acked(NonceOf(c))) /\ Settle(c, "Fresh")
  <2>1. Winning(c)
    BY <1>1, <1>3 DEF Winning
  <2>2. master \in Server /\ (InWindow(NonceOf(c)) => OnRedis(master, NonceOf(c)))
    BY <1>1, <2>1 DEF IInv, WinnerIsSole, Retained, Typed
  <2>3. InWindow(NonceOf(c)) => \A s \in Electable : OnRedis(s, NonceOf(c))
    <3>1. CASE MaxFailovers = 0
      BY <2>2, <3>1 DEF Electable
    <3>2. CASE MaxFailovers # 0
      <4>1. IsFiniteSet(Server) /\ quorum + 1 >= Cardinality(Server)
        BY <1>1, <3>2 DEF QuorumCovers
      <4>2. \A s \in Server \ {master} : OnRedis(s, NonceOf(c))
        BY <1>3, <2>2, <4>1, QuorumIsAll
      <4> QED BY <2>2, <4>2 DEF Electable
    <3> QED BY <3>1, <3>2
  <2> QED BY <1>1, <1>3, <2>1, <2>3, Admits DEF Settle
<1> QED BY <1>2, <1>3 DEF AnswerSet

LEMMA AnswerTxnKeeps ==
  ASSUME IInv, NEW c \in Call, AnswerTxn(c)
  PROVE  IInv'
<1>1. Backend = "etcd" /\ phase[c] = "waiting" /\ Undisturbed /\ UNCHANGED <<seen, owner>>
  BY DEF AnswerTxn, Undisturbed, memVars
<1>2. ASSUME NEW v \in {"Replay", "Unavailable"}, Settle(c, v)
      PROVE  IInv'
  BY <1>1, <1>2, TurnedAway DEF Settle, IInv, Typed
<1>3. CASE reply[c] = "set" /\ Settle(c, "Fresh")
  BY <1>1, <1>3, Admits DEF Settle, Winning
<1> QED BY <1>2, <1>3 DEF AnswerTxn

(* The refusals before the store, the fast reject and the abandoned calls. *)
LEMMA RefusalKeeps ==
  ASSUME IInv, NEW c \in Call,
         RefuseCharge(c) \/ FastReject(c) \/ RefuseStale(c) \/ GiveUp(c)
  PROVE  IInv'
<1>1. Undisturbed /\ UNCHANGED <<seen, owner>>
  BY DEF RefuseCharge, FastReject, RefuseStale, GiveUp, Undisturbed, memVars
<1>2. \E v \in {"Replay", "Unavailable"} : \E l \in {ledger'[ReplicaOf(c)], Reserved(c),
        Settlement(Reserved(c), c, v), Settlement(ledger[ReplicaOf(c)], c, v)} : Return(c, v, l)
  BY DEF RefuseCharge, FastReject, RefuseStale, GiveUp, Settle
<1> QED BY <1>1, <1>2, TurnedAway DEF IInv, Typed

(* A second txn: the call has heard nothing of it, so it is no winner.     *)
LEMMA RetryTxnKeeps ==
  ASSUME IInv, NEW c \in Call, RetryTxn(c)
  PROVE  IInv'
<1> DEFINE r == ReplicaOf(c)
           t == retain_until(NonceOf(c))
<1> USE DEF IInv
<1>1. /\ Backend = "etcd" /\ phase[c] = "waiting"
      /\ pool' = [pool EXCEPT ![r][t] = IF @ = lease[c].id THEN 0 ELSE @]
      /\ reply' = [reply EXCEPT ![c] = "none"]
      /\ phase' = [phase EXCEPT ![c] = "granting"]
      /\ UNCHANGED <<clock, verified_at, sampled, verdict, attempt, net, copies, master, failovers,
                     etcd, leases, seen, owner>>
  BY DEF RetryTxn, redisVars, memVars
<1>2. r \in Replica /\ t \in Instant
  BY TierAssumption, TtlReaches
<1> HIDE DEF r, t
<1>3. /\ pool' \in [Replica -> [Instant -> Nat]]
      /\ \A x \in Replica, y \in Instant : pool'[x][y] \in {0, pool[x][y]}
  BY <1>1, <1>2 DEF Typed
<1>4. Typed'
  BY <1>1, <1>3 DEF Typed, Phase, Reply
<1>5. Flights'
  BY <1>1 DEF Flights, Typed
<1>6. KeptLongEnough'
  BY <1>1, <1>3 DEF KeptLongEnough, Leased
<1>7. AdmittedIsKept' /\ AdmittedOnceInWindow'
  BY <1>1 DEF InWindow, AdmittedIsKept, Electable, AdmittedOnceInWindow
<1>8. WinnerIsSole'
  <2>1. \A d \in Call : Winning(d)' => Winning(d)
    BY <1>1 DEF Typed, Winning
  <2> QED BY <1>1, <2>1 DEF InWindow, WinnerIsSole, Retained, OnRedis, OnEtcd, Admitted
<1> QED BY <1>4, <1>5, <1>6, <1>7, <1>8

(* The in-memory store answers in one step: a nonce it no longer holds was *)
(* pruned after its window.                                                *)
LEMMA MemoryInsertKeeps ==
  ASSUME IInv, NEW c \in Call, MemoryInsert(c)
  PROVE  IInv'
<1> DEFINE n == NonceOf(c)
<1>1. Backend = "memory" /\ phase[c] = "verified" /\ Undisturbed
  BY DEF MemoryInsert, MemoryInserts, Undisturbed, Submits
<1>2. CASE \E v \in {"Replay", "Unavailable"} :
             /\ Return(c, v, Settlement(Reserved(c), c, v))
             /\ seen' \in {seen, SeenAfterPrune} /\ UNCHANGED owner
  BY <1>1, <1>2, TurnedAway DEF IInv, Typed
<1>3. CASE n \notin seen /\ MemoryRecords(c)
  <2> USE DEF IInv
  <2>1. n \in Nonce /\ clock \in Nat
    BY TierAssumption DEF Typed
  <2>2. InWindow(n) => ~Admitted(n)
    BY <1>1, <1>3, <2>1, AbsentIsFree DEF Retained
  <2>3. /\ phase' = [phase EXCEPT ![c] = "over"] /\ verdict' = [verdict EXCEPT ![c] = "Fresh"]
        /\ reply' = [reply EXCEPT ![c] = "none"] /\ seen' = SeenAfterPrune \cup {n}
        /\ owner' = OwnerAfterWrite(c)
        /\ UNCHANGED <<clock, verified_at, sampled, attempt, net, copies, master, failovers,
                       etcd, leases, pool>>
    BY <1>1, <1>3 DEF MemoryRecords, Return, Undisturbed, redisVars, etcdVars
  <2> HIDE DEF n
  <2>4. owner' \in [Nonce -> Call \cup {None}]
    BY <2>1, <2>3 DEF Typed, OwnerAfterWrite, n
  <2>5. Typed'
    BY <2>1, <2>3, <2>4 DEF Typed, Phase, Verdict, Reply, SeenAfterPrune
  <2>6. Flights'
    BY <2>3 DEF Flights, Typed
  <2>7. KeptLongEnough'
    BY <2>3 DEF KeptLongEnough, Leased
  <2>8. AdmittedIsKept'
    <3> SUFFICES ASSUME NEW d \in Call, InWindow(NonceOf(d)), NonceOf(d) \in seen
                 PROVE  NonceOf(d) \in seen'
      BY <1>1, <2>3 DEF InWindow, AdmittedIsKept, Electable, Typed, n
    <3>1. retain_until(NonceOf(d)) \in Nat
      BY TierAssumption DEF retain_until
    <3> QED BY <2>1, <2>3, <3>1 DEF SeenAfterPrune, InWindow
  <2>9. WinnerIsSole'
    BY <1>1, <2>3 DEF InWindow, WinnerIsSole, Winning, Flights, Typed
  <2>10. AdmittedOnceInWindow'
    BY <2>2, <2>3 DEF InWindow, AdmittedOnceInWindow, Admitted, Typed, n
  <2> QED BY <2>5, <2>6, <2>7, <2>8, <2>9, <2>10
<1> QED BY <1>2, <1>3 DEF MemoryInsert, MemoryRefuses, memVars

(* A replica catches up with the master, which holds what was admitted.    *)
LEMMA ReplicateKeeps ==
  ASSUME IInv, NEW s \in Server, Replicate(s)
  PROVE  IInv'
<1> USE DEF IInv
<1>1. /\ s # master /\ copies' = [copies EXCEPT ![s] = copies[master]]
      /\ UNCHANGED <<clock, phase, verified_at, sampled, verdict, attempt, reply, net, master,
                     failovers, etcd, leases, pool, seen, owner>>
  BY DEF Replicate, callVars, etcdVars, memVars
<1>2. /\ copies' \in [Server -> [Nonce -> Nat]] /\ master \in Server
      /\ \A x \in Server : copies'[x] = IF x = s THEN copies[master] ELSE copies[x]
  BY <1>1 DEF Typed
<1>3. Typed'
  BY <1>1, <1>2 DEF Typed
<1>4. Flights' /\ AdmittedOnceInWindow'
  BY <1>1 DEF InWindow, Flights, AdmittedOnceInWindow
<1>5. KeptLongEnough'
  BY <1>1, <1>2 DEF KeptLongEnough, Leased
<1>6. AdmittedIsKept'
  BY <1>1, <1>2 DEF InWindow, AdmittedIsKept, Electable
<1>7. WinnerIsSole'
  BY <1>1, <1>2 DEF InWindow, WinnerIsSole, Winning, Retained, OnRedis, OnEtcd, Admitted
<1> QED BY <1>3, <1>4, <1>5, <1>6, <1>7

(* Whoever takes over holds what was admitted, and nobody hears of a write *)
(* made on the old master.                                                 *)
LEMMA FailoverKeeps ==
  ASSUME IInv, NEW s \in Server, Failover(s)
  PROVE  IInv'
<1> USE DEF IInv, Failover, etcdVars, memVars
<1>1. Typed'
  BY TierAssumption DEF Typed, Reply
<1>2. Flights' /\ AdmittedOnceInWindow'
  BY DEF InWindow, Flights, AdmittedOnceInWindow
<1>3. KeptLongEnough'
  BY DEF KeptLongEnough, Leased
<1>4. AdmittedIsKept'
  <2>1. MaxFailovers # 0
    BY TierAssumption DEF Typed
  <2> QED BY <2>1 DEF InWindow, AdmittedIsKept, Electable
<1>5. WinnerIsSole'
  BY DEF InWindow, WinnerIsSole, Winning
<1> QED BY <1>1, <1>2, <1>3, <1>4, <1>5

LEMMA LoseKeeps ==
  ASSUME IInv, NEW m \in net, Lose(m)
  PROVE  IInv'
<1> USE DEF IInv, Lose, callVars, redisVars, etcdVars, memVars
<1>1. Typed'
  BY DEF Typed
<1>2. Flights' /\ AdmittedOnceInWindow' /\ KeptLongEnough' /\ AdmittedIsKept'
  BY DEF InWindow, Flights, AdmittedOnceInWindow, KeptLongEnough, Leased, AdmittedIsKept, Electable
<1>3. WinnerIsSole'
  BY DEF InWindow, WinnerIsSole, Winning, Retained, OnRedis, OnEtcd, Admitted
<1> QED BY <1>1, <1>2, <1>3

(* A tick that leaves the window of a winner open does not end its key,    *)
(* which is kept to the end of that window.                                *)
LEMMA TickKeeps ==
  ASSUME IInv, Tick
  PROVE  IInv'
<1> USE DEF IInv, callVars, redisVars, etcdVars, memVars
<1>1. /\ clock' = clock + 1 /\ clock \in Nat
      /\ UNCHANGED <<phase, verified_at, sampled, verdict, attempt, reply, net, copies, master,
                     failovers, etcd, leases, pool, seen, owner>>
  BY DEF Tick, Typed
<1>2. \A n \in Nonce : retain_until(n) \in Nat
  BY TierAssumption DEF retain_until
<1>2a. \A c \in Call : InWindow(NonceOf(c))' => InWindow(NonceOf(c))
  BY <1>1, <1>2, TierAssumption DEF InWindow
<1>3. Typed'
  BY <1>1 DEF Typed
<1>4. Flights'
  BY <1>1 DEF Flights, Typed
<1>5. KeptLongEnough' /\ AdmittedOnceInWindow'
  BY <1>1, <1>2a DEF KeptLongEnough, Leased, AdmittedOnceInWindow
<1>6. AdmittedIsKept'
  BY <1>1, <1>2a DEF AdmittedIsKept, Electable
<1>7. WinnerIsSole'
  <2> SUFFICES ASSUME NEW c \in Call, Winning(c), InWindow(NonceOf(c))', InWindow(NonceOf(c))
               PROVE  Retained(NonceOf(c))'
    BY <1>1, <1>2a DEF WinnerIsSole, Winning, Admitted
  <2>1. Retained(NonceOf(c)) /\ NonceOf(c) \in Nonce /\ Backend # "memory"
    BY TierAssumption DEF WinnerIsSole, Winning, Flights
  <2>2. clock' < retain_until(NonceOf(c)) /\ retain_until(NonceOf(c)) \in Nat
    BY <1>2, <2>1 DEF InWindow
  <2>3. CASE Backend = "redis"
    <3>1. copies[master][NonceOf(c)] >= retain_until(NonceOf(c))
      BY <1>1, <2>1, <2>3 DEF Retained, OnRedis, KeptLongEnough, Typed
    <3>2. copies[master][NonceOf(c)] \in Nat
      BY <2>1 DEF Typed
    <3> QED BY <1>1, <2>2, <2>3, <3>1, <3>2 DEF Retained, OnRedis
  <2>4. CASE Backend = "etcd"
    <3>1. etcd[NonceOf(c)] # 0 /\ Leased(etcd[NonceOf(c)], retain_until(NonceOf(c)))
      BY <2>1, <2>4 DEF Retained, OnEtcd, KeptLongEnough
    <3>2. leases[etcd[NonceOf(c)]] \in Nat
      BY <3>1 DEF Leased, Typed
    <3> QED BY <1>1, <2>2, <2>4, <3>1, <3>2 DEF Retained, OnEtcd, Leased
  <2> QED BY <2>1, <2>3, <2>4, TierAssumption
<1> QED BY <1>3, <1>4, <1>5, <1>6, <1>7

(* Every step of the tier.                                                 *)
LEMMA NextIInv ==
  ASSUME IInv, QuorumCovers, [Next]_vars
  PROVE  IInv'
<1>1. CASE UNCHANGED vars
  <2> USE <1>1 DEF vars, callVars, redisVars, etcdVars, memVars, IInv
  <2>1. Typed' /\ Flights' /\ KeptLongEnough' /\ AdmittedIsKept' /\ AdmittedOnceInWindow'
    BY DEF InWindow, Typed, Flights, KeptLongEnough, Leased, AdmittedIsKept, Electable, AdmittedOnceInWindow
  <2>2. WinnerIsSole'
    BY DEF InWindow, WinnerIsSole, Winning, Retained, OnRedis, OnEtcd, Admitted
  <2> QED BY <2>1, <2>2
<1>2. ASSUME NEW c \in Call,
             \/ Verify(c) \/ RefuseCharge(c) \/ FastReject(c) \/ RefuseStale(c)
             \/ SendSet(c) \/ SendTxn(c) \/ Granted(c)
             \/ AnswerSet(c) \/ AnswerTxn(c) \/ RetryTxn(c) \/ GiveUp(c)
             \/ MemoryInsert(c)
      PROVE  IInv'
  BY <1>2, VerifyKeeps, RefusalKeeps, SendSetKeeps, SendTxnKeeps, GrantedKeeps, AnswerSetKeeps,
     AnswerTxnKeeps, RetryTxnKeeps, MemoryInsertKeeps
<1>3. ASSUME NEW m \in net, ExecuteSet(m) \/ ExecuteTxn(m) \/ Lose(m)
      PROVE  IInv'
  BY <1>3, ExecuteSetKeeps, ExecuteTxnKeeps, LoseKeeps
<1>4. ASSUME NEW s \in Server, Replicate(s) \/ Failover(s)
      PROVE  IInv'
  BY <1>4, ReplicateKeeps, FailoverKeeps
<1> QED BY <1>1, <1>2, <1>3, <1>4, TickKeeps DEF Next

LEMMA IInvHolds == ASSUME QuorumCovers PROVE Spec => []IInv
<1>1. Init => IInv
  BY InitIInv
<1>2. IInv /\ [Next]_vars => IInv'
  BY NextIInv
<1> QED BY <1>1, <1>2, PTL DEF Spec

(* Of all the presentations of one signed request, to all the replicas,    *)
(* over every store, at most one is told Fresh before its window closes:   *)
(* whatever was lost, executed late or answered by a new master, and with  *)
(* no premise on how long a call takes.  (AsyncReplayTier::                *)
(* check_and_insert)                                                       *)
THEOREM AdmittedOnceHolds == ASSUME QuorumCovers PROVE Spec => []AdmittedOnceInWindow
<1>1. IInv => AdmittedOnceInWindow
  BY DEF IInv
<1> QED BY <1>1, IInvHolds, PTL

-----------------------------------------------------------------------------
(* What the refinement needs besides: who owns what.                       *)
(* A call that has not written owns nothing, and is not answered.          *)
Unsent ==
  \A c \in Call : /\ phase[c] # "over" => verdict[c] = "pending"
                  /\ phase[c] \in {"new", "verified"} => owner[NonceOf(c)] # c

(* A command is sent once, and its call has heard nothing of it.           *)
Underway ==
  \A m \in net : /\ m.n = 1 /\ m.id = 0 /\ reply[m.c] = "none"
                 /\ phase[m.c] \notin {"new", "verified"} /\ owner[NonceOf(m.c)] # m.c

(* What an answer says of the owner, and a verdict: whoever hears of its   *)
(* own write still owns the nonce until the window closes.                 *)
ToldOfOwner ==
  \A c \in Call : /\ reply[c] = "nil" => owner[NonceOf(c)] \notin {None, c}
                  /\ Winning(c) \/ verdict[c] = "Fresh" =>
                       /\ owner[NonceOf(c)] # None
                       /\ InWindow(NonceOf(c)) => owner[NonceOf(c)] = c

(* Whatever a store or an L1 knows has an owner.                           *)
Known(n) ==
  \/ \E s \in Server : copies[s][n] # 0
  \/ n \in seen
  \/ \E r \in Replica : n \in ToSet(l1[r])

KnownIsOwned == \A n \in Nonce : Known(n) => owner[n] # None

OwnInv == Unsent /\ Underway /\ ToldOfOwner /\ KnownIsOwned /\ l1 \in [Replica -> Seq(Nonce)]

(* The L1 learns the nonce it is told, and nothing else.                   *)
LEMMA L1Learns ==
  ASSUME NEW q \in Seq(Nonce), NEW n \in Nonce
  PROVE  L1Insert(q, n) \in Seq(Nonce) /\ ToSet(L1Insert(q, n)) \subseteq ToSet(q) \cup {n}
<1> DEFINE k == IF Len(q) >= L1Capacity THEN Tail(q) ELSE q
<1>1. CASE L1Capacity = 0 \/ n \in ToSet(q)
  BY <1>1 DEF L1Insert
<1>2. CASE L1Capacity # 0 /\ n \notin ToSet(q)
  <2>1. k \in Seq(Nonce) /\ \A i \in 1 .. Len(k) : \E j \in 1 .. Len(q) : k[i] = q[j]
    <3>1. CASE Len(q) >= L1Capacity
      <4>1. q # <<>> /\ k = Tail(q)
        BY <1>2, <3>1, TierAssumption
      <4>2. /\ k \in Seq(Nonce) /\ Len(k) = Len(q) - 1
            /\ \A i \in 1 .. Len(k) : k[i] = q[i + 1] /\ i + 1 \in 1 .. Len(q)
        BY <4>1
      <4> QED BY <4>2
    <3>2. CASE ~(Len(q) >= L1Capacity)
      BY <3>2
    <3> QED BY <3>1, <3>2
  <2> HIDE DEF k
  <2>2. L1Insert(q, n) = Append(k, n)
    BY <1>2 DEF L1Insert, k
  <2>3. /\ Append(k, n) \in Seq(Nonce) /\ Len(Append(k, n)) = Len(k) + 1 /\ Len(k) \in Nat
        /\ \A i \in 1 .. Len(k) : Append(k, n)[i] = k[i]
        /\ Append(k, n)[Len(k) + 1] = n
    BY <2>1
  <2>4. \A i \in 1 .. Len(Append(k, n)) : Append(k, n)[i] \in ToSet(q) \cup {n}
    <3> SUFFICES ASSUME NEW i \in 1 .. Len(Append(k, n)), i # Len(k) + 1
                 PROVE  Append(k, n)[i] \in ToSet(q)
      BY <2>3
    <3>1. i \in 1 .. Len(k)
      BY <2>3
    <3> QED BY <2>1, <2>3, <3>1 DEF ToSet
  <2> QED BY <2>2, <2>3, <2>4 DEF ToSet
<1> QED BY <1>1, <1>2

LEMMA RecordedIsOwned ==
  ASSUME l1 \in [Replica -> Seq(Nonce)], NEW c \in Call, l1' \in {l1, l1_record(c)}
  PROVE  /\ l1' \in [Replica -> Seq(Nonce)]
         /\ \A r \in Replica, n \in Nonce :
              n \in ToSet(l1'[r]) => n \in ToSet(l1[r]) \/ (l1' # l1 /\ n = NonceOf(c))
<1>1. NonceOf(c) \in Nonce /\ ReplicaOf(c) \in Replica
  BY TierAssumption
<1>2. /\ L1Insert(l1[ReplicaOf(c)], NonceOf(c)) \in Seq(Nonce)
      /\ ToSet(L1Insert(l1[ReplicaOf(c)], NonceOf(c))) \subseteq ToSet(l1[ReplicaOf(c)]) \cup {NonceOf(c)}
  BY <1>1, L1Learns
<1>3. CASE l1' = l1
  BY <1>3
<1>4. CASE l1' # l1
  BY <1>1, <1>2, <1>4 DEF l1_record
<1> QED BY <1>3, <1>4

LEMMA InitOwn == ASSUME Init PROVE OwnInv /\ Once!Init
<1> USE DEF Init, Start
<1>1. Unsent /\ Underway
  BY TierAssumption DEF Unsent, Underway
<1>2. ToldOfOwner
  BY DEF InWindow, ToldOfOwner, Winning
<1>3. KnownIsOwned /\ l1 \in [Replica -> Seq(Nonce)]
  BY DEF KnownIsOwned, Known, ToSet
<1>4. Once!Init
  BY DEF Once!Init
<1> QED BY <1>1, <1>2, <1>3, <1>4 DEF OwnInv

(* A settled call answers as the promise allows.                           *)
LEMMA SettledAnswers ==
  ASSUME IInv, OwnInv, NEW c \in Call, NEW v \in {"Fresh", "Replay", "Unavailable"}, NEW l,
         Return(c, v, l), phase[c] # "over", UNCHANGED <<clock, owner, copies, net>>,
         seen' \subseteq seen,
         l1' \in {l1, l1_record(c)}, l1' # l1 => v # "Unavailable",
         v = "Fresh" => /\ owner[NonceOf(c)] # None
                        /\ InWindow(NonceOf(c)) => owner[NonceOf(c)] = c,
         v = "Replay" => owner[NonceOf(c)] \notin {None, c}
  PROVE  OwnInv' /\ Once!Answer(c, v)
<1> USE DEF IInv, OwnInv, Return
<1>1. NonceOf(c) \in Nonce /\ c # None
  BY TierAssumption
<1>2. Unsent'
  BY DEF Unsent, Typed
<1>3. Underway'
  BY DEF Underway, Typed
<1>4. ToldOfOwner'
  BY DEF InWindow, ToldOfOwner, Typed, Winning
<1>5. KnownIsOwned' /\ (l1 \in [Replica -> Seq(Nonce)])'
  <2>1. /\ l1' \in [Replica -> Seq(Nonce)]
        /\ \A r \in Replica, n \in Nonce :
             n \in ToSet(l1'[r]) => n \in ToSet(l1[r]) \/ (l1' # l1 /\ n = NonceOf(c))
    BY RecordedIsOwned
  <2>2. l1' # l1 => owner[NonceOf(c)] # None
    BY <1>1
  <2>3. \A n \in Nonce : Known(n)' => Known(n) \/ (l1' # l1 /\ n = NonceOf(c))
    BY <2>1 DEF Known
  <2> QED BY <2>1, <2>2, <2>3 DEF KnownIsOwned
<1>6. Once!Answer(c, v)
  BY <1>1 DEF Once!Answer, Unsent, InWindow
<1> QED BY <1>2, <1>3, <1>4, <1>5, <1>6

(* A step that neither settles a call nor writes is none of the promise.   *)
Silent == UNCHANGED <<clock, verdict, owner, seen, l1>>

LEMMA SilentSteps ==
  ASSUME IInv, OwnInv, Backend # "etcd", Next, ~Tick,
         ~\E c \in Call : \/ RefuseCharge(c) \/ FastReject(c) \/ RefuseStale(c) \/ AnswerSet(c)
                          \/ GiveUp(c) \/ MemoryInsert(c),
         ~\E m \in net : ExecuteSet(m)
  PROVE  OwnInv' /\ Silent
<1> USE DEF IInv, OwnInv, callVars, redisVars, etcdVars, memVars
<1>0. \A c \in Call : ~Granted(c) /\ ~SendTxn(c) /\ ~AnswerTxn(c) /\ ~RetryTxn(c)
  BY DEF Granted, SendTxn, AnswerTxn, RetryTxn, Flights
<1>1. ASSUME NEW c \in Call, Verify(c)
      PROVE  OwnInv' /\ Silent
  <2>1. Silent /\ UNCHANGED copies
    BY <1>1 DEF Verify, Silent
  <2>2. Unsent' /\ Underway' /\ ToldOfOwner'
    BY <1>1 DEF InWindow, Verify, Unsent, Underway, ToldOfOwner, Winning, Typed
  <2> QED BY <2>1, <2>2 DEF Silent, KnownIsOwned, Known
<1>2. ASSUME NEW c \in Call, SendSet(c)
      PROVE  OwnInv' /\ Silent
  <2>1. /\ Silent /\ UNCHANGED <<copies, reply>> /\ phase[c] = "verified" /\ reply[c] = "none"
        /\ phase' = [phase EXCEPT ![c] = "waiting"]
        /\ net' = net \cup {[c |-> c, n |-> 1, id |-> 0]}
    BY <1>2 DEF SendSet, Sends, Submits, Silent, Flights
  <2>2. Unsent' /\ ToldOfOwner'
    BY <2>1 DEF InWindow, Unsent, ToldOfOwner, Winning, Typed, Silent
  <2>3. Underway'
    BY <2>1 DEF Unsent, Underway, Typed, Silent
  <2> QED BY <2>1, <2>2, <2>3 DEF Silent, KnownIsOwned, Known
<1>3. ASSUME NEW m \in net, Lose(m)
      PROVE  OwnInv' /\ Silent
  <2>1. Silent /\ UNCHANGED <<copies, reply, phase>> /\ net' \subseteq net
    BY <1>3 DEF Lose, Silent
  <2> QED BY <2>1 DEF InWindow, Silent, KnownIsOwned, Known, Unsent, Underway, ToldOfOwner, Winning
<1>4. ASSUME NEW s \in Server, Replicate(s)
      PROVE  OwnInv' /\ Silent
  <2>1. /\ Silent /\ UNCHANGED <<reply, phase, net>>
        /\ copies' = [copies EXCEPT ![s] = copies[master]] /\ master \in Server
    BY <1>4 DEF Replicate, Silent, Typed
  <2>2. \A n \in Nonce : Known(n)' => Known(n)
    BY <2>1 DEF Silent, Known, Typed
  <2>3. KnownIsOwned'
    BY <2>1, <2>2 DEF Silent, KnownIsOwned
  <2> QED BY <2>1, <2>3 DEF InWindow, Silent, Unsent, Underway, ToldOfOwner, Winning
<1>5. ASSUME NEW s \in Server, Failover(s)
      PROVE  OwnInv' /\ Silent
  <2>1. Silent /\ UNCHANGED <<phase, copies>> /\ net' = {} /\ reply' = [c \in Call |-> "none"]
    BY <1>5 DEF Failover, Silent
  <2> QED BY <2>1 DEF InWindow, Silent, KnownIsOwned, Known, Unsent, Underway, ToldOfOwner, Winning
<1>6. \A m \in net : ~ExecuteTxn(m)
  BY DEF ExecuteTxn
<1> QED BY <1>0, <1>1, <1>2, <1>3, <1>4, <1>5, <1>6 DEF Next

(* A tick may close windows, and reopens none.                             *)
LEMMA TickCloses ==
  ASSUME IInv, OwnInv, Tick
  PROVE  OwnInv' /\ Once!Close
<1> USE DEF IInv, OwnInv
<1>1. /\ clock' = clock + 1 /\ clock \in Nat
      /\ UNCHANGED <<verdict, owner, seen, l1, copies, reply, phase, net>>
  BY DEF Tick, callVars, redisVars, memVars, Typed
<1>2. \A n \in Nonce : InWindow(n)' => InWindow(n)
  BY <1>1, TierAssumption DEF InWindow, retain_until
<1>3. Unsent' /\ Underway' /\ KnownIsOwned'
  BY <1>1 DEF Unsent, Underway, KnownIsOwned, Known
<1>4. ToldOfOwner'
  BY <1>1, <1>2, TierAssumption DEF ToldOfOwner, Winning
<1>5. Once!Close
  BY <1>1, <1>2 DEF Once!Close
<1> QED BY <1>1, <1>3, <1>4, <1>5

(* A SET that finds the key tells its caller of another's; one that writes *)
(* takes the nonce, which in its window was not admitted.                  *)
LEMMA ExecuteSetTakes ==
  ASSUME IInv, OwnInv, Backend # "etcd", NEW m \in net, ExecuteSet(m), IInv'
  PROVE  OwnInv' /\ (Once!Take(m.c) \/ UNCHANGED <<clock, verdict, owner>>)
<1> DEFINE n == NonceOf(m.c)
<1> USE DEF IInv, OwnInv
<1>1. m.c \in Call /\ n \in Nonce /\ m.c # None /\ master \in Server
  BY TierAssumption DEF Typed
<1>2. /\ Backend = "redis" /\ net' = net \ {m} /\ Unanswered /\ UNCHANGED l1
      /\ \/ OnRedis(master, n) /\ Answers(m, "nil") /\ UNCHANGED <<copies, owner>>
         \/ /\ ~OnRedis(master, n)
            /\ copies' = [copies EXCEPT ![master][n] = clock + compute_ttl(n, sampled[m.c])]
            /\ Answers(m, "set") /\ owner' = OwnerAfterWrite(m.c)
  BY DEF ExecuteSet, Unanswered, etcdVars, memVars
<1>3. \A k \in net' : k \in net /\ k.c # m.c
  <2>1. \A k \in net : k = [c |-> k.c, n |-> 1, id |-> 0]
    BY DEF Underway, Typed
  <2> QED BY <1>2, <2>1
<1>4. /\ reply[m.c] = "none" /\ owner[n] # m.c /\ phase[m.c] \notin {"new", "verified"}
  BY DEF Underway
<1>5. \A d \in Call : d # m.c => reply'[d] = reply[d]
  BY <1>1, <1>2 DEF Answers, Typed
<1>6. CASE OnRedis(master, n) /\ Answers(m, "nil") /\ UNCHANGED <<copies, owner>>
  <2>1. owner[n] # None
    <3>1. copies[master][n] # 0
      BY <1>1, <1>6 DEF OnRedis, Typed
    <3> QED BY <1>1, <3>1 DEF KnownIsOwned, Known
  <2>2. reply'[m.c] \in {"none", "nil"}
    BY <1>1, <1>4, <1>6 DEF Answers, Typed
  <2>3. Unsent' /\ Underway'
    BY <1>2, <1>3, <1>5, <1>6 DEF Unsent, Underway, Unanswered, Typed
  <2>4. ToldOfOwner'
    BY <1>2, <1>4, <1>5, <1>6, <2>1, <2>2 DEF InWindow, ToldOfOwner, Winning, Unanswered
  <2>5. KnownIsOwned'
    BY <1>2, <1>6 DEF KnownIsOwned, Known, Unanswered
  <2> QED BY <1>2, <1>6, <2>3, <2>4, <2>5 DEF Unanswered
<1>7. CASE /\ ~OnRedis(master, n) /\ Answers(m, "set") /\ owner' = OwnerAfterWrite(m.c)
           /\ copies' = [copies EXCEPT ![master][n] = clock + compute_ttl(n, sampled[m.c])]
  <2>1. \A k \in Nonce : owner'[k] = IF k = n THEN m.c ELSE owner[k]
    BY <1>1, <1>7 DEF OwnerAfterWrite, Typed
  <2>2. clock' = clock /\ (InWindow(n) => ~Admitted(n))
    BY <1>1, <1>2, <1>7, AbsentIsFree DEF Retained, Unanswered
  <2>3. \A d \in Call : NonceOf(d) \in Nonce
    BY TierAssumption
  <2>4. Unsent'
    BY <1>2, <1>4, <2>1, <2>3 DEF Unsent, Unanswered
  <2>5. Underway'
    BY <1>2, <1>3, <1>5, <2>1, <2>3 DEF Underway, Unanswered, Typed
  <2>6. ToldOfOwner'
    <3>1. ASSUME NEW d \in Call, reply'[d] = "nil"
          PROVE  owner'[NonceOf(d)] \notin {None, d}
      <4>1. d # m.c
        BY <1>1, <1>4, <1>7, <3>1 DEF Answers, Typed
      <4> QED BY <1>1, <1>5, <2>1, <2>3, <3>1, <4>1 DEF InWindow, ToldOfOwner
    <3>2. ASSUME NEW d \in Call, verdict'[d] = "Fresh"
          PROVE  /\ owner'[NonceOf(d)] # None
                 /\ InWindow(NonceOf(d)) => owner'[NonceOf(d)] = d
      BY <1>1, <1>2, <2>1, <2>2, <2>3, <3>2 DEF ToldOfOwner, Admitted, Unanswered
    <3>3. ASSUME NEW d \in Call, Winning(d)'
          PROVE  /\ owner'[NonceOf(d)] # None
                 /\ InWindow(NonceOf(d)) => owner'[NonceOf(d)] = d
      <4>1. CASE d = m.c
        BY <1>1, <2>1, <4>1
      <4>2. CASE d # m.c
        <5>1. Winning(d)
          BY <1>2, <1>5, <3>3, <4>2 DEF Winning, Unanswered
        <5>2. InWindow(NonceOf(d)) => NonceOf(d) # n
          BY <1>2, <1>7, <5>1 DEF WinnerIsSole, Retained
        <5> QED BY <1>1, <2>1, <2>3, <5>1, <5>2 DEF ToldOfOwner
      <4> QED BY <4>1, <4>2
    <3> QED BY <2>2, <3>1, <3>2, <3>3 DEF ToldOfOwner, InWindow
  <2>7. KnownIsOwned'
    <3>1. \A k \in Nonce : Known(k)' => Known(k) \/ k = n
      BY <1>1, <1>2, <1>7 DEF Known, Unanswered, Typed
    <3> QED BY <1>1, <2>1, <3>1 DEF KnownIsOwned
  <2>8. Once!Take(m.c)
    BY <1>1, <1>2, <1>7, <2>2 DEF OwnerAfterWrite, Unanswered, Once!Take, Once!Free,
                                  Once!Admitted, Admitted, InWindow
  <2> QED BY <1>2, <2>4, <2>5, <2>6, <2>7, <2>8
<1> QED BY <1>2, <1>6, <1>7

(* The in-memory store takes and answers in one step.                      *)
LEMMA MemoryTakes ==
  ASSUME IInv, OwnInv, NEW c \in Call, MemoryInsert(c)
  PROVE  /\ OwnInv'
         /\ Once!TakeAndAnswer(c) \/ \E v \in {"Replay", "Unavailable"} : Once!Answer(c, v)
<1> DEFINE n == NonceOf(c)
<1> USE DEF IInv, OwnInv
<1>1. /\ Backend = "memory" /\ phase[c] = "verified" /\ UNCHANGED <<clock, net, copies>>
      /\ n \in Nonce /\ c # None
  BY TierAssumption DEF MemoryInsert, MemoryInserts, Submits, redisVars
<1>2. owner[n] # c
  BY <1>1 DEF Unsent
<1>3. CASE /\ n \in seen /\ Return(c, "Replay", Settlement(Reserved(c), c, "Replay"))
           /\ l1' = l1_record(c) /\ UNCHANGED <<seen, owner>>
  <2>1. owner[n] # None
    BY <1>1, <1>3 DEF KnownIsOwned, Known
  <2> QED BY <1>1, <1>2, <1>3, <2>1, SettledAnswers
<1>4. CASE MemoryRefuses(c)
  <2>1. /\ Return(c, "Unavailable", Settlement(Reserved(c), c, "Unavailable"))
        /\ seen' \subseteq seen /\ UNCHANGED <<l1, owner>>
    BY <1>4 DEF MemoryRefuses, SeenAfterPrune
  <2> QED BY <1>1, <2>1, SettledAnswers
<1>5. CASE n \notin seen /\ MemoryRecords(c)
  <2>1. /\ phase' = [phase EXCEPT ![c] = "over"] /\ verdict' = [verdict EXCEPT ![c] = "Fresh"]
        /\ reply' = [reply EXCEPT ![c] = "none"] /\ seen' \subseteq seen \cup {n}
        /\ l1' = l1_record(c) /\ owner' = OwnerAfterWrite(c)
    BY <1>5 DEF MemoryRecords, Return, SeenAfterPrune
  <2>2. InWindow(n) => ~Admitted(n)
    BY <1>1, <1>5, AbsentIsFree DEF Retained
  <2>3. owner' = [owner EXCEPT ![n] = c]
    BY <1>1, <2>1 DEF OwnerAfterWrite
  <2>4. \A k \in Nonce : owner'[k] = IF k = n THEN c ELSE owner[k]
    BY <1>1, <2>3 DEF Typed
  <2>5. \A d \in Call : NonceOf(d) \in Nonce
    BY TierAssumption
  <2>6. Unsent'
    BY <2>1, <2>4, <2>5 DEF Unsent, Typed
  <2>7. Underway'
    BY <1>1, <2>1, <2>4, <2>5 DEF Underway, Typed
  <2>8. ToldOfOwner'
    <3>1. \A d \in Call : phase'[d] # "waiting" /\ reply'[d] = "none"
      BY <1>1, <2>1 DEF Flights, Typed
    <3>2. ASSUME NEW d \in Call, verdict'[d] = "Fresh"
          PROVE  /\ owner'[NonceOf(d)] # None
                 /\ InWindow(NonceOf(d)) => owner'[NonceOf(d)] = d
      BY <1>1, <2>1, <2>2, <2>4, <2>5, <3>2 DEF ToldOfOwner, Admitted, Typed
    <3> QED BY <1>1, <3>1, <3>2 DEF ToldOfOwner, Winning, InWindow
  <2>9. KnownIsOwned' /\ (l1 \in [Replica -> Seq(Nonce)])'
    <3>1. /\ l1' \in [Replica -> Seq(Nonce)]
          /\ \A r \in Replica, k \in Nonce :
               k \in ToSet(l1'[r]) => k \in ToSet(l1[r]) \/ (l1' # l1 /\ k = n)
      BY <2>1, RecordedIsOwned
    <3>2. \A k \in Nonce : Known(k)' => Known(k) \/ k = n
      BY <1>1, <2>1, <3>1 DEF Known
    <3> QED BY <1>1, <2>4, <3>1, <3>2 DEF KnownIsOwned
  <2>10. Once!TakeAndAnswer(c)
    BY <1>1, <2>1, <2>2, <2>3 DEF Unsent, Once!TakeAndAnswer, Once!Free, Once!Admitted, Admitted,
                                  InWindow
  <2> QED BY <2>6, <2>7, <2>8, <2>9, <2>10
<1> QED BY <1>3, <1>4, <1>5 DEF MemoryInsert, memVars

(* The calls that end without the store's word, or on it.                  *)
LEMMA SettlesByPromise ==
  ASSUME IInv, OwnInv, NEW c \in Call,
         RefuseCharge(c) \/ FastReject(c) \/ RefuseStale(c) \/ AnswerSet(c) \/ GiveUp(c)
  PROVE  OwnInv' /\ \E v \in {"Fresh", "Replay", "Unavailable"} : Once!Answer(c, v)
<1>1. UNCHANGED <<clock, owner, copies, net, seen>> /\ phase[c] # "over"
  BY DEF RefuseCharge, FastReject, RefuseStale, AnswerSet, GiveUp, Submits, redisVars, memVars
<1>2. NonceOf(c) \in Nonce /\ ReplicaOf(c) \in Replica
  BY TierAssumption
<1>3. ASSUME NEW l, Return(c, "Unavailable", l), UNCHANGED l1
      PROVE  OwnInv' /\ Once!Answer(c, "Unavailable")
  BY <1>1, <1>3, SettledAnswers
<1>4. CASE FastReject(c)
  <2>1. /\ Return(c, "Replay", Settlement(Reserved(c), c, "Replay")) /\ UNCHANGED l1
        /\ phase[c] = "verified" /\ NonceOf(c) \in ToSet(l1[ReplicaOf(c)])
    BY <1>4 DEF FastReject, l1_lookup
  <2>2. owner[NonceOf(c)] \notin {None, c}
    BY <1>2, <2>1 DEF OwnInv, KnownIsOwned, Known, Unsent
  <2> QED BY <1>1, <2>1, <2>2, SettledAnswers
<1>5. CASE reply[c] = "nil" /\ Settle(c, "Replay") /\ l1' = l1_record(c)
  <2>1. owner[NonceOf(c)] \notin {None, c}
    BY <1>5 DEF InWindow, OwnInv, ToldOfOwner
  <2> QED BY <1>1, <1>5, <2>1, SettledAnswers DEF Settle
<1>6. CASE phase[c] = "waiting" /\ reply[c] = "set" /\ Settle(c, "Fresh") /\ l1' = l1_record(c)
  <2>1. owner[NonceOf(c)] # None /\ (InWindow(NonceOf(c)) => owner[NonceOf(c)] = c)
    BY <1>6 DEF OwnInv, ToldOfOwner, Winning
  <2> QED BY <1>1, <1>6, <2>1, SettledAnswers DEF Settle
<1>7. CASE RefuseCharge(c) \/ RefuseStale(c) \/ GiveUp(c) \/ (Settle(c, "Unavailable") /\ UNCHANGED l1)
  BY <1>3, <1>7 DEF RefuseCharge, RefuseStale, GiveUp, Settle
<1> QED BY <1>4, <1>5, <1>6, <1>7 DEF AnswerSet

LEMMA StepByPromise ==
  ASSUME Backend # "etcd", IInv, OwnInv, [Next]_vars, IInv'
  PROVE  OwnInv' /\ [Once!Next]_(Once!vars)
<1>1. CASE UNCHANGED vars
  <2> USE <1>1 DEF vars, callVars, redisVars, etcdVars, memVars, OwnInv
  <2>1. Unsent' /\ Underway' /\ ToldOfOwner' /\ KnownIsOwned'
    BY DEF InWindow, Unsent, Underway, ToldOfOwner, Winning, KnownIsOwned, Known
  <2>2. UNCHANGED Once!vars
    BY DEF Once!vars, InWindow
  <2> QED BY <2>1, <2>2
<1>2. ASSUME NEW c \in Call,
             \/ RefuseCharge(c) \/ FastReject(c) \/ RefuseStale(c) \/ AnswerSet(c) \/ GiveUp(c)
      PROVE  OwnInv' /\ Once!Next
  BY <1>2, SettlesByPromise DEF Once!Next
<1>3. ASSUME NEW c \in Call, MemoryInsert(c)
      PROVE  OwnInv' /\ Once!Next
  BY <1>3, MemoryTakes DEF Once!Next
<1>4. ASSUME NEW m \in net, ExecuteSet(m)
      PROVE  OwnInv' /\ [Once!Next]_(Once!vars)
  <2>1. m.c \in Call
    BY DEF IInv, Typed
  <2> QED BY <1>4, <2>1, ExecuteSetTakes DEF Once!Next, Once!vars, InWindow
<1>5. CASE Tick
  BY <1>5, TickCloses DEF Once!Next
<1>6. CASE /\ Next /\ ~Tick
           /\ ~\E c \in Call : \/ RefuseCharge(c) \/ FastReject(c) \/ RefuseStale(c) \/ AnswerSet(c)
                               \/ GiveUp(c) \/ MemoryInsert(c)
           /\ ~\E m \in net : ExecuteSet(m)
  BY <1>6, SilentSteps DEF Silent, Once!vars, InWindow
<1> QED BY <1>1, <1>2, <1>3, <1>4, <1>5, <1>6

(* The tier implements ReplayOnce: each of its steps is a step of the      *)
(* promise, or none of its business.  Until the window closes only the     *)
(* owner of a nonce is told Fresh and nobody takes one that was admitted;  *)
(* at any time Replay is said only of a nonce another call took.           *)
(* (AsyncReplayTier::check_and_insert over Redis and in memory)            *)
THEOREM ReplayOnceImplemented ==
  ASSUME QuorumCovers, Backend # "etcd"
  PROVE  Spec => ImplementsReplayOnce
<1>1. Init => OwnInv /\ Once!Init
  BY InitOwn
<1>2. IInv /\ OwnInv /\ [Next]_vars /\ IInv' => OwnInv' /\ [Once!Next]_(Once!vars)
  BY StepByPromise
<1> QED BY <1>1, <1>2, IInvHolds, PTL DEF Spec, ImplementsReplayOnce, Once!Spec
=============================================================================
