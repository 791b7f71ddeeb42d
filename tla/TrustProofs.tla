----------------------------- MODULE TrustProofs -----------------------------
(***************************************************************************)
(* What the trust plane and the client's anchors promise, for every set of *)
(* keys, threads, clients and versions, every duration and every budget.   *)
(*                                                                         *)
(* The exposure window: an entry's remaining time and its age add up to at *)
(* most T, counted from the lookup that preceded the read of the store, so *)
(* a stall only shortens it.  The delivered window: while the plane is not *)
(* dropped, a snapshot that still holds a removed key is as many cadences  *)
(* old as reloads have failed, so whatever a thread reads or finds cached  *)
(* was removed at most that long before, plus the age of the answer.       *)
(***************************************************************************)
EXTENDS TrustPlane, ClientAnchors, FiniteSetTheorems, WellFoundedInduction, TLAPS

(* The larger and the smaller of two numbers. *)
LEMMA MaxTwo == \A i, j \in Int : Max({i, j}) = IF i >= j THEN i ELSE j
<1> SUFFICES ASSUME NEW i \in Int, NEW j \in Int PROVE Max({i, j}) = IF i >= j THEN i ELSE j
  OBVIOUS
<1>1. CASE i >= j
  BY <1>1 DEF Max
<1>2. CASE ~(i >= j)
  BY <1>2 DEF Max
<1> QED
  BY <1>1, <1>2

LEMMA MinTwo == \A i, j \in Int : Min({i, j}) = IF i <= j THEN i ELSE j
<1> SUFFICES ASSUME NEW i \in Int, NEW j \in Int PROVE Min({i, j}) = IF i <= j THEN i ELSE j
  OBVIOUS
<1>1. CASE i <= j
  BY <1>1 DEF Min
<1>2. CASE ~(i <= j)
  BY <1>2 DEF Min
<1> QED
  BY <1>1, <1>2

(* The time so many cadences take. *)
Cadences(n) == n * Reload

LEMMA CadenceFacts ==
  /\ \A n \in Nat : Cadences(n) \in Nat /\ Cadences(n + 1) = Cadences(n) + Reload
  /\ \A m, n \in Nat : m <= n => Cadences(m) <= Cadences(n)
  /\ Cadences(1) = Reload
  /\ Cadences(TRUST_RELOAD_FAILURE_BUDGET) = TRUST_RELOAD_FAILURE_BUDGET * Reload
<1>1. Reload \in Nat
  BY TrustAssumption
<1>2. \A n \in Nat : Cadences(n) \in Nat /\ Cadences(n + 1) = Cadences(n) + Reload
  BY <1>1 DEF Cadences
<1>3. \A m, n \in Nat : m <= n => Cadences(m) <= Cadences(n)
  <2> SUFFICES ASSUME NEW m \in Nat, NEW n \in Nat, m <= n PROVE m * Reload <= n * Reload
    BY DEF Cadences
  <2>1. PICK d \in Nat : n = m + d
    BY Z3
  <2>2. n * Reload = m * Reload + d * Reload /\ d * Reload \in Nat /\ m * Reload \in Nat
    BY <1>1, <2>1
  <2> QED
    BY <2>2
<1> QED
  BY <1>1, <1>2, <1>3 DEF Cadences

----------------------------------------------------------------------------
(* The inductive invariant, part by part *)

Entry == [outcome : Outcomes \cup {"None"}, left : Int, invalidated : BOOLEAN, age : Nat]

Resolution ==
  [pc : {"idle", "clear", "lookup", "inner", "store", "done"}, key : Keys, age : 0 .. MaxStall,
   read : Outcomes \cup {"None"}, since : Int, late : BOOLEAN, behind : Nat,
   answer : Outcomes \cup {"None", "Unavailable"}]

PlaneType ==
  /\ file \in [Keys -> Outcomes] /\ snapshot \in [Keys -> Outcomes]
  /\ removed \in [Keys -> Present .. LastSeen]
  /\ reload \in [pc : {"sleep", "mark", "gone"}, timer : 0 .. Reload,
                 failures : 0 .. TRUST_RELOAD_FAILURE_BUDGET]
  /\ fileBad \in BOOLEAN /\ unread \in BOOLEAN /\ stale \in BOOLEAN /\ terminal \in BOOLEAN
  /\ gone \in BOOLEAN

PollType == [pc : {"sleep", "reading", "answered", "wedged", "gone"}, timer : Nat]
GotType == [epoch : Nat, behind : Nat, retried : BOOLEAN]

EpochType ==
  /\ poll \in PollType /\ got \in GotType
  /\ quiet \in 0 .. LivenessBound + 1 /\ missed \in 0 .. Unnoticed + 1
  /\ healthy \in BOOLEAN /\ pending \in BOOLEAN
  /\ epoch \in Nat \ {0} /\ last_seen \in 0 .. epoch

CacheType ==
  /\ cache \in [Keys -> Entry] /\ writes \in 0 .. PRUNE_EVERY_N_WRITES - 1

ThreadType == th \in [Threads -> Resolution]

(* What is on the way is no older than the read, and while the poller is   *)
(* trusted, what it missed is no older than its last poll, one cadence and *)
(* the read before.                                                        *)
HealthInv ==
  /\ last_seen = 0 => missed = 0
  /\ poll.pc = "gone" => quiet = LivenessBound + 1
  /\ poll.pc = "sleep" => poll.timer <= Poll
  /\ AtRead => poll.timer <= ReadBudget /\ got.behind <= ReadBudget - poll.timer
  /\ poll.pc = "answered" => got.epoch \in 1 .. epoch
  /\ poll.pc # "answered" => got.epoch = 0 /\ got.behind = 0
  /\ healthy /\ quiet <= LivenessBound => missed <= quiet + Poll + ReadBudget
  /\ healthy /\ poll.pc = "sleep" /\ ~ gone => missed <= ReadBudget + Poll - poll.timer

(* A dropped plane, or a reload worker that ended, is terminal.            *)
ClosedInv ==
  /\ gone => terminal
  /\ reload.pc = "gone" => terminal
  /\ \A t \in Threads : th[t].late => th[t].pc = "done" /\ th[t].answer = "Unavailable"

(* An entry's remaining time and its age make up at most T.                *)
Lasting(e) == e.outcome = "Active" /\ e.left > 0

WindowInv ==
  /\ \A k \in Keys : Lasting(cache[k]) => cache[k].left + cache[k].age <= t_secs
  /\ \A t \in Threads :
       /\ th[t].pc \in {"inner", "store"} => th[t].behind = 0
       /\ th[t].pc = "store" => th[t].read \in Outcomes
       /\ th[t].pc = "done" /\ th[t].answer = "Active" => th[t].behind < t_secs

CapacityInv == Cardinality({k \in Keys : cache[k] # None}) <= max_entries

----------------------------------------------------------------------------
(* Startup *)

LEMMA TrustConstants ==
  /\ t_secs \in Nat /\ t_secs >= 1 /\ negative_ttl_secs \in Nat /\ Reload \in Nat /\ Reload >= 1
  /\ Poll \in Nat /\ ReadBudget \in Nat /\ max_entries \in Nat
  /\ PRUNE_EVERY_N_WRITES \in Nat /\ PRUNE_EVERY_N_WRITES >= 1
  /\ TRUST_RELOAD_FAILURE_BUDGET \in Nat /\ TRUST_RELOAD_FAILURE_BUDGET >= 1 /\ MaxStall \in Nat
  /\ LivenessBound \in Nat /\ LivenessBound = 4 * Poll
  /\ Unnoticed \in Nat /\ Unnoticed = LivenessBound + Poll + ReadBudget
  /\ LastSeen = Cadences(TRUST_RELOAD_FAILURE_BUDGET) + t_secs + MaxStall + 1 /\ LastSeen \in Nat
  /\ Present = 0 - 1
<1>1. /\ t_secs \in Nat /\ t_secs >= 1 /\ negative_ttl_secs \in Nat /\ Reload \in Nat /\ Reload >= 1
      /\ Poll \in Nat /\ ReadBudget \in Nat /\ max_entries \in Nat
      /\ PRUNE_EVERY_N_WRITES \in Nat /\ PRUNE_EVERY_N_WRITES >= 1
      /\ TRUST_RELOAD_FAILURE_BUDGET \in Nat /\ TRUST_RELOAD_FAILURE_BUDGET >= 1 /\ MaxStall \in Nat
  BY TrustAssumption
<1>2. /\ LivenessBound \in Nat /\ LivenessBound = 4 * Poll /\ Present = 0 - 1
      /\ Unnoticed \in Nat /\ Unnoticed = LivenessBound + Poll + ReadBudget
  BY <1>1 DEF LivenessBound, Present, Unnoticed
<1>3. Cadences(TRUST_RELOAD_FAILURE_BUDGET) \in Nat
      /\ LastSeen = Cadences(TRUST_RELOAD_FAILURE_BUDGET) + t_secs + MaxStall + 1
  BY <1>1, CadenceFacts DEF LastSeen, Window
<1> QED
  BY <1>1, <1>2, <1>3

(* A thread between two resolutions. *)
LEMMA RestingFacts ==
  /\ Resting \in Resolution
  /\ Resting.pc = "idle" /\ Resting.age = 0 /\ Resting.since = Present /\ Resting.late = FALSE
  /\ Resting.behind = 0 /\ Resting.read = "None" /\ Resting.answer = "None"
<1>1. (CHOOSE k \in Keys : TRUE) \in Keys
  BY TrustAssumption
<1> QED
  BY <1>1, TrustConstants DEF Resting, Resolution

LEMMA NoneFacts ==
  None \in Entry /\ None.left = 0 /\ None.outcome = "None" /\ None.invalidated = FALSE /\ None.age = 0
BY DEF None, Entry

TrustInv ==
  PlaneType /\ EpochType /\ CacheType /\ ThreadType /\ HealthInv /\ ClosedInv /\ WindowInv
  /\ CapacityInv

LEMMA InitTrustInv == Init => TrustInv
<1> SUFFICES ASSUME Init PROVE TrustInv
  OBVIOUS
<1>1. PlaneType
  <2>1. file \in [Keys -> Outcomes] /\ snapshot \in [Keys -> Outcomes]
    BY DEF Init, Outcomes
  <2>2. removed \in [Keys -> Present .. LastSeen]
    BY TrustConstants DEF Init
  <2>3. reload \in [pc : {"sleep", "mark", "gone"}, timer : 0 .. Reload,
                   failures : 0 .. TRUST_RELOAD_FAILURE_BUDGET]
    BY TrustConstants DEF Init
  <2>4. fileBad = FALSE /\ unread = FALSE /\ stale = FALSE /\ terminal = FALSE /\ gone = FALSE
    BY DEF Init
  <2> QED
    BY <2>1, <2>2, <2>3, <2>4 DEF PlaneType
<1>2. EpochType
  <2>1. poll \in PollType /\ got \in GotType
    BY DEF Init, PollType, GotType, NoAnswer
  <2>2. quiet \in 0 .. LivenessBound + 1 /\ missed \in 0 .. Unnoticed + 1
    BY TrustConstants DEF Init
  <2>3. healthy = TRUE /\ pending = FALSE /\ epoch = 1 /\ last_seen = 0
    BY DEF Init
  <2>4. epoch \in Nat \ {0} /\ last_seen \in 0 .. epoch
    BY <2>3
  <2> QED
    BY <2>1, <2>2, <2>3, <2>4, Zenon DEF EpochType
<1>3. CacheType
  BY TrustConstants, NoneFacts DEF Init, CacheType
<1>4. ThreadType /\ \A t \in Threads : th[t] = Resting
  BY RestingFacts DEF Init, ThreadType
<1>5. HealthInv
  BY TrustConstants DEF Init, HealthInv, AtRead, NoAnswer
<1>6. ClosedInv
  BY <1>4, RestingFacts DEF Init, ClosedInv
<1>7. WindowInv
  BY <1>4, RestingFacts, NoneFacts DEF Init, WindowInv, Lasting
<1>8. CapacityInv
  <2>1. {k \in Keys : cache[k] # None} = {}
    BY DEF Init
  <2> QED
    BY <2>1, FS_EmptySet, TrustConstants DEF CapacityInv
<1> QED
  BY <1>1, <1>2, <1>3, <1>4, <1>5, <1>6, <1>7, <1>8 DEF TrustInv

----------------------------------------------------------------------------
(* The poller and its health *)

(* Every step but the poller's and time's leaves the poller alone. *)
LEMMA EpochFrame ==
  ASSUME EpochType, HealthInv, UNCHANGED <<last_seen, poll, got, healthy, quiet, missed>>,
         epoch' \in Nat \ {0}, epoch' >= epoch, pending' \in BOOLEAN, gone' \in {gone, TRUE}
  PROVE  EpochType' /\ HealthInv'
<1>1. EpochType'
  BY TrustConstants DEF EpochType
<1>2. poll.pc = "answered" => got'.epoch \in 1 .. epoch'
  <2> SUFFICES ASSUME poll.pc = "answered" PROVE got.epoch \in 1 .. epoch'
    OBVIOUS
  <2>1. got.epoch \in 1 .. epoch /\ epoch \in Nat
    BY DEF HealthInv, EpochType
  <2> QED
    BY <2>1
<1>3. HealthInv'
  BY <1>2 DEF HealthInv, AtRead
<1> QED
  BY <1>1, <1>3

LEMMA PollStep ==
  ASSUME EpochType, HealthInv,
         \/ PollStarts \/ GetExecutes \/ PollRetries \/ PollOk \/ PollFails
         \/ PollerEnds \/ PollerWedges
  PROVE  EpochType' /\ HealthInv'
<1>c. LivenessBound \in Nat /\ Poll \in Nat /\ ReadBudget \in Nat
      /\ Unnoticed = LivenessBound + Poll + ReadBudget
  BY TrustConstants
<1>t. /\ poll \in PollType /\ got \in GotType
      /\ quiet \in 0 .. LivenessBound + 1 /\ missed \in 0 .. Unnoticed + 1
      /\ healthy \in BOOLEAN /\ pending \in BOOLEAN
      /\ epoch \in Nat \ {0} /\ last_seen \in 0 .. epoch
  BY DEF EpochType
<1>n. /\ NoAnswer \in GotType /\ NoAnswer.epoch = 0 /\ NoAnswer.behind = 0
      /\ [NoAnswer EXCEPT !.retried = TRUE] \in GotType
      /\ [NoAnswer EXCEPT !.retried = TRUE].epoch = 0
      /\ [NoAnswer EXCEPT !.retried = TRUE].behind = 0
  BY DEF NoAnswer, GotType
<1>1. CASE PollStarts
  <2>1. /\ poll.pc = "sleep" /\ poll.timer = 0 /\ gone = FALSE /\ quiet' = 0
        /\ poll' = [pc |-> "reading", timer |-> ReadBudget]
        /\ UNCHANGED <<epoch, last_seen, got, healthy, missed, pending, gone>>
    BY <1>1 DEF PollStarts
  <2>2. (healthy => missed <= ReadBudget + Poll) /\ got.epoch = 0 /\ got.behind = 0
    BY <1>c, <1>t, <2>1 DEF HealthInv
  <2>3. EpochType'
    BY <1>c, <1>t, <2>1 DEF EpochType, PollType
  <2> QED
    BY <1>c, <1>t, <2>1, <2>2, <2>3 DEF HealthInv, AtRead
<1>6. CASE GetExecutes
  <2>1. /\ poll.pc = "reading" /\ poll' = [poll EXCEPT !.pc = "answered"]
        /\ got' = [got EXCEPT !.epoch = epoch]
        /\ UNCHANGED <<epoch, last_seen, healthy, quiet, missed, pending, gone>>
    BY <1>6 DEF GetExecutes
  <2>2. /\ poll' \in PollType /\ poll'.pc = "answered" /\ poll'.timer = poll.timer
        /\ got' \in GotType /\ got'.epoch = epoch /\ got'.behind = got.behind
    BY <1>t, <2>1 DEF PollType, GotType
  <2>3. EpochType'
    BY <1>t, <2>1, <2>2 DEF EpochType
  <2>4. poll.timer <= ReadBudget /\ got.behind <= ReadBudget - poll.timer
    BY <2>1 DEF HealthInv, AtRead
  <2>5. epoch \in 1 .. epoch
    BY <1>t
  <2> QED
    BY <2>1, <2>2, <2>3, <2>4, <2>5 DEF HealthInv, AtRead
<1>7. CASE PollRetries
  <2>1. /\ AtRead /\ poll' = [poll EXCEPT !.pc = "reading"]
        /\ got' = [NoAnswer EXCEPT !.retried = TRUE]
        /\ UNCHANGED <<epoch, last_seen, healthy, quiet, missed, pending, gone>>
    BY <1>7 DEF PollRetries
  <2>2. /\ poll' \in PollType /\ poll'.pc = "reading" /\ poll'.timer = poll.timer
        /\ got' \in GotType /\ got'.epoch = 0 /\ got'.behind = 0
    BY <1>t, <1>n, <2>1 DEF PollType
  <2>3. EpochType'
    BY <1>t, <2>1, <2>2 DEF EpochType
  <2>4. poll.timer <= ReadBudget /\ 0 <= ReadBudget - poll.timer
    BY <1>c, <1>t, <2>1 DEF HealthInv, PollType
  <2> QED
    BY <2>1, <2>2, <2>3, <2>4 DEF HealthInv, AtRead
<1>2. CASE PollOk
  <2>1. /\ poll.pc = "answered" /\ healthy' = TRUE /\ missed' = got.behind
        /\ last_seen' = got.epoch /\ got' = NoAnswer
        /\ pending' = (pending \/ (last_seen # 0 /\ last_seen # got.epoch))
        /\ poll' = [pc |-> "sleep", timer |-> Poll]
        /\ UNCHANGED <<epoch, quiet, gone>>
    BY <1>2 DEF PollOk
  <2>2. pending' \in BOOLEAN
    BY <2>1
  <2>3. /\ got.epoch \in 1 .. epoch /\ got.behind \in 0 .. ReadBudget
    BY <1>c, <1>t, <2>1 DEF HealthInv, AtRead, PollType, GotType
  <2>4. /\ poll' \in PollType /\ quiet' \in 0 .. LivenessBound + 1
        /\ missed' \in 0 .. Unnoticed + 1
        /\ epoch' \in Nat \ {0} /\ last_seen' \in 0 .. epoch' /\ last_seen' # 0
    BY <1>c, <1>t, <2>1, <2>3 DEF PollType
  <2>5. EpochType'
    BY <1>n, <2>1, <2>2, <2>4 DEF EpochType
  <2>6. poll'.pc = "sleep" /\ poll'.timer = Poll
    BY <2>1
  <2> QED
    BY <1>c, <1>t, <1>n, <2>1, <2>3, <2>4, <2>5, <2>6 DEF HealthInv, AtRead
<1>3. CASE PollFails
  <2>1. /\ healthy' = FALSE /\ got' = NoAnswer
        /\ poll' = [pc |-> "sleep", timer |-> Poll]
        /\ UNCHANGED <<epoch, last_seen, quiet, missed, pending, gone>>
    BY <1>3 DEF PollFails
  <2>2. EpochType'
    BY <1>c, <1>t, <1>n, <2>1 DEF EpochType, PollType
  <2>3. poll'.pc = "sleep" /\ poll'.timer = Poll
    BY <2>1
  <2> QED
    BY <1>c, <1>t, <1>n, <2>1, <2>2, <2>3 DEF HealthInv, AtRead
<1>4. CASE PollerEnds
  <2>1. /\ poll' = [poll EXCEPT !.pc = "gone"] /\ got' = NoAnswer
        /\ healthy' = FALSE /\ quiet' = LivenessBound + 1
        /\ UNCHANGED <<epoch, last_seen, missed, pending, gone>>
    BY <1>4 DEF PollerEnds
  <2>2. poll' \in PollType /\ poll'.pc = "gone"
    BY <1>t, <2>1 DEF PollType
  <2>3. EpochType'
    <3>1. quiet' \in 0 .. LivenessBound + 1 /\ missed' \in 0 .. Unnoticed + 1
          /\ epoch' \in Nat \ {0} /\ last_seen' \in 0 .. epoch'
      BY <1>c, <1>t, <2>1
    <3>2. healthy' \in BOOLEAN /\ pending' \in BOOLEAN
      BY <1>t, <2>1, Zenon
    <3> QED
      BY <1>n, <2>1, <2>2, <3>1, <3>2 DEF EpochType
  <2> QED
    BY <1>c, <1>t, <1>n, <2>1, <2>2, <2>3 DEF HealthInv, AtRead
<1>5. CASE PollerWedges
  <2>1. /\ poll' = [poll EXCEPT !.pc = "wedged"] /\ got' = NoAnswer
        /\ UNCHANGED <<epoch, last_seen, healthy, quiet, missed, pending, gone>>
    BY <1>5 DEF PollerWedges
  <2>2. poll' \in PollType /\ poll'.pc = "wedged"
    BY <1>t, <2>1 DEF PollType
  <2>3. EpochType'
    BY <1>c, <1>t, <1>n, <2>1, <2>2 DEF EpochType
  <2> QED
    BY <1>c, <1>t, <1>n, <2>1, <2>2, <2>3 DEF HealthInv, AtRead
<1> QED
  BY <1>1, <1>2, <1>3, <1>4, <1>5, <1>6, <1>7

LEMMA EpochTick ==
  ASSUME EpochType, HealthInv, Tick
  PROVE  EpochType' /\ HealthInv'
<1>c. LivenessBound \in Nat /\ Poll \in Nat /\ ReadBudget \in Nat
      /\ Unnoticed \in Nat /\ Unnoticed = LivenessBound + Poll + ReadBudget
  BY TrustConstants
<1>t. /\ poll \in PollType /\ got \in GotType
      /\ quiet \in 0 .. LivenessBound + 1 /\ missed \in 0 .. Unnoticed + 1
      /\ healthy \in BOOLEAN /\ pending \in BOOLEAN
      /\ epoch \in Nat \ {0} /\ last_seen \in 0 .. epoch
  BY DEF EpochType
<1>u. /\ poll.pc = "sleep" => poll.timer > 0 \/ gone
      /\ AtRead => poll.timer > 0
      /\ poll' = [poll EXCEPT !.timer = Max({poll.timer - 1, 0})]
      /\ quiet' = Min({quiet + 1, LivenessBound + 1})
      /\ missed' = IF last_seen \in {0, epoch} THEN 0 ELSE Min({missed + 1, Unnoticed + 1})
      /\ got' = IF got.epoch \in {0, epoch} THEN got ELSE [got EXCEPT !.behind = got.behind + 1]
      /\ UNCHANGED <<epoch, last_seen, healthy, pending, gone>>
  BY <1>t DEF Tick
<1>1. poll'.timer = (IF poll.timer - 1 >= 0 THEN poll.timer - 1 ELSE 0) /\ poll'.pc = poll.pc
      /\ poll' \in PollType /\ poll.timer \in Nat
  <2>1. Max({poll.timer - 1, 0}) = IF poll.timer - 1 >= 0 THEN poll.timer - 1 ELSE 0
    BY <1>t, MaxTwo DEF PollType
  <2>2. poll'.timer = Max({poll.timer - 1, 0}) /\ poll'.pc = poll.pc
        /\ poll' = [pc |-> poll.pc, timer |-> Max({poll.timer - 1, 0})]
    BY <1>t, <1>u DEF PollType
  <2>3. Max({poll.timer - 1, 0}) \in Nat
    BY <1>t, <2>1 DEF PollType
  <2> QED
    BY <1>t, <2>1, <2>2, <2>3 DEF PollType
<1>2. quiet' = IF quiet + 1 <= LivenessBound + 1 THEN quiet + 1 ELSE LivenessBound + 1
  BY <1>c, <1>t, <1>u, MinTwo
<1>3. missed' <= missed + 1 /\ missed' \in 0 .. Unnoticed + 1 /\ (last_seen = 0 => missed' = 0)
  <2>1. Min({missed + 1, Unnoticed + 1}) =
          IF missed + 1 <= Unnoticed + 1 THEN missed + 1 ELSE Unnoticed + 1
    BY <1>c, <1>t, MinTwo
  <2> QED
    BY <1>c, <1>t, <1>u, <2>1
<1>g. /\ got' \in GotType /\ got'.epoch = got.epoch /\ got.behind \in Nat /\ got'.behind \in Nat
      /\ got'.behind <= got.behind + 1 /\ (got.epoch = 0 => got'.behind = got.behind)
  BY <1>t, <1>u DEF GotType
<1>4. EpochType'
  BY <1>c, <1>t, <1>u, <1>g, <1>1, <1>2, <1>3 DEF EpochType
<1>5. healthy' /\ quiet' <= LivenessBound => missed' <= quiet' + Poll + ReadBudget
  <2>1. healthy /\ quiet <= LivenessBound => missed <= quiet + Poll + ReadBudget
    BY DEF HealthInv
  <2> QED
    BY <1>c, <1>t, <1>u, <1>2, <1>3, <2>1
<1>6. healthy' /\ poll'.pc = "sleep" /\ ~ gone' => missed' <= ReadBudget + Poll - poll'.timer
  <2>1. healthy /\ poll.pc = "sleep" /\ ~ gone => missed <= ReadBudget + Poll - poll.timer
    BY DEF HealthInv
  <2> QED
    BY <1>c, <1>t, <1>u, <1>1, <1>3, <2>1
<1>7. /\ poll'.pc = "sleep" => poll'.timer <= Poll
      /\ AtRead' => poll'.timer <= ReadBudget /\ got'.behind <= ReadBudget - poll'.timer
  <2>1. /\ poll.pc = "sleep" => poll.timer <= Poll
        /\ AtRead => poll.timer <= ReadBudget /\ got.behind <= ReadBudget - poll.timer
    BY DEF HealthInv
  <2>2. AtRead' = AtRead
    BY <1>1 DEF AtRead
  <2> QED
    BY <1>c, <1>t, <1>u, <1>g, <1>1, <2>1, <2>2
<1>8. /\ last_seen' = 0 => missed' = 0
      /\ poll'.pc = "gone" => quiet' = LivenessBound + 1
  <2>1. poll.pc = "gone" => quiet = LivenessBound + 1
    BY DEF HealthInv
  <2> QED
    BY <1>c, <1>t, <1>u, <1>1, <1>2, <1>3, <2>1
<1>9. /\ poll'.pc = "answered" => got'.epoch \in 1 .. epoch'
      /\ poll'.pc # "answered" => got'.epoch = 0 /\ got'.behind = 0
  BY <1>u, <1>g, <1>1 DEF HealthInv
<1> QED
  BY <1>4, <1>5, <1>6, <1>7, <1>8, <1>9 DEF HealthInv

(* Every step keeps what is said of the poller. *)
LEMMA EpochStep ==
  ASSUME EpochType, HealthInv, [Next]_vars
  PROVE  EpochType' /\ HealthInv'
<1>1. CASE \/ PollStarts \/ GetExecutes \/ PollRetries \/ PollOk \/ PollFails
           \/ PollerEnds \/ PollerWedges
  BY <1>1, PollStep
<1>2. CASE Tick
  BY <1>2, EpochTick
<1>3. CASE Drop
  <2>1. UNCHANGED <<epoch, last_seen, poll, got, healthy, quiet, missed, pending>> /\ gone' = TRUE
    BY <1>3 DEF Drop, epochs
  <2> QED
    BY <2>1, EpochFrame DEF EpochType
<1>4. CASE Advance
  <2>1. /\ UNCHANGED <<last_seen, poll, got, healthy, quiet, missed, pending, gone>>
        /\ epoch' = epoch + 1
    BY <1>4 DEF Advance
  <2>2. epoch' \in Nat \ {0} /\ epoch' >= epoch /\ pending' \in BOOLEAN
    BY <2>1 DEF EpochType
  <2> QED
    BY <2>1, <2>2, EpochFrame
<1>5. ASSUME NEW t \in Threads, NEW k \in Keys, Start(t, k) PROVE EpochType' /\ HealthInv'
  <2>1. /\ UNCHANGED <<epoch, last_seen, poll, got, healthy, quiet, missed, gone>>
        /\ pending' = pending \/ pending' = FALSE
    BY <1>5 DEF Start
  <2>2. epoch' \in Nat \ {0} /\ epoch' >= epoch
    BY <2>1 DEF EpochType
  <2>3. pending' \in BOOLEAN
    BY <2>1, Zenon DEF EpochType
  <2> QED
    BY <2>1, <2>2, <2>3, EpochFrame
<1>6. CASE UNCHANGED epochs /\ gone' = gone
  <2>1. UNCHANGED <<epoch, last_seen, poll, got, healthy, quiet, missed, pending>>
    BY <1>6 DEF epochs
  <2>2. epoch' \in Nat \ {0} /\ epoch' >= epoch /\ pending' \in BOOLEAN
    BY <2>1 DEF EpochType
  <2> QED
    BY <1>6, <2>1, <2>2, EpochFrame
<1>7. \/ PollStarts \/ GetExecutes \/ PollRetries \/ PollOk \/ PollFails \/ PollerEnds
      \/ PollerWedges \/ Tick \/ Drop \/ Advance
      \/ \E t \in Threads, k \in Keys : Start(t, k)
      \/ UNCHANGED epochs /\ gone' = gone
  BY DEF Next, vars, Edit, FileBreaks, FileFixed, Reloader, ReloadOk, MarkFresh, ReloadFails,
         ReloadEnds, Clear, Lookup, Inner, Store
<1> QED
  BY <1>1, <1>2, <1>3, <1>4, <1>5, <1>6, <1>7

----------------------------------------------------------------------------
(* What a step does to the threads *)

Alone(t) == \A s \in Threads \ {t} : th'[s] = th[s]

LEMMA StartEffect ==
  ASSUME PlaneType, ThreadType, NEW t \in Threads, NEW k \in Keys, Start(t, k)
  PROVE  /\ th' \in [Threads -> Resolution] /\ Alone(t)
         /\ th'[t].key = k /\ th'[t].late = gone /\ th'[t].age = 0 /\ th'[t].behind = 0
         /\ \/ (stale \/ terminal) /\ th'[t].pc = "done" /\ th'[t].answer = "Unavailable"
               /\ th'[t].since = Present
            \/ ~ (stale \/ terminal) /\ th'[t].pc \in {"clear", "lookup"} /\ th'[t].since = removed[k]
<1>t. th \in [Threads -> Resolution] /\ gone \in BOOLEAN /\ removed[k] \in Int
  BY TrustConstants DEF PlaneType, ThreadType
<1>1. CASE /\ stale \/ terminal
           /\ th' = [th EXCEPT ![t] = [Resting EXCEPT !.pc = "done", !.key = k,
                       !.late = gone, !.answer = "Unavailable"]]
  <2> DEFINE r == [Resting EXCEPT !.pc = "done", !.key = k, !.late = gone, !.answer = "Unavailable"]
  <2>1. r \in Resolution /\ r.pc = "done" /\ r.key = k /\ r.late = gone /\ r.answer = "Unavailable"
        /\ r.age = 0 /\ r.behind = 0 /\ r.since = Present
    BY <1>t, RestingFacts DEF Resolution
  <2>2. th' = [th EXCEPT ![t] = r]
    BY <1>1
  <2> HIDE DEF r
  <2>3. th'[t] = r /\ th' \in [Threads -> Resolution] /\ Alone(t)
    BY <1>t, <2>1, <2>2 DEF Alone
  <2> QED
    BY <1>1, <2>1, <2>3
<1>2. CASE /\ ~ (stale \/ terminal)
           /\ th' = [th EXCEPT ![t] = [Resting EXCEPT !.key = k, !.late = gone,
                       !.since = removed[k], !.pc = IF pending THEN "clear" ELSE "lookup"]]
  <2> DEFINE r == [Resting EXCEPT !.key = k, !.late = gone, !.since = removed[k],
                     !.pc = IF pending THEN "clear" ELSE "lookup"]
  <2>1. r \in Resolution /\ r.pc \in {"clear", "lookup"} /\ r.key = k /\ r.late = gone
        /\ r.age = 0 /\ r.behind = 0 /\ r.since = removed[k]
    BY <1>t, RestingFacts DEF Resolution
  <2>2. th' = [th EXCEPT ![t] = r]
    BY <1>2
  <2> HIDE DEF r
  <2>3. th'[t] = r /\ th' \in [Threads -> Resolution] /\ Alone(t)
    BY <1>t, <2>1, <2>2 DEF Alone
  <2> QED
    BY <1>2, <2>1, <2>3
<1> QED
  BY <1>1, <1>2 DEF Start

LEMMA ClearEffect ==
  ASSUME ThreadType, NEW t \in Threads, Clear(t)
  PROVE  /\ th' \in [Threads -> Resolution] /\ Alone(t) /\ th[t].pc = "clear" /\ th'[t].pc = "lookup"
         /\ th'[t].key = th[t].key /\ th'[t].late = th[t].late /\ th'[t].age = th[t].age
         /\ th'[t].since = th[t].since
<1>1. th \in [Threads -> Resolution] /\ th[t].pc = "clear" /\ th' = [th EXCEPT ![t].pc = "lookup"]
  BY DEF ThreadType, Clear
<1> QED
  BY <1>1 DEF Resolution, Alone

LEMMA LookupEffect ==
  ASSUME CacheType, ThreadType, NEW t \in Threads, Lookup(t)
  PROVE  /\ th' \in [Threads -> Resolution] /\ Alone(t) /\ th[t].pc = "lookup"
         /\ th'[t].key = th[t].key /\ th'[t].late = th[t].late /\ th'[t].age = 0
         /\ th'[t].since = th[t].since
         /\ \/ /\ th'[t].pc = "done" /\ cache[th[t].key].left > 0
               /\ th'[t].answer = cache[th[t].key].outcome /\ th'[t].behind = cache[th[t].key].age
            \/ th'[t].pc = "inner" /\ th'[t].answer = "None" /\ th'[t].behind = 0
<1> DEFINE k == th[t].key
           hit == Open(cache[k], 0) /\ ~ cache[k].invalidated
           r == [th[t] EXCEPT !.age = 0, !.pc = IF hit THEN "done" ELSE "inner",
                   !.answer = IF hit THEN cache[k].outcome ELSE "None",
                   !.behind = IF hit THEN cache[k].age ELSE 0]
<1>t. th \in [Threads -> Resolution] /\ th[t] \in Resolution /\ k \in Keys /\ cache[k] \in Entry
      /\ th[t].pc = "lookup"
  BY DEF ThreadType, CacheType, Resolution, Lookup
<1>u. th' = [th EXCEPT ![t] = r]
  BY <1>t DEF Lookup
<1>e. cache[k].outcome \in Outcomes \cup {"None"} /\ cache[k].age \in Nat /\ cache[k].left \in Int
  BY <1>t DEF Entry
<1>h. hit => cache[k].left > 0
  BY <1>e DEF Open
<1> HIDE DEF k, hit
<1>n. MaxStall \in Nat
  BY TrustConstants
<1>p. PICK pc \in {"done", "inner"}, ans \in Outcomes \cup {"None"}, beh \in Nat :
        /\ pc = (IF hit THEN "done" ELSE "inner")
        /\ ans = (IF hit THEN cache[k].outcome ELSE "None")
        /\ beh = (IF hit THEN cache[k].age ELSE 0)
  BY <1>e
<1>q. r = [th[t] EXCEPT !.age = 0, !.pc = pc, !.answer = ans, !.behind = beh]
  BY <1>p
<1>1. /\ r \in Resolution /\ r.key = th[t].key /\ r.late = th[t].late /\ r.age = 0
      /\ r.since = th[t].since /\ r.pc = pc /\ r.answer = ans /\ r.behind = beh
  <2> HIDE DEF r
  <2>1. r = [pc |-> pc, key |-> th[t].key, age |-> 0, read |-> th[t].read, since |-> th[t].since,
             late |-> th[t].late, behind |-> beh, answer |-> ans]
    BY <1>t, <1>q DEF Resolution
  <2>2. /\ th[t].key \in Keys /\ th[t].read \in Outcomes \cup {"None"} /\ th[t].since \in Int
        /\ th[t].late \in BOOLEAN /\ 0 \in 0 .. MaxStall
    BY <1>t, <1>n DEF Resolution
  <2> QED
    BY <1>p, <2>1, <2>2 DEF Resolution
<1> HIDE DEF r
<1>2. th'[t] = r /\ th' \in [Threads -> Resolution] /\ Alone(t)
  BY <1>t, <1>u, <1>1 DEF Alone
<1>3. CASE hit
  BY <1>t, <1>h, <1>p, <1>1, <1>2, <1>3 DEF k
<1>4. CASE ~ hit
  BY <1>t, <1>p, <1>1, <1>2, <1>4
<1> QED
  BY <1>3, <1>4

LEMMA InnerEffect ==
  ASSUME PlaneType, ThreadType, NEW t \in Threads, Inner(t)
  PROVE  /\ th' \in [Threads -> Resolution] /\ Alone(t) /\ th[t].pc = "inner" /\ th'[t].pc = "store"
         /\ th'[t].key = th[t].key /\ th'[t].late = th[t].late /\ th'[t].age = th[t].age
         /\ th'[t].since = th[t].since /\ th'[t].behind = th[t].behind
         /\ th'[t].read = snapshot[th[t].key]
<1>1. th \in [Threads -> Resolution] /\ th[t].pc = "inner"
      /\ th' = [th EXCEPT ![t].pc = "store", ![t].read = snapshot[th[t].key]]
  BY DEF ThreadType, Inner
<1>2. snapshot[th[t].key] \in Outcomes
  BY <1>1 DEF Resolution, PlaneType
<1> QED
  BY <1>1, <1>2 DEF Resolution, Alone

LEMMA StoreEffect ==
  ASSUME ThreadType, NEW t \in Threads, Store(t)
  PROVE  /\ th' \in [Threads -> Resolution] /\ Alone(t) /\ th[t].pc = "store" /\ th'[t].pc = "done"
         /\ th'[t].key = th[t].key /\ th'[t].late = th[t].late /\ th'[t].age = 0
         /\ th'[t].since = th[t].since /\ th'[t].behind = th[t].behind
         /\ th'[t].answer = th[t].read
<1>1. th \in [Threads -> Resolution] /\ th[t].pc = "store"
      /\ th' = [th EXCEPT ![t].pc = "done", ![t].answer = th[t].read, ![t].age = 0]
  BY DEF ThreadType, Store
<1>2. MaxStall \in Nat
  BY TrustConstants
<1>3. /\ th[t].key \in Keys /\ th[t].read \in Outcomes \cup {"None"} /\ th[t].since \in Int
      /\ th[t].late \in BOOLEAN /\ th[t].behind \in Nat /\ 0 \in 0 .. MaxStall
  BY <1>1, <1>2 DEF Resolution
<1>4. th'[t] = [pc |-> "done", key |-> th[t].key, age |-> 0, read |-> th[t].read,
                since |-> th[t].since, late |-> th[t].late, behind |-> th[t].behind,
                answer |-> th[t].read]
  BY <1>1 DEF Resolution
<1>5. th'[t] \in Resolution
  BY <1>3, <1>4 DEF Resolution
<1>6. Alone(t) /\ th' \in [Threads -> Resolution]
  BY <1>1, <1>5 DEF Alone
<1> QED
  BY <1>1, <1>4, <1>6

LEMMA EditEffect ==
  ASSUME ThreadType, NEW k \in Keys, NEW o \in Outcomes, Edit(k, o)
  PROVE  /\ th' \in [Threads -> Resolution]
         /\ \A t \in Threads :
              /\ th'[t].pc = th[t].pc /\ th'[t].key = th[t].key /\ th'[t].age = th[t].age
              /\ th'[t].read = th[t].read /\ th'[t].late = th[t].late
              /\ th'[t].behind = th[t].behind /\ th'[t].answer = th[t].answer
              /\ th'[t].since = IF th[t].key = k /\ o = "Active" THEN Present ELSE th[t].since
<1>1. /\ th \in [Threads -> Resolution]
      /\ th' = [t \in Threads |-> IF th[t].key = k /\ o = "Active"
                                  THEN [th[t] EXCEPT !.since = Present] ELSE th[t]]
  BY DEF ThreadType, Edit
<1> QED
  BY <1>1, TrustConstants DEF Resolution

LEMMA TickEffect ==
  ASSUME ThreadType, Tick
  PROVE  /\ th' \in [Threads -> Resolution]
         /\ \A t \in Threads :
              /\ th'[t].pc = th[t].pc /\ th'[t].key = th[t].key /\ th'[t].since = th[t].since
              /\ th'[t].read = th[t].read /\ th'[t].late = th[t].late
              /\ th'[t].behind = th[t].behind /\ th'[t].answer = th[t].answer
              /\ th'[t].age = IF th[t].pc \in {"idle", "done"} THEN th[t].age ELSE th[t].age + 1
<1>1. /\ th \in [Threads -> Resolution]
      /\ th' = [t \in Threads |-> IF Running(t) THEN [th[t] EXCEPT !.age = @ + 1] ELSE th[t]]
      /\ \A t \in Threads : Running(t) => th[t].age < MaxStall
  BY DEF ThreadType, Tick
<1>2. ASSUME NEW t \in Threads
      PROVE  /\ th'[t] \in Resolution
             /\ th'[t].pc = th[t].pc /\ th'[t].key = th[t].key /\ th'[t].since = th[t].since
             /\ th'[t].read = th[t].read /\ th'[t].late = th[t].late
             /\ th'[t].behind = th[t].behind /\ th'[t].answer = th[t].answer
             /\ th'[t].age = IF th[t].pc \in {"idle", "done"} THEN th[t].age ELSE th[t].age + 1
  <2>1. th[t] \in Resolution /\ th[t].age \in 0 .. MaxStall
    BY <1>1 DEF Resolution
  <2>2. CASE Running(t)
    <3>1. th'[t] = [th[t] EXCEPT !.age = th[t].age + 1] /\ th[t].age + 1 \in 0 .. MaxStall
      BY <1>1, <2>1, <2>2, TrustConstants
    <3> QED
      BY <2>1, <2>2, <3>1 DEF Resolution, Running
  <2>3. CASE ~ Running(t)
    BY <1>1, <2>1, <2>3 DEF Running
  <2> QED
    BY <2>2, <2>3
<1>3. th' = [t \in Threads |-> th'[t]]
  BY <1>1
<1> QED
  BY <1>2, <1>3

(* The threads stay well formed. *)
LEMMA ThreadStep ==
  ASSUME PlaneType, CacheType, ThreadType, [Next]_vars
  PROVE  ThreadType'
<1>1. ASSUME NEW t \in Threads, NEW k \in Keys, Start(t, k) PROVE ThreadType'
  BY <1>1, StartEffect DEF ThreadType
<1>2. ASSUME NEW t \in Threads, Clear(t) \/ Lookup(t) \/ Inner(t) \/ Store(t) PROVE ThreadType'
  BY <1>2, ClearEffect, LookupEffect, InnerEffect, StoreEffect DEF ThreadType
<1>3. ASSUME NEW k \in Keys, NEW o \in Outcomes, Edit(k, o) PROVE ThreadType'
  BY <1>3, EditEffect DEF ThreadType
<1>4. CASE Tick
  BY <1>4, TickEffect DEF ThreadType
<1>5. CASE UNCHANGED th
  BY <1>5 DEF ThreadType
<1>6. \/ \E t \in Threads, k \in Keys : Start(t, k)
      \/ \E t \in Threads : Clear(t) \/ Lookup(t) \/ Inner(t) \/ Store(t)
      \/ \E k \in Keys, o \in Outcomes : Edit(k, o)
      \/ Tick \/ UNCHANGED th
  BY DEF Next, vars, FileBreaks, FileFixed, Advance, Reloader, ReloadOk, MarkFresh, ReloadFails,
         ReloadEnds, Drop, PollStarts, GetExecutes, PollRetries, PollOk, PollFails, PollerEnds, PollerWedges
<1> QED
  BY <1>1, <1>2, <1>3, <1>4, <1>5, <1>6

----------------------------------------------------------------------------
(* What a step does to the cache *)

LEMMA ClearCache ==
  ASSUME CacheType, NEW t \in Threads, Clear(t)
  PROVE  /\ cache' \in [Keys -> Entry] /\ writes' = writes
         /\ \A k \in Keys :
              \/ cache'[k] = None
              \/ /\ cache[k] # None /\ cache'[k].outcome = cache[k].outcome
                 /\ cache'[k].left = cache[k].left /\ cache'[k].age = cache[k].age
<1>1. /\ cache \in [Keys -> Entry] /\ writes' = writes
      /\ cache' = [k \in Keys |-> IF Open(cache[k], 0)
                                  THEN [cache[k] EXCEPT !.invalidated = TRUE] ELSE None]
  BY DEF CacheType, Clear
<1>2. ASSUME NEW k \in Keys
      PROVE  /\ cache'[k] \in Entry
             /\ \/ cache'[k] = None
                \/ /\ cache[k] # None /\ cache'[k].outcome = cache[k].outcome
                   /\ cache'[k].left = cache[k].left /\ cache'[k].age = cache[k].age
  <2>1. CASE Open(cache[k], 0)
    <3>1. cache[k] \in Entry /\ cache'[k] = [cache[k] EXCEPT !.invalidated = TRUE]
      BY <1>1, <2>1
    <3>2. cache[k] # None
      BY <2>1 DEF Open
    <3> QED
      BY <3>1, <3>2 DEF Entry
  <2>2. CASE ~ Open(cache[k], 0)
    BY <1>1, <2>2, NoneFacts
  <2> QED
    BY <2>1, <2>2
<1>3. cache' = [k \in Keys |-> cache'[k]]
  BY <1>1
<1> QED
  BY <1>1, <1>2, <1>3

LEMMA InstalledFacts ==
  ASSUME NEW e \in Entry, NEW o \in Outcomes, NEW g \in 0 .. MaxStall,
         Installed(e, o, g, g) # None
  PROVE  /\ Installed(e, o, g, g) \in Entry
         /\ Installed(e, o, g, g).outcome = o /\ Installed(e, o, g, g).age = g
         /\ Installed(e, o, g, g).left > 0 => Installed(e, o, g, g).left + g <= ttl_of(o)
<1> DEFINE whole == ttl_of(o) - g
           left == IF e.invalidated THEN Min({whole, e.left}) ELSE whole
<1>c. MaxStall \in Nat /\ t_secs \in Nat /\ negative_ttl_secs \in Nat
  BY TrustConstants
<1>1. g \in Nat /\ ttl_of(o) \in Nat /\ e.left \in Int /\ whole \in Int
  BY <1>c DEF ttl_of, Entry
<1>2. left \in Int /\ left <= whole
  <2>1. Min({whole, e.left}) = IF whole <= e.left THEN whole ELSE e.left
    BY <1>1, MinTwo
  <2> HIDE DEF whole
  <2> QED
    BY <1>1, <2>1
<1>3. PICK m : m = Max({left, -MaxStall})
  OBVIOUS
<1>4. m \in Int /\ (m > 0 => m = left)
  <2>1. -MaxStall \in Int /\ -MaxStall <= 0
    BY <1>c
  <2>2. Max({left, -MaxStall}) = IF left >= -MaxStall THEN left ELSE -MaxStall
    BY <1>2, <2>1, MaxTwo
  <2> HIDE DEF left
  <2> QED
    BY <1>2, <1>3, <2>1, <2>2
<1>5. Installed(e, o, g, g) = [outcome |-> o, left |-> m, invalidated |-> FALSE, age |-> g]
  BY <1>3 DEF Installed
<1> HIDE DEF left
<1>6. m > 0 => m + g <= ttl_of(o)
  BY <1>1, <1>2, <1>4
<1> QED
  BY <1>1, <1>4, <1>5, <1>6 DEF Entry

(* The key's entry is replaced, dropped or kept; the others are kept or    *)
(* pruned; and a new one needs room.                                       *)
LEMMA StoreCache ==
  ASSUME CacheType, ThreadType, NEW t \in Threads, Store(t),
         th[t].pc = "store" => th[t].read \in Outcomes
  PROVE  /\ cache' \in [Keys -> Entry] /\ writes' \in 0 .. PRUNE_EVERY_N_WRITES - 1
         /\ \A k \in Keys :
              \/ cache'[k] = None \/ cache'[k] = cache[k]
              \/ /\ k = th[t].key /\ cache'[k].outcome = th[t].read /\ cache'[k].age = th[t].age
                 /\ cache'[k].left > 0 => cache'[k].left + cache'[k].age <= ttl_of(th[t].read)
         /\ CapacityInv => CapacityInv'
<1> DEFINE q == th[t]
           prune == writes + 1 = PRUNE_EVERY_N_WRITES
           kept == [k \in Keys |-> IF prune /\ ~ Open(cache[k], q.age) THEN None ELSE cache[k]]
           next == Installed(kept[q.key], q.read, q.age, q.age)
<1>t. /\ cache \in [Keys -> Entry] /\ writes \in 0 .. PRUNE_EVERY_N_WRITES - 1
      /\ q.key \in Keys /\ q.age \in 0 .. MaxStall /\ q.read \in Outcomes
  BY DEF CacheType, ThreadType, Resolution, Store
<1>k. kept \in [Keys -> Entry] /\ \A k \in Keys : kept[k] = None \/ kept[k] = cache[k]
  BY <1>t, NoneFacts
<1>u. /\ writes' = IF prune THEN 0 ELSE writes + 1
      /\ cache' = IF next # None /\ AtCapacity(kept) /\ kept[q.key] = None
                  THEN kept ELSE [kept EXCEPT ![q.key] = next]
  BY DEF Store
<1>w. writes' \in 0 .. PRUNE_EVERY_N_WRITES - 1
  BY <1>t, <1>u, TrustConstants
<1> HIDE DEF prune, kept
<1>n. /\ next \in Entry
      /\ next # None => /\ next.outcome = q.read /\ next.age = q.age
                        /\ next.left > 0 => next.left + next.age <= ttl_of(q.read)
  BY <1>t, <1>k, InstalledFacts, NoneFacts
<1> HIDE DEF next
<1>f. IsFiniteSet(Keys) /\ max_entries \in Nat
  BY TrustAssumption
<1>h. CapacityInv => Cardinality({k \in Keys : kept[k] # None}) <= max_entries
  <2>1. {k \in Keys : kept[k] # None} \in SUBSET {k \in Keys : cache[k] # None}
    BY <1>k
  <2>2. IsFiniteSet({k \in Keys : cache[k] # None})
    BY <1>f, FS_Subset
  <2>3. /\ IsFiniteSet({k \in Keys : kept[k] # None})
        /\ Cardinality({k \in Keys : kept[k] # None}) <= Cardinality({k \in Keys : cache[k] # None})
    BY <2>1, <2>2, FS_Subset
  <2>4. Cardinality({k \in Keys : kept[k] # None}) \in Nat /\ Cardinality({k \in Keys : cache[k] # None}) \in Nat
    BY <2>2, <2>3, FS_CardinalityType
  <2> QED
    BY <1>f, <2>3, <2>4 DEF CapacityInv
<1>1. CASE next # None /\ AtCapacity(kept) /\ kept[q.key] = None
  <2>1. cache' = kept
    BY <1>u, <1>1
  <2>2. CapacityInv => CapacityInv'
    BY <1>h, <2>1 DEF CapacityInv
  <2> QED
    BY <1>k, <1>w, <2>1, <2>2
<1>2. CASE ~ (next # None /\ AtCapacity(kept) /\ kept[q.key] = None)
  <2>1. cache' = [kept EXCEPT ![q.key] = next]
    BY <1>u, <1>2
  <2>2. cache' \in [Keys -> Entry] /\ cache'[q.key] = next /\ \A k \in Keys \ {q.key} : cache'[k] = kept[k]
    BY <1>t, <1>k, <1>n, <2>1
  <2>3. CapacityInv => CapacityInv'
    <3> DEFINE K == {k \in Keys : kept[k] # None}
               N == {k \in Keys : cache'[k] # None}
    <3>1. IsFiniteSet(K) /\ Cardinality(K) \in Nat /\ IsFiniteSet(N) /\ Cardinality(N) \in Nat
      BY <1>f, FS_Subset, FS_CardinalityType
    <3>2. CASE next = None \/ kept[q.key] # None
      <4>1. N \in SUBSET K
        BY <2>2, <3>2
      <4>2. Cardinality(N) <= Cardinality(K)
        BY <3>1, <4>1, FS_Subset
      <4> HIDE DEF K, N
      <4>3. Cardinality(K) <= max_entries => Cardinality(N) <= max_entries
        BY <1>f, <3>1, <4>2
      <4> QED
        BY <1>h, <4>3 DEF CapacityInv, K, N
    <3>3. CASE next # None /\ kept[q.key] = None
      <4>1. ~ AtCapacity(kept)
        BY <1>2, <3>3
      <4>2. Cardinality(K) < max_entries
        BY <1>f, <3>1, <4>1 DEF AtCapacity
      <4>3. N \in SUBSET (K \cup {q.key})
        BY <2>2
      <4>4. IsFiniteSet(K \cup {q.key}) /\ Cardinality(K \cup {q.key}) <= Cardinality(K) + 1
            /\ Cardinality(K \cup {q.key}) \in Nat
        <5>1. IsFiniteSet(K \cup {q.key})
              /\ Cardinality(K \cup {q.key}) = IF q.key \in K THEN Cardinality(K) ELSE Cardinality(K) + 1
          BY <3>1, FS_AddElement
        <5> HIDE DEF K
        <5> QED
          BY <3>1, <5>1
      <4>5. Cardinality(N) <= Cardinality(K \cup {q.key})
        BY <4>3, <4>4, FS_Subset
      <4> HIDE DEF K, N
      <4>6. Cardinality(N) <= max_entries
        BY <1>f, <3>1, <4>2, <4>4, <4>5
      <4> QED
        BY <4>6 DEF CapacityInv, N
    <3> QED
      BY <3>2, <3>3
  <2> QED
    BY <1>k, <1>n, <1>w, <2>2, <2>3
<1> QED
  BY <1>1, <1>2

LEMMA TickCache ==
  ASSUME CacheType, Tick
  PROVE  /\ cache' \in [Keys -> Entry] /\ writes' = writes
         /\ \A k \in Keys :
              \/ cache'[k] = None
              \/ /\ cache[k] # None /\ cache'[k].outcome = cache[k].outcome
                 /\ cache'[k].left > 0 => cache[k].left = cache'[k].left + 1
                 /\ cache'[k].age = IF cache[k].age <= t_secs + MaxStall
                                    THEN cache[k].age + 1 ELSE t_secs + MaxStall + 1
<1>c. t_secs \in Nat /\ MaxStall \in Nat
  BY TrustConstants
<1>1. /\ cache \in [Keys -> Entry] /\ writes' = writes
      /\ cache' = [k \in Keys |-> IF cache[k] = None THEN None
                     ELSE [cache[k] EXCEPT !.left = Max({cache[k].left - 1, -MaxStall}),
                                           !.age = Min({cache[k].age + 1, t_secs + MaxStall + 1})]]
  BY DEF CacheType, Tick
<1>2. ASSUME NEW k \in Keys
      PROVE  /\ cache'[k] \in Entry
             /\ \/ cache'[k] = None
                \/ /\ cache[k] # None /\ cache'[k].outcome = cache[k].outcome
                   /\ cache'[k].left > 0 => cache[k].left = cache'[k].left + 1
                   /\ cache'[k].age = IF cache[k].age <= t_secs + MaxStall
                                      THEN cache[k].age + 1 ELSE t_secs + MaxStall + 1
  <2>1. CASE cache[k] = None
    BY <1>1, <2>1, NoneFacts
  <2>2. CASE cache[k] # None
    <3>1. cache[k] \in Entry /\ cache[k].left \in Int /\ cache[k].age \in Nat
      BY <1>1 DEF Entry
    <3>2. PICK l, g : l = Max({cache[k].left - 1, -MaxStall})
                      /\ g = Min({cache[k].age + 1, t_secs + MaxStall + 1})
      OBVIOUS
    <3>3. cache'[k] = [cache[k] EXCEPT !.left = l, !.age = g]
      BY <1>1, <2>2, <3>2
    <3>4. -MaxStall \in Int /\ -MaxStall <= 0
      BY <1>c
    <3>5. l = (IF cache[k].left - 1 >= -MaxStall THEN cache[k].left - 1 ELSE -MaxStall)
      <4>1. cache[k].left - 1 \in Int
        BY <3>1
      <4>2. Max({cache[k].left - 1, -MaxStall}) =
              IF cache[k].left - 1 >= -MaxStall THEN cache[k].left - 1 ELSE -MaxStall
        BY <3>4, <4>1, MaxTwo, Zenon
      <4> QED BY <3>2, <4>2, Zenon
    <3>6. g = (IF cache[k].age + 1 <= t_secs + MaxStall + 1 THEN cache[k].age + 1 ELSE t_secs + MaxStall + 1)
      <4>1. cache[k].age + 1 \in Int /\ t_secs + MaxStall + 1 \in Int
        BY <1>c, <3>1
      <4>2. Min({cache[k].age + 1, t_secs + MaxStall + 1}) =
              IF cache[k].age + 1 <= t_secs + MaxStall + 1
              THEN cache[k].age + 1 ELSE t_secs + MaxStall + 1
        BY <4>1, MinTwo, Zenon
      <4> QED BY <3>2, <4>2, Zenon
    <3>7. l \in Int /\ (l > 0 => cache[k].left = l + 1)
      BY <3>1, <3>4, <3>5
    <3>8. g \in Nat /\ g = IF cache[k].age <= t_secs + MaxStall THEN cache[k].age + 1 ELSE t_secs + MaxStall + 1
      BY <1>c, <3>1, <3>6
    <3>9. cache'[k] \in Entry /\ cache'[k].outcome = cache[k].outcome /\ cache'[k].left = l /\ cache'[k].age = g
      BY <3>1, <3>3, <3>7, <3>8 DEF Entry
    <3> QED
      BY <2>2, <3>7, <3>8, <3>9
  <2> QED
    BY <2>1, <2>2
<1>3. cache' = [k \in Keys |-> cache'[k]]
  BY <1>1
<1> QED
  BY <1>1, <1>2, <1>3

----------------------------------------------------------------------------
(* The plane's own state *)

LEMMA PlaneTypeStep ==
  ASSUME PlaneType, [Next]_vars
  PROVE  PlaneType'
<1>t. /\ file \in [Keys -> Outcomes] /\ snapshot \in [Keys -> Outcomes]
      /\ removed \in [Keys -> Present .. LastSeen]
      /\ reload \in [pc : {"sleep", "mark", "gone"}, timer : 0 .. Reload,
                     failures : 0 .. TRUST_RELOAD_FAILURE_BUDGET]
  BY DEF PlaneType
<1>b. /\ fileBad \in BOOLEAN /\ unread \in BOOLEAN /\ stale \in BOOLEAN /\ terminal \in BOOLEAN
      /\ gone \in BOOLEAN
  BY DEF PlaneType
<1>c. /\ Reload \in Nat /\ TRUST_RELOAD_FAILURE_BUDGET \in Nat /\ LastSeen \in Nat /\ Present = 0 - 1
      /\ TRUST_RELOAD_FAILURE_BUDGET >= 1
  BY TrustConstants
<1>1. file' \in [Keys -> Outcomes] /\ snapshot' \in [Keys -> Outcomes]
  <2>1. ASSUME NEW k \in Keys, NEW o \in Outcomes, Edit(k, o) PROVE file' \in [Keys -> Outcomes] /\ snapshot' \in [Keys -> Outcomes]
    BY <1>t, <2>1 DEF Edit
  <2>2. CASE ReloadOk
    BY <1>t, <2>2 DEF ReloadOk, world
  <2>3. CASE UNCHANGED <<file, snapshot>>
    BY <1>t, <2>3
  <2>4. \/ \E k \in Keys, o \in Outcomes : Edit(k, o)
        \/ ReloadOk \/ UNCHANGED <<file, snapshot>>
    BY DEF Next, vars, world, FileBreaks, FileFixed, Advance, Reloader, MarkFresh, ReloadFails,
           ReloadEnds, Drop, PollStarts, GetExecutes, PollRetries, PollOk, PollFails, PollerEnds, PollerWedges, Start, Clear,
           Lookup, Inner, Store, Tick
  <2> QED
    BY <2>1, <2>2, <2>3, <2>4
<1>2. removed' \in [Keys -> Present .. LastSeen]
  <2>1. ASSUME NEW k \in Keys, NEW o \in Outcomes, Edit(k, o) PROVE removed' \in [Keys -> Present .. LastSeen]
    BY <1>t, <1>c, <2>1 DEF Edit
  <2>2. CASE Tick
    <3>1. removed' = [k \in Keys |-> IF removed[k] = Present THEN Present
                                     ELSE Min({removed[k] + 1, LastSeen})]
      BY <2>2 DEF Tick
    <3>2. ASSUME NEW k \in Keys, removed[k] # Present
          PROVE  Min({removed[k] + 1, LastSeen}) \in Present .. LastSeen
      <4>1. removed[k] \in Present .. LastSeen
        BY <1>t
      <4>2. Min({removed[k] + 1, LastSeen}) = IF removed[k] + 1 <= LastSeen THEN removed[k] + 1 ELSE LastSeen
        BY <1>c, <4>1, MinTwo
      <4> QED
        BY <1>c, <4>1, <4>2
    <3> QED
      BY <1>c, <3>1, <3>2
  <2>3. CASE UNCHANGED removed
    BY <1>t, <2>3
  <2>4. \/ \E k \in Keys, o \in Outcomes : Edit(k, o)
        \/ Tick \/ UNCHANGED removed
    BY DEF Next, vars, world, FileBreaks, FileFixed, Advance, Reloader, ReloadOk, MarkFresh, ReloadFails,
           ReloadEnds, Drop, PollStarts, GetExecutes, PollRetries, PollOk, PollFails, PollerEnds, PollerWedges, Start, Clear,
           Lookup, Inner, Store
  <2> QED
    BY <2>1, <2>2, <2>3, <2>4
<1>3. reload' \in [pc : {"sleep", "mark", "gone"}, timer : 0 .. Reload,
                   failures : 0 .. TRUST_RELOAD_FAILURE_BUDGET]
  <2>1. CASE ReloadOk
    BY <1>c, <2>1 DEF ReloadOk, Cycle
  <2>2. CASE ReloadFails
    <3>1. PICK f : /\ f = Min({reload.failures + 1, TRUST_RELOAD_FAILURE_BUDGET})
                   /\ reload' = [pc |-> "sleep", timer |-> Reload, failures |-> f]
      BY <2>2 DEF ReloadFails, Cycle
    <3>2. f \in 0 .. TRUST_RELOAD_FAILURE_BUDGET
      <4>1. reload.failures \in 0 .. TRUST_RELOAD_FAILURE_BUDGET
        BY <1>t
      <4>2. Min({reload.failures + 1, TRUST_RELOAD_FAILURE_BUDGET}) =
              IF reload.failures + 1 <= TRUST_RELOAD_FAILURE_BUDGET THEN reload.failures + 1
              ELSE TRUST_RELOAD_FAILURE_BUDGET
        BY <1>c, <4>1, MinTwo
      <4> QED
        BY <1>c, <3>1, <4>1, <4>2
    <3> QED
      BY <1>c, <3>1, <3>2
  <2>3. CASE MarkFresh \/ ReloadEnds
    BY <1>t, <2>3 DEF MarkFresh, ReloadEnds
  <2>4. CASE Tick
    <3>1. reload' = [reload EXCEPT !.timer = Max({reload.timer - 1, 0})]
      BY <1>t, <2>4 DEF Tick
    <3>2. Max({reload.timer - 1, 0}) \in 0 .. Reload
      <4>1. reload.timer \in 0 .. Reload
        BY <1>t
      <4>2. Max({reload.timer - 1, 0}) = IF reload.timer - 1 >= 0 THEN reload.timer - 1 ELSE 0
        BY <1>c, <4>1, MaxTwo
      <4> QED
        BY <1>c, <4>1, <4>2
    <3> QED
      BY <1>t, <3>1, <3>2
  <2>5. CASE UNCHANGED reload
    BY <1>t, <2>5
  <2>6. ReloadOk \/ ReloadFails \/ MarkFresh \/ ReloadEnds \/ Tick \/ UNCHANGED reload
    BY DEF Next, vars, Reloader, Edit, FileBreaks, FileFixed, Advance, Drop, PollStarts, GetExecutes, PollRetries, PollOk,
           PollFails, PollerEnds, PollerWedges, Start, Clear, Lookup, Inner, Store
  <2> QED
    BY <2>1, <2>2, <2>3, <2>4, <2>5, <2>6
<1>4. fileBad' \in BOOLEAN /\ unread' \in BOOLEAN
  <2>1. \/ fileBad' = TRUE /\ unread' = TRUE
        \/ fileBad' = FALSE /\ unread' = unread
        \/ fileBad' = fileBad /\ unread' = unread
    BY DEF Next, vars, world, Edit, FileBreaks, FileFixed, Advance, Reloader, ReloadOk, MarkFresh, ReloadFails,
           ReloadEnds, Drop, PollStarts, GetExecutes, PollRetries, PollOk, PollFails, PollerEnds, PollerWedges, Start, Clear,
           Lookup, Inner, Store, Tick
  <2> QED
    BY <1>b, <2>1, Zenon
<1>5. stale' \in BOOLEAN /\ terminal' \in BOOLEAN /\ gone' \in BOOLEAN
  <2>1. /\ stale' \in BOOLEAN \/ stale' = stale
        /\ terminal' = TRUE \/ terminal' = terminal
        /\ gone' = TRUE \/ gone' = gone
    BY DEF Next, vars, fresh, mark_stale_permanently, Edit, FileBreaks, FileFixed, Advance, Reloader,
           ReloadOk, MarkFresh, ReloadFails, ReloadEnds, Drop, PollStarts, GetExecutes, PollRetries, PollOk, PollFails,
           PollerEnds, PollerWedges, Start, Clear, Lookup, Inner, Store, Tick
  <2> QED
    BY <1>b, <2>1, Zenon
<1> QED
  BY <1>1, <1>2, <1>3, <1>4, <1>5 DEF PlaneType

(* Nothing resolves once the plane is dropped. *)
LEMMA ClosedStep ==
  ASSUME PlaneType, CacheType, ThreadType, ClosedInv, [Next]_vars
  PROVE  ClosedInv'
<1>1. (gone => terminal)' /\ (reload.pc = "gone" => terminal)'
  <2>t. reload \in [pc : {"sleep", "mark", "gone"}, timer : 0 .. Reload,
                    failures : 0 .. TRUST_RELOAD_FAILURE_BUDGET]
    BY DEF PlaneType
  <2>1. CASE ReloadEnds \/ Drop
    BY <2>1 DEF ReloadEnds, Drop, mark_stale_permanently
  <2>2. CASE ReloadOk \/ ReloadFails \/ MarkFresh \/ Tick
    <3>a. CASE ReloadOk
      BY <3>a DEF ReloadOk, Cycle, fresh, ClosedInv
    <3>b. CASE ReloadFails
      <4>1. terminal' = terminal /\ gone' = gone /\ reload'.pc = "sleep"
        BY <3>b DEF ReloadFails, Cycle
      <4> QED
        BY <4>1 DEF ClosedInv
    <3>c. CASE MarkFresh
      BY <2>t, <3>c DEF MarkFresh, ClosedInv
    <3>d. CASE Tick
      <4>1. terminal' = terminal /\ gone' = gone /\ reload'.pc = reload.pc
        BY <2>t, <3>d DEF Tick, fresh
      <4> QED
        BY <4>1 DEF ClosedInv
    <3> QED
      BY <2>2, <3>a, <3>b, <3>c, <3>d
  <2>3. CASE UNCHANGED <<reload, terminal, gone>>
    BY <2>3 DEF ClosedInv
  <2>4. ReloadEnds \/ Drop \/ ReloadOk \/ ReloadFails \/ MarkFresh \/ Tick \/ UNCHANGED <<reload, terminal, gone>>
    BY DEF Next, vars, fresh, Reloader, Edit, FileBreaks, FileFixed, Advance, PollStarts, GetExecutes, PollRetries, PollOk,
           PollFails, PollerEnds, PollerWedges, Start, Clear, Lookup, Inner, Store
  <2> QED
    BY <2>1, <2>2, <2>3, <2>4
<1>i. /\ gone => terminal
      /\ \A t \in Threads : th[t].late => th[t].pc = "done" /\ th[t].answer = "Unavailable"
  BY DEF ClosedInv
<1> DEFINE Closed == \A t \in Threads : th'[t].late => th'[t].pc = "done" /\ th'[t].answer = "Unavailable"
<1>2. ASSUME NEW t \in Threads, NEW k \in Keys, Start(t, k) PROVE Closed
  <2>1. \A s \in Threads \ {t} : th'[s] = th[s]
    BY <1>2, StartEffect DEF Alone
  <2>2. th'[t].late => th'[t].pc = "done" /\ th'[t].answer = "Unavailable"
    <3>1. /\ th'[t].late = gone
          /\ \/ th'[t].pc = "done" /\ th'[t].answer = "Unavailable"
             \/ ~ terminal
      BY <1>2, StartEffect
    <3> QED
      BY <1>i, <3>1
  <2> QED
    BY <1>i, <2>1, <2>2
<1>3. ASSUME NEW t \in Threads, Clear(t) \/ Lookup(t) \/ Inner(t) \/ Store(t) PROVE Closed
  <2>1. /\ \A s \in Threads \ {t} : th'[s] = th[s]
        /\ th[t].pc # "done" /\ th'[t].late = th[t].late
    BY <1>3, ClearEffect, LookupEffect, InnerEffect, StoreEffect DEF Alone
  <2> QED
    BY <1>i, <2>1
<1>4. ASSUME NEW k \in Keys, NEW o \in Outcomes, Edit(k, o) PROVE Closed
  <2>1. \A t \in Threads : /\ th'[t].pc = th[t].pc /\ th'[t].late = th[t].late
                            /\ th'[t].answer = th[t].answer
    BY <1>4, EditEffect
  <2> QED
    BY <1>i, <2>1
<1>5. ASSUME Tick PROVE Closed
  <2>1. \A t \in Threads : /\ th'[t].pc = th[t].pc /\ th'[t].late = th[t].late
                            /\ th'[t].answer = th[t].answer
    BY <1>5, TickEffect
  <2> QED
    BY <1>i, <2>1
<1>6. ASSUME UNCHANGED th PROVE Closed
  BY <1>i, <1>6
<1>7. \/ \E t \in Threads, k \in Keys : Start(t, k)
      \/ \E t \in Threads : Clear(t) \/ Lookup(t) \/ Inner(t) \/ Store(t)
      \/ \E k \in Keys, o \in Outcomes : Edit(k, o)
      \/ Tick \/ UNCHANGED th
  BY DEF Next, vars, FileBreaks, FileFixed, Advance, Reloader, ReloadOk, MarkFresh, ReloadFails,
         ReloadEnds, Drop, PollStarts, GetExecutes, PollRetries, PollOk, PollFails, PollerEnds, PollerWedges
<1> HIDE DEF Closed
<1>8. Closed
  BY <1>2, <1>3, <1>4, <1>5, <1>6, <1>7
<1> QED
  BY <1>1, <1>8 DEF ClosedInv, Closed

----------------------------------------------------------------------------
(* The exposure window and the bound of the cache *)

(* Which steps touch the cache or the threads, and which do not. *)
LEMMA StepShape ==
  ASSUME [Next]_vars
  PROVE  \/ \E t \in Threads, k \in Keys : Start(t, k)
         \/ \E t \in Threads : Clear(t)
         \/ \E t \in Threads : Lookup(t)
         \/ \E t \in Threads : Inner(t)
         \/ \E t \in Threads : Store(t)
         \/ \E k \in Keys, o \in Outcomes : Edit(k, o)
         \/ Tick
         \/ UNCHANGED <<cache, writes, th>>
BY DEF Next, vars, caching, FileBreaks, FileFixed, Advance, Reloader, ReloadOk, MarkFresh,
       ReloadFails, ReloadEnds, Drop, PollStarts, GetExecutes, PollRetries, PollOk, PollFails, PollerEnds, PollerWedges

(* Fewer entries are never too many. *)
LEMMA FewerEntries ==
  ASSUME CapacityInv, \A k \in Keys : cache'[k] = None \/ cache[k] # None
  PROVE  CapacityInv'
<1> DEFINE K == {k \in Keys : cache[k] # None}
           N == {k \in Keys : cache'[k] # None}
<1>1. IsFiniteSet(K) /\ N \in SUBSET K
  BY TrustAssumption, FS_Subset
<1>2. IsFiniteSet(N) /\ Cardinality(N) <= Cardinality(K) /\ Cardinality(N) \in Nat /\ Cardinality(K) \in Nat
  BY <1>1, FS_Subset, FS_CardinalityType
<1>3. Cardinality(K) <= max_entries /\ max_entries \in Nat
  BY TrustConstants DEF CapacityInv
<1> HIDE DEF K, N
<1>4. Cardinality(N) <= max_entries
  BY <1>2, <1>3
<1> QED
  BY <1>4 DEF N, CapacityInv

LEMMA CacheStep ==
  ASSUME CacheType, ThreadType, CapacityInv, WindowInv, [Next]_vars
  PROVE  CacheType' /\ CapacityInv'
<1>1. ASSUME NEW t \in Threads, Clear(t) PROVE CacheType' /\ CapacityInv'
  BY <1>1, ClearCache, FewerEntries DEF CacheType
<1>2. ASSUME NEW t \in Threads, Store(t) PROVE CacheType' /\ CapacityInv'
  <2>1. th[t].pc = "store" => th[t].read \in Outcomes
    BY DEF WindowInv
  <2> QED
    BY <1>2, <2>1, StoreCache DEF CacheType
<1>3. CASE Tick
  BY <1>3, TickCache, FewerEntries DEF CacheType
<1>4. CASE UNCHANGED <<cache, writes>>
  BY <1>4 DEF CacheType, CapacityInv
<1>5. (\E t \in Threads : Clear(t) \/ Store(t)) \/ Tick \/ UNCHANGED <<cache, writes>>
  BY StepShape DEF Start, Lookup, Inner, Edit, caching
<1> QED
  BY <1>1, <1>2, <1>3, <1>4, <1>5

(* What an entry may still serve, and what it was read for, make up T at most. *)
EntryWithin(e) == Lasting(e) => e.left + e.age <= t_secs

ThreadWithin(q) ==
  /\ q.pc \in {"inner", "store"} => q.behind = 0
  /\ q.pc = "store" => q.read \in Outcomes
  /\ q.pc = "done" /\ q.answer = "Active" => q.behind < t_secs

LEMMA WindowParts ==
  WindowInv <=> (\A k \in Keys : EntryWithin(cache[k])) /\ (\A t \in Threads : ThreadWithin(th[t]))
BY DEF WindowInv, EntryWithin, ThreadWithin

LEMMA CacheWindowStep ==
  ASSUME CacheType, ThreadType, WindowInv, [Next]_vars
  PROVE  \A k \in Keys : EntryWithin(cache'[k])
<1>c. t_secs \in Nat /\ MaxStall \in Nat
  BY TrustConstants
<1>i. /\ cache \in [Keys -> Entry]
      /\ \A k \in Keys : Lasting(cache[k]) => cache[k].left + cache[k].age <= t_secs
  BY DEF WindowInv, CacheType
<1>0. ~ Lasting(None)
  BY NoneFacts DEF Lasting
<1>1. ASSUME NEW t \in Threads, Clear(t), NEW k \in Keys PROVE EntryWithin(cache'[k])
  <2>1. \/ cache'[k] = None
        \/ /\ cache'[k].outcome = cache[k].outcome
           /\ cache'[k].left = cache[k].left /\ cache'[k].age = cache[k].age
    BY <1>1, ClearCache
  <2> QED
    BY <1>0, <1>i, <2>1 DEF EntryWithin, Lasting
<1>2. ASSUME NEW t \in Threads, Store(t), NEW k \in Keys PROVE EntryWithin(cache'[k])
  <2>1. th[t].pc = "store" => th[t].read \in Outcomes
    BY DEF WindowInv
  <2>2. \/ cache'[k] = None \/ cache'[k] = cache[k]
        \/ /\ cache'[k].outcome = th[t].read
           /\ cache'[k].left > 0 => cache'[k].left + cache'[k].age <= ttl_of(th[t].read)
    BY <1>2, <2>1, StoreCache
  <2>3. ttl_of("Active") = t_secs
    BY DEF ttl_of
  <2> QED
    BY <1>0, <1>i, <2>2, <2>3 DEF EntryWithin, Lasting
<1>3. ASSUME Tick, NEW k \in Keys PROVE EntryWithin(cache'[k])
  <2>1. \/ cache'[k] = None
        \/ /\ cache'[k].outcome = cache[k].outcome
           /\ cache'[k].left > 0 => cache[k].left = cache'[k].left + 1
           /\ cache'[k].age = IF cache[k].age <= t_secs + MaxStall
                              THEN cache[k].age + 1 ELSE t_secs + MaxStall + 1
    BY <1>3, TickCache
  <2>2. CASE cache'[k] = None
    BY <1>0, <2>2 DEF EntryWithin
  <2>3. CASE cache'[k] # None /\ Lasting(cache'[k])
    <3>1. cache'[k] \in Entry /\ cache[k] \in Entry
      BY <1>3, <1>i, TickCache
    <3>2. Lasting(cache[k]) /\ cache[k].left = cache'[k].left + 1
      BY <2>1, <2>3, <3>1 DEF Lasting, Entry
    <3> QED
      BY <1>c, <1>i, <2>1, <2>3, <3>1, <3>2 DEF EntryWithin, Entry
  <2> QED
    BY <2>2, <2>3 DEF EntryWithin
<1>4. ASSUME UNCHANGED cache, NEW k \in Keys PROVE EntryWithin(cache'[k])
  BY <1>i, <1>4 DEF EntryWithin
<1>5. (\E t \in Threads : Clear(t) \/ Store(t)) \/ Tick \/ UNCHANGED cache
  BY StepShape DEF Start, Lookup, Inner, Edit, caching
<1> QED
  BY <1>1, <1>2, <1>3, <1>4, <1>5

LEMMA ThreadWindowStep ==
  ASSUME PlaneType, CacheType, ThreadType, WindowInv, [Next]_vars
  PROVE  \A t \in Threads : ThreadWithin(th'[t])
<1>c. t_secs \in Nat /\ t_secs >= 1
  BY TrustConstants
<1>i. \A t \in Threads : ThreadWithin(th[t])
  BY WindowParts
<1>1. ASSUME NEW t \in Threads, NEW k \in Keys, Start(t, k), NEW s \in Threads
      PROVE  ThreadWithin(th'[s])
  <2>1. /\ \A u \in Threads \ {t} : th'[u] = th[u]
        /\ \/ th'[t].pc = "done" /\ th'[t].answer = "Unavailable"
           \/ th'[t].pc \in {"clear", "lookup"}
    BY <1>1, StartEffect DEF Alone
  <2> QED
    BY <1>i, <2>1 DEF ThreadWithin
<1>2. ASSUME NEW t \in Threads, Clear(t), NEW s \in Threads PROVE ThreadWithin(th'[s])
  <2>1. (\A u \in Threads \ {t} : th'[u] = th[u]) /\ th'[t].pc = "lookup"
    BY <1>2, ClearEffect DEF Alone
  <2> QED
    BY <1>i, <2>1 DEF ThreadWithin
<1>3. ASSUME NEW t \in Threads, Lookup(t), NEW s \in Threads PROVE ThreadWithin(th'[s])
  <2> DEFINE k == th[t].key
  <2>1. /\ \A u \in Threads \ {t} : th'[u] = th[u]
        /\ \/ /\ th'[t].pc = "done" /\ cache[k].left > 0
              /\ th'[t].answer = cache[k].outcome /\ th'[t].behind = cache[k].age
           \/ th'[t].pc = "inner" /\ th'[t].behind = 0
    BY <1>3, LookupEffect DEF Alone
  <2>2. k \in Keys /\ cache[k] \in Entry
    BY DEF ThreadType, Resolution, CacheType
  <2>3. EntryWithin(cache[k]) /\ cache[k].left \in Int /\ cache[k].age \in Nat
    BY <2>2, WindowParts DEF Entry
  <2> HIDE DEF k
  <2>4. ThreadWithin(th'[t])
    BY <1>c, <2>1, <2>3 DEF ThreadWithin, EntryWithin, Lasting
  <2> QED
    BY <1>i, <2>1, <2>4
<1>4. ASSUME NEW t \in Threads, Inner(t), NEW s \in Threads PROVE ThreadWithin(th'[s])
  <2>1. /\ \A u \in Threads \ {t} : th'[u] = th[u]
        /\ th[t].pc = "inner" /\ th'[t].pc = "store" /\ th'[t].behind = th[t].behind
        /\ th'[t].read = snapshot[th[t].key]
    BY <1>4, InnerEffect DEF Alone
  <2>2. snapshot[th[t].key] \in Outcomes
    BY DEF ThreadType, Resolution, PlaneType
  <2> QED
    BY <1>i, <2>1, <2>2 DEF ThreadWithin
<1>5. ASSUME NEW t \in Threads, Store(t), NEW s \in Threads PROVE ThreadWithin(th'[s])
  <2>1. /\ \A u \in Threads \ {t} : th'[u] = th[u]
        /\ th[t].pc = "store" /\ th'[t].pc = "done" /\ th'[t].behind = th[t].behind
    BY <1>5, StoreEffect DEF Alone
  <2> QED
    BY <1>c, <1>i, <2>1 DEF ThreadWithin
<1>6. ASSUME (\E k \in Keys, o \in Outcomes : Edit(k, o)) \/ Tick, NEW s \in Threads
      PROVE  ThreadWithin(th'[s])
  <2>1. /\ th'[s].pc = th[s].pc /\ th'[s].behind = th[s].behind /\ th'[s].answer = th[s].answer
        /\ th'[s].read = th[s].read
    BY <1>6, EditEffect, TickEffect
  <2> QED
    BY <1>i, <2>1 DEF ThreadWithin
<1>7. ASSUME UNCHANGED th, NEW s \in Threads PROVE ThreadWithin(th'[s])
  BY <1>i, <1>7
<1> QED
  BY <1>1, <1>2, <1>3, <1>4, <1>5, <1>6, <1>7, StepShape

(* Every step keeps the first half of the invariant. *)
LEMMA TrustInvStep ==
  ASSUME TrustInv, [Next]_vars
  PROVE  TrustInv'
<1>1. PlaneType' /\ EpochType' /\ HealthInv' /\ ThreadType' /\ ClosedInv' /\ CacheType' /\ CapacityInv'
  BY PlaneTypeStep, EpochStep, ThreadStep, ClosedStep, CacheStep DEF TrustInv
<1>2. (\A k \in Keys : EntryWithin(cache'[k])) /\ (\A t \in Threads : ThreadWithin(th'[t]))
  BY CacheWindowStep, ThreadWindowStep DEF TrustInv
<1>3. WindowInv'
  BY <1>2 DEF WindowInv, EntryWithin, ThreadWithin
<1> QED
  BY <1>1, <1>3 DEF TrustInv

----------------------------------------------------------------------------
(* The delivered window: how long a removed key may still be answered *)

(* How long ago a key still in the snapshot was taken out of the file, at  *)
(* most, and how much older an answer read from it may be when it is used. *)
Overdue == IF unread THEN Cadences(TRUST_RELOAD_FAILURE_BUDGET) ELSE Reload

Reach == Overdue + (IF unread THEN MaxStall ELSE 0)

FileInv ==
  /\ \A k \in Keys : file[k] = "Active" <=> removed[k] = Present
  /\ fileBad => unread

(* A snapshot that still holds a removed key is a cadence old for every    *)
(* reload that failed, and for the one under way.                          *)
ReloadInv ==
  ~ terminal =>
    /\ ~ stale => reload.failures < TRUST_RELOAD_FAILURE_BUDGET
    /\ reload.pc = "mark" => reload.failures = 0 /\ reload.timer = Reload
    /\ ~ unread => reload.failures = 0
    /\ \A k \in Keys :
         snapshot[k] = "Active" /\ removed[k] # Present
         /\ reload.failures < TRUST_RELOAD_FAILURE_BUDGET =>
           removed[k] <= Cadences(reload.failures + 1) - reload.timer

(* What a thread will read, or has read, was removed that long before and  *)
(* as much longer as the thread was held up: `ago` since the removal, with *)
(* `held` in the snapshot.                                                 *)
Reading(q) == q.pc = "store" /\ q.read = "Active"

ReadBound(q, ago, held, reach) ==
  /\ q.pc \in {"clear", "lookup"} /\ held = "Active" =>
       ago <= Cadences(TRUST_RELOAD_FAILURE_BUDGET) + q.age
  /\ q.pc = "inner" /\ held = "Active" =>
       ago <= Cadences(TRUST_RELOAD_FAILURE_BUDGET) + MaxStall + q.age
  /\ Reading(q) => ago <= reach + q.age

ReadInv ==
  ~ terminal =>
    \A t \in Threads : removed[th[t].key] # Present =>
      ReadBound(th[t], removed[th[t].key], snapshot[th[t].key], Reach)

EntryInv ==
  ~ terminal =>
    \A k \in Keys : Lasting(cache[k]) /\ removed[k] # Present => removed[k] <= Reach + cache[k].age

(* The same for a resolution begun after the removal, which keeps the time *)
(* that had passed then: `says` in the file, `held` in the snapshot, `e`   *)
(* in the cache.                                                           *)
SinceBound(q, says, held, e, overdue, reach) ==
  q.since # Present =>
    /\ says # "Active"
    /\ held = "Active" => q.since <= overdue
    /\ Reading(q) => q.since <= overdue
    /\ Lasting(e) => q.since <= reach + e.age
    /\ q.pc = "done" /\ q.answer = "Active" => q.since < t_secs + reach

SinceBeside(q, p, reach) ==
  q.since # Present /\ p.key = q.key /\ Reading(p) => q.since <= reach + p.age

SinceInv ==
  /\ \A t \in Threads :
       SinceBound(th[t], file[th[t].key], snapshot[th[t].key], cache[th[t].key], Overdue, Reach)
  /\ \A t, p \in Threads : SinceBeside(th[t], th[p], Reach)

LEMMA ReachFacts ==
  ASSUME unread \in BOOLEAN
  PROVE  /\ Cadences(TRUST_RELOAD_FAILURE_BUDGET) \in Nat /\ Reload <= Cadences(TRUST_RELOAD_FAILURE_BUDGET)
         /\ Overdue \in Nat /\ Reach \in Nat /\ Reload <= Overdue /\ Overdue <= Reach
         /\ ~ unread => Overdue = Reload /\ Reach = Reload
         /\ unread => /\ Overdue = Cadences(TRUST_RELOAD_FAILURE_BUDGET)
                      /\ Reach = Cadences(TRUST_RELOAD_FAILURE_BUDGET) + MaxStall
<1>1. Cadences(TRUST_RELOAD_FAILURE_BUDGET) \in Nat /\ Reload <= Cadences(TRUST_RELOAD_FAILURE_BUDGET)
  BY CadenceFacts, TrustConstants
<1>2. Reload \in Nat /\ MaxStall \in Nat
  BY TrustConstants
<1> QED
  BY <1>1, <1>2 DEF Overdue, Reach

(* Once the file could not be read the bounds are the larger ones for good. *)
LEMMA ReachGrows ==
  ASSUME unread \in BOOLEAN, unread' \in BOOLEAN, unread => unread'
  PROVE  Overdue' \in Nat /\ Reach' \in Nat /\ Overdue <= Overdue' /\ Reach <= Reach'
<1>1. Cadences(TRUST_RELOAD_FAILURE_BUDGET) \in Nat /\ Reload <= Cadences(TRUST_RELOAD_FAILURE_BUDGET)
  BY CadenceFacts, TrustConstants
<1>2. Reload \in Nat /\ MaxStall \in Nat
  BY TrustConstants
<1>3. CASE unread'
  BY <1>1, <1>2, <1>3 DEF Overdue, Reach, Cadences
<1>4. CASE ~ unread'
  BY <1>1, <1>2, <1>4 DEF Overdue, Reach, Cadences
<1> QED
  BY <1>3, <1>4

(* Time makes a removal older; any other step leaves it or starts it. *)
LEMMA RemovedStep ==
  ASSUME PlaneType, [Next]_vars
  PROVE  /\ ~ Tick => \A k \in Keys : removed'[k] \in {Present, 0, removed[k]}
         /\ Tick => \A k \in Keys : removed'[k] # Present =>
                      removed[k] # Present /\ removed'[k] \in Nat /\ removed'[k] <= removed[k] + 1
<1>c. LastSeen \in Nat /\ Present = 0 - 1
  BY TrustConstants
<1>t. removed \in [Keys -> Present .. LastSeen]
  BY DEF PlaneType
<1>1. ASSUME Tick, NEW k \in Keys, removed'[k] # Present
      PROVE  removed[k] # Present /\ removed'[k] \in Nat /\ removed'[k] <= removed[k] + 1
  <2>1. removed'[k] = IF removed[k] = Present THEN Present ELSE Min({removed[k] + 1, LastSeen})
    BY <1>1 DEF Tick
  <2>2. removed[k] \in Present .. LastSeen
    BY <1>t
  <2>3. Min({removed[k] + 1, LastSeen}) = IF removed[k] + 1 <= LastSeen THEN removed[k] + 1 ELSE LastSeen
    BY <1>c, <2>2, MinTwo
  <2> QED
    BY <1>1, <1>c, <2>1, <2>2, <2>3
<1>2. ASSUME NEW j \in Keys, NEW o \in Outcomes, Edit(j, o), NEW k \in Keys
      PROVE  removed'[k] \in {Present, 0, removed[k]}
  BY <1>t, <1>2 DEF Edit
<1>3. (\E k \in Keys, o \in Outcomes : Edit(k, o)) \/ Tick \/ UNCHANGED removed
  BY DEF Next, vars, world, FileBreaks, FileFixed, Advance, Reloader, ReloadOk, MarkFresh, ReloadFails,
         ReloadEnds, Drop, PollStarts, GetExecutes, PollRetries, PollOk, PollFails, PollerEnds, PollerWedges, Start, Clear,
         Lookup, Inner, Store
<1> QED
  BY <1>1, <1>2, <1>3

LEMMA FileStep ==
  ASSUME PlaneType, FileInv, [Next]_vars
  PROVE  FileInv' /\ (unread => unread')
<1>c. LastSeen \in Nat /\ Present = 0 - 1
  BY TrustConstants
<1>t. removed \in [Keys -> Present .. LastSeen] /\ file \in [Keys -> Outcomes]
  BY DEF PlaneType
<1>i. \A k \in Keys : file[k] = "Active" <=> removed[k] = Present
  BY DEF FileInv
<1>1. \A k \in Keys : file'[k] = "Active" <=> removed'[k] = Present
  <2>1. ASSUME NEW j \in Keys, NEW o \in Outcomes, Edit(j, o), NEW k \in Keys
        PROVE  file'[k] = "Active" <=> removed'[k] = Present
    BY <1>c, <1>t, <1>i, <2>1 DEF Edit
  <2>2. ASSUME Tick, NEW k \in Keys PROVE file'[k] = "Active" <=> removed'[k] = Present
    <3>1. file' = file /\ removed'[k] = IF removed[k] = Present THEN Present ELSE Min({removed[k] + 1, LastSeen})
      BY <2>2 DEF Tick
    <3>2. removed[k] \in Present .. LastSeen
      BY <1>t
    <3>3. Min({removed[k] + 1, LastSeen}) = IF removed[k] + 1 <= LastSeen THEN removed[k] + 1 ELSE LastSeen
      BY <1>c, <3>2, MinTwo
    <3> QED
      BY <1>c, <1>i, <3>1, <3>2, <3>3
  <2>3. ASSUME UNCHANGED <<file, removed>>, NEW k \in Keys PROVE file'[k] = "Active" <=> removed'[k] = Present
    BY <1>i, <2>3
  <2>4. (\E k \in Keys, o \in Outcomes : Edit(k, o)) \/ Tick \/ UNCHANGED <<file, removed>>
    BY DEF Next, vars, world, FileBreaks, FileFixed, Advance, Reloader, ReloadOk, MarkFresh, ReloadFails,
           ReloadEnds, Drop, PollStarts, GetExecutes, PollRetries, PollOk, PollFails, PollerEnds, PollerWedges, Start, Clear,
           Lookup, Inner, Store
  <2> QED
    BY <2>1, <2>2, <2>3, <2>4
<1>2. (fileBad' => unread') /\ (unread => unread')
  <2>1. \/ fileBad' = TRUE /\ unread' = TRUE
        \/ fileBad' = FALSE /\ unread' = unread
        \/ fileBad' = fileBad /\ unread' = unread
    BY DEF Next, vars, world, Edit, FileBreaks, FileFixed, Advance, Reloader, ReloadOk, MarkFresh, ReloadFails,
           ReloadEnds, Drop, PollStarts, GetExecutes, PollRetries, PollOk, PollFails, PollerEnds, PollerWedges, Start, Clear,
           Lookup, Inner, Store, Tick
  <2>2. (fileBad => unread) /\ fileBad \in BOOLEAN /\ unread \in BOOLEAN
    BY DEF FileInv, PlaneType
  <2> QED
    BY <2>1, <2>2
<1> QED
  BY <1>1, <1>2 DEF FileInv

(* Every step keeps the snapshot as fresh as the failures allow. *)
LEMMA ReloadStep ==
  ASSUME PlaneType, ClosedInv, FileInv, ReloadInv, [Next]_vars
  PROVE  ReloadInv'
<1> DEFINE B == TRUST_RELOAD_FAILURE_BUDGET
           f == reload.failures
<1>c. B \in Nat /\ B >= 1 /\ Reload \in Nat /\ Reload >= 1 /\ Present = 0 - 1 /\ LastSeen \in Nat
  BY TrustConstants
<1>d. \A n \in Nat : Cadences(n) \in Nat /\ Cadences(n + 1) = Cadences(n) + Reload
  BY CadenceFacts
<1>t. /\ removed \in [Keys -> Present .. LastSeen]
      /\ reload \in [pc : {"sleep", "mark", "gone"}, timer : 0 .. Reload, failures : 0 .. B]
      /\ f \in Nat /\ f <= B /\ reload.timer \in 0 .. Reload
  BY <1>c DEF PlaneType
<1>b. terminal \in BOOLEAN /\ stale \in BOOLEAN /\ unread \in BOOLEAN
  BY DEF PlaneType
<1>s. SUFFICES ASSUME ~ terminal'
               PROVE  /\ ~ stale' => reload'.failures < B
                      /\ reload'.pc = "mark" => reload'.failures = 0 /\ reload'.timer = Reload
                      /\ ~ unread' => reload'.failures = 0
                      /\ \A k \in Keys :
                           snapshot'[k] = "Active" /\ removed'[k] # Present
                           /\ reload'.failures < B =>
                             removed'[k] <= Cadences(reload'.failures + 1) - reload'.timer
  BY DEF ReloadInv, Cadences
<1>g. ~ terminal
  <2>1. terminal' = TRUE \/ terminal' = terminal
    BY DEF Next, vars, fresh, mark_stale_permanently, Edit, FileBreaks, FileFixed, Advance, Reloader,
           ReloadOk, MarkFresh, ReloadFails, ReloadEnds, Drop, PollStarts, GetExecutes, PollRetries, PollOk, PollFails,
           PollerEnds, PollerWedges, Start, Clear, Lookup, Inner, Store, Tick
  <2> QED
    BY <1>s, <2>1
<1>i. /\ ~ stale => f < B
      /\ reload.pc = "mark" => f = 0 /\ reload.timer = Reload
      /\ ~ unread => f = 0
      /\ \A k \in Keys : snapshot[k] = "Active" /\ removed[k] # Present /\ f < B =>
           removed[k] <= Cadences(f + 1) - reload.timer
  BY <1>g DEF ReloadInv
<1>u. unread => unread'
  BY FileStep
<1>n. Cadences(f) \in Nat /\ Cadences(f + 1) = Cadences(f) + Reload
  BY <1>d, <1>t
<1>1. CASE UNCHANGED <<reload, stale, snapshot>> /\ ~ Tick
  <2>1. \A k \in Keys : removed'[k] \in {Present, 0, removed[k]}
    BY <1>1, RemovedStep
  <2>2. ASSUME NEW k \in Keys, snapshot'[k] = "Active", removed'[k] # Present, reload'.failures < B
        PROVE  removed'[k] <= Cadences(reload'.failures + 1) - reload'.timer
    <3>0. removed'[k] \in {Present, 0, removed[k]} /\ removed'[k] # Present
      BY <2>1, <2>2
    <3>1. removed'[k] = 0 \/ (removed'[k] = removed[k] /\ removed[k] # Present)
      BY <3>0
    <3> QED
      BY <1>1, <1>c, <1>i, <1>n, <1>t, <2>2, <3>1
  <2> QED
    BY <1>1, <1>i, <1>u, <2>2
<1>2. CASE Tick
  <2>1. /\ reload.pc # "gone" => reload.timer > 0 \/ gone
        /\ reload.pc # "mark"
        /\ reload' = [reload EXCEPT !.timer = Max({reload.timer - 1, 0})]
        /\ snapshot' = snapshot /\ stale' = stale /\ unread' = unread
    BY <1>2, <1>t DEF Tick, fresh
  <2>2. reload.timer > 0
    <3>1. ~ gone /\ reload.pc # "gone"
      BY <1>g DEF ClosedInv
    <3> QED
      BY <2>1, <3>1
  <2>3. Max({reload.timer - 1, 0}) = reload.timer - 1
    BY <1>c, <1>t, <2>2, MaxTwo
  <2>4. reload'.timer = reload.timer - 1 /\ reload'.pc = reload.pc /\ reload'.failures = f
    BY <1>t, <2>1, <2>3
  <2>5. ASSUME NEW k \in Keys, snapshot'[k] = "Active", removed'[k] # Present, reload'.failures < B
        PROVE  removed'[k] <= Cadences(reload'.failures + 1) - reload'.timer
    <3>1. removed[k] # Present /\ removed'[k] \in Nat /\ removed'[k] <= removed[k] + 1
      BY <1>2, <2>5, RemovedStep
    <3>2. removed[k] <= Cadences(f + 1) - reload.timer /\ removed[k] \in Int
      BY <1>c, <1>i, <1>t, <2>1, <2>4, <2>5, <3>1
    <3> QED
      BY <1>c, <1>n, <1>t, <2>4, <3>1, <3>2
  <2> QED
    BY <1>i, <2>1, <2>4, <2>5
<1>3. CASE ReloadOk
  <2>1. /\ snapshot' = file /\ file' = file /\ removed' = removed /\ stale' = stale
        /\ reload'.timer = Reload /\ reload'.failures = 0
    BY <1>3 DEF ReloadOk, Cycle, world, fresh
  <2>2. ASSUME NEW k \in Keys, snapshot'[k] = "Active", removed'[k] # Present PROVE FALSE
    BY <2>1, <2>2 DEF FileInv
  <2> QED
    BY <1>c, <2>1, <2>2
<1>4. CASE ReloadFails
  <2>1. PICK g : g = Min({f + 1, B}) /\ reload' = [pc |-> "sleep", timer |-> Reload, failures |-> g]
                 /\ stale' = (stale \/ g = B)
    BY <1>4 DEF ReloadFails, Cycle
  <2>2. reload.timer = 0 /\ fileBad /\ snapshot' = snapshot /\ removed' = removed /\ unread' = unread
    BY <1>4 DEF ReloadFails, world
  <2>3. g = IF f + 1 <= B THEN f + 1 ELSE B
    BY <1>c, <1>t, <2>1, MinTwo
  <2>4. unread
    BY <2>2 DEF FileInv
  <2>5. reload'.failures = g /\ reload'.timer = Reload /\ reload'.pc = "sleep"
    BY <2>1
  <2>6. ~ stale' => g < B
    <3>1. g = B => stale'
      BY <2>1
    <3>2. g \in Nat /\ g <= B
      BY <1>c, <1>t, <2>3
    <3> QED
      BY <1>c, <3>1, <3>2
  <2>7. ASSUME NEW k \in Keys, snapshot'[k] = "Active", removed'[k] # Present, g < B
        PROVE  removed'[k] <= Cadences(g + 1) - Reload
    <3>1. g = f + 1 /\ f < B
      BY <1>c, <1>t, <2>3, <2>7
    <3>2. removed[k] <= Cadences(f + 1) - 0
      BY <1>i, <2>2, <2>7, <3>1
    <3>3. Cadences(g + 1) = Cadences(f + 1) + Reload /\ Cadences(f + 1) \in Nat
      BY <1>d, <1>t, <3>1
    <3> HIDE DEF f
    <3>4. removed[k] \in Int
      BY <1>c, <1>t
    <3> QED
      BY <1>c, <2>2, <3>2, <3>3, <3>4
  <2> QED
    BY <2>2, <2>4, <2>5, <2>6, <2>7
<1>5. CASE MarkFresh
  <2>1. reload.pc = "mark" /\ stale' = FALSE /\ reload' = [reload EXCEPT !.pc = "sleep"]
        /\ removed' = removed /\ snapshot' = snapshot /\ unread' = unread
    BY <1>5 DEF MarkFresh, world
  <2>2. reload'.pc = "sleep" /\ reload'.timer = reload.timer /\ reload'.failures = f
    BY <1>t, <2>1
  <2> QED
    BY <1>c, <1>i, <2>1, <2>2
<1>6. CASE ReloadEnds \/ Drop
  BY <1>6, <1>s DEF ReloadEnds, Drop, mark_stale_permanently
<1>7. \/ Tick \/ ReloadOk \/ ReloadFails \/ MarkFresh \/ ReloadEnds \/ Drop
      \/ UNCHANGED <<reload, stale, snapshot>>
  BY DEF Next, vars, fresh, Reloader, Edit, FileBreaks, FileFixed, Advance, PollStarts, GetExecutes, PollRetries, PollOk,
         PollFails, PollerEnds, PollerWedges, Start, Clear, Lookup, Inner, Store
<1> QED
  BY <1>1, <1>2, <1>3, <1>4, <1>5, <1>6, <1>7

(* So while nothing is stale, a key still in the snapshot was taken out of *)
(* the file a bounded time ago.                                            *)
LEMMA SnapshotFresh ==
  ASSUME PlaneType, ReloadInv, ~ terminal, ~ stale \/ ~ unread,
         NEW k \in Keys, snapshot[k] = "Active", removed[k] # Present
  PROVE  removed[k] <= Overdue
<1> DEFINE B == TRUST_RELOAD_FAILURE_BUDGET
           f == reload.failures
<1>c. B \in Nat /\ B >= 1 /\ Reload \in Nat /\ Present = 0 - 1 /\ LastSeen \in Nat
  BY TrustConstants
<1>t. removed[k] \in Int /\ f \in Nat /\ reload.timer \in Nat
  BY <1>c DEF PlaneType
<1>1. (~ stale => f < B) /\ (~ unread => f = 0)
  BY DEF ReloadInv
<1>2. f < B
  BY <1>c, <1>1
<1>3. removed[k] <= Cadences(f + 1) - reload.timer
  BY <1>2 DEF ReloadInv
<1>4. Cadences(f + 1) \in Nat /\ Cadences(f + 1) <= Cadences(B) /\ Cadences(B) \in Nat
      /\ (f = 0 => Cadences(f + 1) = Reload)
  <2>1. f + 1 \in Nat /\ f + 1 <= B
    BY <1>c, <1>t, <1>2
  <2>2. Cadences(f + 1) \in Nat /\ Cadences(f + 1) <= Cadences(B) /\ Cadences(B) \in Nat
    BY <1>c, <2>1, CadenceFacts
  <2>3. f = 0 => f + 1 = 1
    BY <1>t
  <2> QED
    BY <2>2, <2>3, CadenceFacts
<1>5. unread \in BOOLEAN
  BY DEF PlaneType
<1>6. CASE unread
  BY <1>3, <1>4, <1>5, <1>6, <1>t, ReachFacts
<1>7. CASE ~ unread
  BY <1>1, <1>3, <1>4, <1>5, <1>7, <1>t, ReachFacts
<1> QED
  BY <1>6, <1>7

(* Which steps touch what the delivered window speaks of. *)
LEMMA RemovalShape ==
  ASSUME [Next]_vars
  PROVE  \/ \E t \in Threads, k \in Keys : Start(t, k)
         \/ \E t \in Threads : Clear(t)
         \/ \E t \in Threads : Lookup(t)
         \/ \E t \in Threads : Inner(t)
         \/ \E t \in Threads : Store(t)
         \/ \E k \in Keys, o \in Outcomes : Edit(k, o)
         \/ Tick
         \/ ReloadOk
         \/ UNCHANGED <<file, removed, snapshot, cache, th>>
BY DEF Next, vars, world, caching, FileBreaks, FileFixed, Advance, Reloader, MarkFresh,
       ReloadFails, ReloadEnds, Drop, PollStarts, GetExecutes, PollRetries, PollOk, PollFails, PollerEnds, PollerWedges

(* What a thread reads stays bounded while it and the file are left alone. *)
LEMMA ReadFrame ==
  ASSUME NEW q \in Resolution, NEW p \in Resolution, NEW ago \in Int, NEW later \in Int,
         NEW held, NEW reach \in Nat, NEW further \in Nat,
         reach <= further, p.pc = q.pc, p.age = q.age, p.read = q.read,
         later \in {0, ago}, later = ago => ReadBound(q, ago, held, reach)
  PROVE  ReadBound(p, later, held, further)
<1>1. Cadences(TRUST_RELOAD_FAILURE_BUDGET) \in Nat /\ MaxStall \in Nat
  BY CadenceFacts, TrustConstants
<1>2. q.age \in Nat
  BY <1>1 DEF Resolution
<1> QED
  BY <1>1, <1>2 DEF ReadBound, Reading

LEMMA ReadStep ==
  ASSUME TrustInv, TrustInv', FileInv, ReloadInv, ReadInv, [Next]_vars
  PROVE  ReadInv'
<1> DEFINE W == Cadences(TRUST_RELOAD_FAILURE_BUDGET)
<1>c. W \in Nat /\ MaxStall \in Nat /\ Present = 0 - 1 /\ LastSeen \in Nat
  BY CadenceFacts, TrustConstants
<1>t. PlaneType /\ CacheType /\ ThreadType /\ PlaneType' /\ ThreadType'
  BY DEF TrustInv
<1>r. /\ \A k \in Keys : removed[k] \in Int /\ removed'[k] \in Int
      /\ unread \in BOOLEAN /\ unread' \in BOOLEAN
  BY <1>c, <1>t DEF PlaneType
<1>o. /\ Overdue \in Nat /\ Reach \in Nat /\ Overdue <= Reach /\ Overdue <= W
      /\ ~ unread => Overdue = Reach
      /\ unread => Reach = W + MaxStall
  BY <1>r, <1>c, ReachFacts
<1>u. Reach' \in Nat /\ Reach <= Reach'
  BY <1>t, <1>r, FileStep, ReachGrows
<1>y. ASSUME NEW t \in Threads
      PROVE  /\ th[t] \in Resolution /\ th[t].key \in Keys /\ th[t].age \in 0 .. MaxStall /\ th[t].age \in Nat
             /\ th'[t] \in Resolution /\ th'[t].key \in Keys
  BY <1>t, <1>c DEF ThreadType, Resolution
<1>s. SUFFICES ASSUME ~ terminal', NEW s \in Threads, removed'[th'[s].key] # Present
               PROVE  ReadBound(th'[s], removed'[th'[s].key], snapshot'[th'[s].key], Reach')
  BY DEF ReadInv, ReadBound, Reading, Cadences
<1>g. ~ terminal
  <2>1. terminal' = TRUE \/ terminal' = terminal
    BY DEF Next, vars, fresh, mark_stale_permanently, Edit, FileBreaks, FileFixed, Advance, Reloader,
           ReloadOk, MarkFresh, ReloadFails, ReloadEnds, Drop, PollStarts, GetExecutes, PollRetries, PollOk, PollFails,
           PollerEnds, PollerWedges, Start, Clear, Lookup, Inner, Store, Tick
  <2> QED
    BY <1>s, <2>1
<1>i. \A t \in Threads : removed[th[t].key] # Present =>
        ReadBound(th[t], removed[th[t].key], snapshot[th[t].key], Reach)
  BY <1>g DEF ReadInv
<1>f. ASSUME th'[s] = th[s], UNCHANGED <<removed, snapshot>>
      PROVE  ReadBound(th'[s], removed'[th'[s].key], snapshot'[th'[s].key], Reach')
  <2>1. removed[th[s].key] # Present /\ th[s].key \in Keys
    BY <1>f, <1>s, <1>y
  <2> DEFINE ago == removed[th[s].key]
             held == snapshot[th[s].key]
  <2>2. ReadBound(th[s], ago, held, Reach) /\ ago \in Int /\ th[s] \in Resolution
    BY <1>i, <1>r, <1>y, <2>1
  <2> HIDE DEF ago, held
  <2>3. ReadBound(th[s], ago, held, Reach')
    BY <1>o, <1>u, <2>2, ReadFrame
  <2> QED
    BY <1>f, <2>3 DEF ago, held
<1>1. ASSUME NEW t \in Threads, NEW k \in Keys, Start(t, k)
      PROVE  ReadBound(th'[s], removed'[th'[s].key], snapshot'[th'[s].key], Reach')
  <2>1. UNCHANGED <<removed, snapshot>>
    BY <1>1 DEF Start, world
  <2>2. CASE s # t
    BY <1>1, <1>t, <1>f, <2>1, <2>2, StartEffect DEF Alone
  <2>3. CASE s = t
    <3>1. /\ th'[t].key = k /\ th'[t].age = 0
          /\ \/ th'[t].pc = "done"
             \/ ~ stale /\ th'[t].pc \in {"clear", "lookup"}
      BY <1>1, <1>t, StartEffect
    <3>2. ~ stale /\ snapshot[k] = "Active" => removed[k] <= Overdue
      BY <1>t, <1>g, <1>s, <2>1, <2>3, <3>1, SnapshotFresh
    <3> QED
      BY <1>c, <1>o, <1>r, <2>1, <2>3, <3>1, <3>2 DEF ReadBound, Reading
  <2> QED
    BY <2>2, <2>3
<1>2. ASSUME NEW t \in Threads, Clear(t)
      PROVE  ReadBound(th'[s], removed'[th'[s].key], snapshot'[th'[s].key], Reach')
  <2>1. UNCHANGED <<removed, snapshot>>
    BY <1>2 DEF Clear, world
  <2>2. CASE s # t
    BY <1>2, <1>t, <1>f, <2>1, <2>2, ClearEffect DEF Alone
  <2>3. CASE s = t
    <3>1. th[t].pc = "clear" /\ th'[t].pc = "lookup" /\ th'[t].key = th[t].key /\ th'[t].age = th[t].age
      BY <1>2, <1>t, ClearEffect
    <3>2. ReadBound(th[t], removed[th[t].key], snapshot[th[t].key], Reach)
      BY <1>i, <1>s, <2>1, <2>3, <3>1
    <3> QED
      BY <2>1, <2>3, <3>1, <3>2 DEF ReadBound, Reading
  <2> QED
    BY <2>2, <2>3
<1>3. ASSUME NEW t \in Threads, Lookup(t)
      PROVE  ReadBound(th'[s], removed'[th'[s].key], snapshot'[th'[s].key], Reach')
  <2>1. UNCHANGED <<removed, snapshot>>
    BY <1>3 DEF Lookup, world
  <2>2. CASE s # t
    BY <1>3, <1>t, <1>f, <2>1, <2>2, LookupEffect DEF Alone
  <2>3. CASE s = t
    <3>1. th[t].pc = "lookup" /\ th'[t].pc \in {"done", "inner"} /\ th'[t].key = th[t].key /\ th'[t].age = 0
      BY <1>3, <1>t, LookupEffect
    <3>2. ReadBound(th[t], removed[th[t].key], snapshot[th[t].key], Reach)
      BY <1>i, <1>s, <2>1, <2>3, <3>1
    <3>3. removed[th[t].key] \in Int /\ th[t].age \in 0 .. MaxStall
      BY <1>r, <1>y
    <3>4. snapshot[th[t].key] = "Active" => removed[th[t].key] <= W + MaxStall + 0
      BY <1>c, <3>1, <3>2, <3>3 DEF ReadBound
    <3> QED
      BY <2>1, <2>3, <3>1, <3>4 DEF ReadBound, Reading
  <2> QED
    BY <2>2, <2>3
<1>4. ASSUME NEW t \in Threads, Inner(t)
      PROVE  ReadBound(th'[s], removed'[th'[s].key], snapshot'[th'[s].key], Reach')
  <2>1. UNCHANGED <<removed, snapshot>>
    BY <1>4 DEF Inner, world
  <2>2. CASE s # t
    BY <1>4, <1>t, <1>f, <2>1, <2>2, InnerEffect DEF Alone
  <2>3. CASE s = t
    <3>1. /\ th[t].pc = "inner" /\ th'[t].pc = "store" /\ th'[t].key = th[t].key
          /\ th'[t].age = th[t].age /\ th'[t].read = snapshot[th[t].key]
      BY <1>4, <1>t, InnerEffect
    <3>2. /\ removed[th[t].key] # Present /\ removed[th[t].key] \in Int /\ th[t].key \in Keys
          /\ th[t].age \in Nat
      BY <1>r, <1>s, <1>y, <2>1, <2>3, <3>1
    <3>3. ReadBound(th[t], removed[th[t].key], snapshot[th[t].key], Reach)
      BY <1>i, <3>2
    <3>4. ASSUME snapshot[th[t].key] = "Active" PROVE removed[th[t].key] <= Reach + th[t].age
      <4>1. CASE unread
        BY <1>c, <1>o, <3>1, <3>2, <3>3, <3>4, <4>1 DEF ReadBound
      <4>2. CASE ~ unread
        <5>1. removed[th[t].key] <= Overdue
          BY <1>t, <1>g, <3>2, <3>4, <4>2, SnapshotFresh
        <5> QED
          BY <1>o, <3>2, <4>2, <5>1
      <4> QED
        BY <4>1, <4>2
    <3>5. snapshot[th[t].key] = "Active" => removed[th[t].key] <= Reach' + th[t].age
      BY <1>o, <1>u, <3>2, <3>4
    <3> QED
      BY <2>1, <2>3, <3>1, <3>5 DEF ReadBound, Reading
  <2> QED
    BY <2>2, <2>3
<1>5. ASSUME NEW t \in Threads, Store(t)
      PROVE  ReadBound(th'[s], removed'[th'[s].key], snapshot'[th'[s].key], Reach')
  <2>1. UNCHANGED <<removed, snapshot>>
    BY <1>5 DEF Store, world
  <2>2. CASE s # t
    BY <1>5, <1>t, <1>f, <2>1, <2>2, StoreEffect DEF Alone
  <2>3. CASE s = t
    <3>1. th'[t].pc = "done"
      BY <1>5, <1>t, StoreEffect
    <3> QED
      BY <2>3, <3>1 DEF ReadBound, Reading
  <2> QED
    BY <2>2, <2>3
<1>6. ASSUME NEW k \in Keys, NEW o \in Outcomes, Edit(k, o)
      PROVE  ReadBound(th'[s], removed'[th'[s].key], snapshot'[th'[s].key], Reach')
  <2> DEFINE j == th[s].key
  <2>1. snapshot' = snapshot /\ j \in Keys
    BY <1>6, <1>y DEF Edit
  <2>2. th'[s].pc = th[s].pc /\ th'[s].key = j /\ th'[s].age = th[s].age /\ th'[s].read = th[s].read
    BY <1>6, <1>t, EditEffect
  <2>3. removed'[j] \in {0, removed[j]} /\ removed'[j] # Present
    <3>1. removed'[j] \in {Present, 0, removed[j]}
      BY <1>6, <1>t, <2>1 DEF Edit, PlaneType
    <3> QED
      BY <1>s, <2>2, <3>1
  <2>4. th[s] \in Resolution /\ th'[s] \in Resolution /\ removed[j] \in Int /\ removed'[j] \in Int
    BY <1>r, <1>y, <2>1
  <2>5. removed'[j] = removed[j] => ReadBound(th[s], removed[j], snapshot[j], Reach)
    BY <1>i, <2>3
  <2> HIDE DEF j
  <2>6. ReadBound(th'[s], removed'[j], snapshot[j], Reach')
    BY <1>o, <1>u, <2>2, <2>3, <2>4, <2>5, ReadFrame
  <2> QED
    BY <2>1, <2>2, <2>6
<1>7. ASSUME Tick
      PROVE  ReadBound(th'[s], removed'[th'[s].key], snapshot'[th'[s].key], Reach')
  <2> DEFINE j == th[s].key
  <2>1. snapshot' = snapshot /\ j \in Keys
    BY <1>7, <1>y DEF Tick
  <2>2. /\ th'[s].pc = th[s].pc /\ th'[s].key = j /\ th'[s].read = th[s].read
        /\ th'[s].age = IF th[s].pc \in {"idle", "done"} THEN th[s].age ELSE th[s].age + 1
    BY <1>7, <1>t, TickEffect
  <2>3. removed[j] # Present /\ removed'[j] \in Nat /\ removed'[j] <= removed[j] + 1
    BY <1>7, <1>s, <1>t, <2>1, <2>2, RemovedStep
  <2>4. removed[j] \in Int /\ th[s].age \in Nat
    BY <1>r, <1>y, <2>1
  <2>5. ReadBound(th[s], removed[j], snapshot[j], Reach)
    BY <1>i, <2>3
  <2> HIDE DEF j
  <2>6. ReadBound(th'[s], removed'[j], snapshot[j], Reach')
    BY <1>c, <1>o, <1>u, <2>2, <2>3, <2>4, <2>5 DEF ReadBound, Reading
  <2> QED
    BY <2>1, <2>2, <2>6
<1>8. ASSUME ReloadOk
      PROVE  ReadBound(th'[s], removed'[th'[s].key], snapshot'[th'[s].key], Reach')
  <2>1. th' = th /\ removed' = removed /\ snapshot' = file
    BY <1>8 DEF ReloadOk, world
  <2>2. th[s].key \in Keys /\ removed[th[s].key] # Present /\ removed[th[s].key] \in Int /\ th[s].age \in Nat
    BY <1>r, <1>s, <1>y, <2>1
  <2>3. file[th[s].key] # "Active"
    BY <2>2 DEF FileInv
  <2>4. ReadBound(th[s], removed[th[s].key], snapshot[th[s].key], Reach)
    BY <1>i, <2>2
  <2>5. Reading(th[s]) => removed[th[s].key] <= Reach' + th[s].age
    BY <1>o, <1>u, <2>2, <2>4 DEF ReadBound
  <2> QED
    BY <2>1, <2>3, <2>5 DEF ReadBound
<1>9. ASSUME UNCHANGED <<file, removed, snapshot, cache, th>>
      PROVE  ReadBound(th'[s], removed'[th'[s].key], snapshot'[th'[s].key], Reach')
  BY <1>9, <1>f
<1> QED
  BY <1>1, <1>2, <1>3, <1>4, <1>5, <1>6, <1>7, <1>8, <1>9, RemovalShape

(* An entry that still serves a removed key is as old as it was late. *)
LEMMA EntryStep ==
  ASSUME TrustInv, TrustInv', FileInv, ReloadInv, ReadInv, EntryInv, [Next]_vars
  PROVE  EntryInv'
<1>c. Present = 0 - 1 /\ LastSeen \in Nat /\ t_secs \in Nat /\ MaxStall \in Nat
  BY TrustConstants
<1>t. PlaneType /\ CacheType /\ ThreadType /\ WindowInv /\ PlaneType' /\ CacheType'
  BY DEF TrustInv
<1>r. /\ \A k \in Keys : removed[k] \in Int /\ removed'[k] \in Int
      /\ unread \in BOOLEAN /\ unread' \in BOOLEAN
  BY <1>c, <1>t DEF PlaneType
<1>e. \A k \in Keys : /\ cache[k] \in Entry /\ cache'[k] \in Entry
                      /\ cache[k].age \in Nat /\ cache[k].left \in Int
                      /\ cache'[k].age \in Nat /\ cache'[k].left \in Int
  BY <1>t DEF CacheType, Entry
<1>o. Reach \in Nat /\ Reach' \in Nat /\ Reach <= Reach'
  BY <1>t, <1>r, FileStep, ReachFacts, ReachGrows
<1>0. ~ Lasting(None)
  BY NoneFacts DEF Lasting
<1>s. SUFFICES ASSUME ~ terminal', NEW k \in Keys, Lasting(cache'[k]), removed'[k] # Present
               PROVE  removed'[k] <= Reach' + cache'[k].age
  BY DEF EntryInv, Lasting
<1>g. ~ terminal
  <2>1. terminal' = TRUE \/ terminal' = terminal
    BY DEF Next, vars, fresh, mark_stale_permanently, Edit, FileBreaks, FileFixed, Advance, Reloader,
           ReloadOk, MarkFresh, ReloadFails, ReloadEnds, Drop, PollStarts, GetExecutes, PollRetries, PollOk, PollFails,
           PollerEnds, PollerWedges, Start, Clear, Lookup, Inner, Store, Tick
  <2> QED
    BY <1>s, <2>1
<1>i. Lasting(cache[k]) /\ removed[k] # Present => removed[k] <= Reach + cache[k].age
  BY <1>g DEF EntryInv
<1>k. /\ cache[k].age \in Nat /\ cache[k].left \in Int /\ cache'[k].age \in Nat /\ cache'[k].left \in Int
      /\ removed[k] \in Int /\ removed'[k] \in Int
  BY <1>e, <1>r
<1>1. ASSUME NEW t \in Threads, Clear(t) PROVE removed'[k] <= Reach' + cache'[k].age
  <2>1. removed' = removed
    BY <1>1 DEF Clear, world
  <2>2. \/ cache'[k] = None
        \/ /\ cache'[k].outcome = cache[k].outcome
           /\ cache'[k].left = cache[k].left /\ cache'[k].age = cache[k].age
    BY <1>1, <1>t, ClearCache
  <2>3. Lasting(cache[k]) /\ cache'[k].age = cache[k].age
    BY <1>0, <1>s, <2>2 DEF Lasting
  <2> QED
    BY <1>i, <1>k, <1>o, <1>s, <2>1, <2>3
<1>2. ASSUME NEW t \in Threads, Store(t) PROVE removed'[k] <= Reach' + cache'[k].age
  <2>1. removed' = removed /\ th[t].pc = "store"
    BY <1>2 DEF Store, world
  <2>2. th[t].pc = "store" => th[t].read \in Outcomes
    BY <1>t DEF WindowInv
  <2>3. \/ cache'[k] = None \/ cache'[k] = cache[k]
        \/ k = th[t].key /\ cache'[k].outcome = th[t].read /\ cache'[k].age = th[t].age
    BY <1>2, <1>t, <2>2, StoreCache
  <2>4. CASE cache'[k] = None \/ cache'[k] = cache[k]
    BY <1>0, <1>i, <1>k, <1>o, <1>s, <2>1, <2>4
  <2>5. CASE k = th[t].key /\ cache'[k].outcome = th[t].read /\ cache'[k].age = th[t].age
    <3>1. Reading(th[t])
      BY <1>s, <2>1, <2>5 DEF Reading, Lasting
    <3>2. ReadBound(th[t], removed[th[t].key], snapshot[th[t].key], Reach)
      BY <1>g, <1>s, <2>1, <2>5 DEF ReadInv
    <3>3. removed[k] <= Reach + th[t].age
      BY <2>5, <3>1, <3>2 DEF ReadBound
    <3> QED
      BY <1>k, <1>o, <2>1, <2>5, <3>3
  <2> QED
    BY <2>3, <2>4, <2>5
<1>3. ASSUME Tick PROVE removed'[k] <= Reach' + cache'[k].age
  <2>1. removed[k] # Present /\ removed'[k] <= removed[k] + 1
    BY <1>3, <1>s, <1>t, RemovedStep
  <2>2. \/ cache'[k] = None
        \/ /\ cache'[k].outcome = cache[k].outcome
           /\ cache'[k].left > 0 => cache[k].left = cache'[k].left + 1
           /\ cache'[k].age = IF cache[k].age <= t_secs + MaxStall
                              THEN cache[k].age + 1 ELSE t_secs + MaxStall + 1
    BY <1>3, <1>t, TickCache
  <2>3. /\ cache'[k].outcome = cache[k].outcome /\ cache'[k].left > 0 /\ cache[k].left = cache'[k].left + 1
        /\ cache'[k].age = IF cache[k].age <= t_secs + MaxStall
                           THEN cache[k].age + 1 ELSE t_secs + MaxStall + 1
        /\ cache'[k].outcome = "Active"
    BY <1>0, <1>s, <2>2 DEF Lasting
  <2>4. Lasting(cache[k])
    BY <1>k, <2>3 DEF Lasting
  <2>5. cache[k].left + cache[k].age <= t_secs
    BY <1>t, <2>4 DEF WindowInv
  <2>6. cache'[k].age = cache[k].age + 1
    BY <1>c, <1>k, <2>3, <2>5
  <2> QED
    BY <1>i, <1>k, <1>o, <2>1, <2>4, <2>6
<1>4. ASSUME cache' = cache, removed'[k] \in {0, removed[k]} PROVE removed'[k] <= Reach' + cache'[k].age
  BY <1>4, <1>i, <1>k, <1>o, <1>s
<1>5. ASSUME NEW j \in Keys, NEW o \in Outcomes, Edit(j, o) PROVE removed'[k] <= Reach' + cache'[k].age
  <2>1. cache' = cache
    BY <1>5 DEF Edit, caching
  <2>2. removed'[k] \in {Present, 0, removed[k]}
    BY <1>5, <1>t DEF Edit, PlaneType
  <2>3. removed'[k] \in {0, removed[k]}
    BY <1>s, <2>2
  <2> QED
    BY <1>4, <2>1, <2>3
<1>6. ASSUME \/ \E t \in Threads, j \in Keys : Start(t, j)
             \/ \E t \in Threads : Lookup(t) \/ Inner(t)
             \/ ReloadOk
             \/ UNCHANGED <<file, removed, snapshot, cache, th>>
      PROVE  removed'[k] <= Reach' + cache'[k].age
  <2>1. cache' = cache /\ removed' = removed
    BY <1>6 DEF Start, Lookup, Inner, ReloadOk, caching, world
  <2> QED
    BY <1>4, <2>1
<1> QED
  BY <1>1, <1>2, <1>3, <1>5, <1>6, RemovalShape

(* The bounds of a resolution survive what loosens them. *)
LEMMA SinceFrame ==
  ASSUME NEW q \in Resolution, NEW p \in Resolution, NEW e, NEW d, NEW says, NEW held,
         NEW overdue \in Nat, NEW later \in Nat, NEW reach \in Nat, NEW further \in Nat,
         overdue <= later, reach <= further,
         p.since = q.since, p.pc = q.pc, p.read = q.read, p.answer = q.answer,
         Lasting(d) => Lasting(e) /\ e.age \in Nat /\ d.age \in Nat /\ e.age <= d.age,
         SinceBound(q, says, held, e, overdue, reach)
  PROVE  SinceBound(p, says, held, d, later, further)
<1>1. t_secs \in Nat /\ q.since \in Int
  BY TrustConstants DEF Resolution
<1> QED
  BY <1>1 DEF SinceBound, Reading

(* What a step leaves of the entry a thread would find. *)
LEMMA EntryKept ==
  ASSUME TrustInv, [Next]_vars, NEW k \in Keys, Lasting(cache'[k]),
         \A t \in Threads : ~ Store(t)
  PROVE  Lasting(cache[k]) /\ cache[k].age \in Nat /\ cache'[k].age \in Nat /\ cache[k].age <= cache'[k].age
<1>c. t_secs \in Nat /\ MaxStall \in Nat
  BY TrustConstants
<1>t. CacheType /\ WindowInv /\ ThreadType /\ cache[k] \in Entry /\ cache[k].age \in Nat /\ cache[k].left \in Int
  BY DEF TrustInv, CacheType, Entry
<1>0. ~ Lasting(None)
  BY NoneFacts DEF Lasting
<1>1. ASSUME NEW t \in Threads, Clear(t)
      PROVE  Lasting(cache[k]) /\ cache'[k].age = cache[k].age
  <2>1. \/ cache'[k] = None
        \/ /\ cache'[k].outcome = cache[k].outcome
           /\ cache'[k].left = cache[k].left /\ cache'[k].age = cache[k].age
    BY <1>1, <1>t, ClearCache
  <2> QED
    BY <1>0, <2>1 DEF Lasting
<1>2. ASSUME Tick
      PROVE  Lasting(cache[k]) /\ cache'[k].age = cache[k].age + 1
  <2>1. \/ cache'[k] = None
        \/ /\ cache'[k].outcome = cache[k].outcome
           /\ cache'[k].left > 0 => cache[k].left = cache'[k].left + 1
           /\ cache'[k].age = IF cache[k].age <= t_secs + MaxStall
                              THEN cache[k].age + 1 ELSE t_secs + MaxStall + 1
    BY <1>2, <1>t, TickCache
  <2>2. /\ cache'[k].outcome = cache[k].outcome /\ cache'[k].left > 0 /\ cache[k].left = cache'[k].left + 1
        /\ cache'[k].age = IF cache[k].age <= t_secs + MaxStall
                           THEN cache[k].age + 1 ELSE t_secs + MaxStall + 1
        /\ cache'[k].outcome = "Active"
    BY <1>0, <2>1 DEF Lasting
  <2>3. cache'[k] \in Entry
    BY <1>2, <1>t, TickCache
  <2>4. Lasting(cache[k])
    BY <1>t, <2>2, <2>3 DEF Lasting, Entry
  <2>5. cache[k].left + cache[k].age <= t_secs
    BY <1>t, <2>4 DEF WindowInv
  <2> QED
    BY <1>c, <1>t, <2>2, <2>3, <2>4, <2>5 DEF Entry
<1>3. ASSUME cache' = cache PROVE Lasting(cache[k]) /\ cache'[k].age = cache[k].age
  BY <1>3
<1>4. (\E t \in Threads : Clear(t)) \/ Tick \/ cache' = cache
  BY StepShape DEF Start, Lookup, Inner, Edit, caching
<1> QED
  BY <1>1, <1>2, <1>3, <1>4, <1>t

LEMMA SinceBoundStep ==
  ASSUME TrustInv, TrustInv', FileInv, ReloadInv, ReadInv, EntryInv, SinceInv, [Next]_vars,
         NEW s \in Threads
  PROVE  SinceBound(th'[s], file'[th'[s].key], snapshot'[th'[s].key], cache'[th'[s].key], Overdue', Reach')
<1> DEFINE Goal == SinceBound(th'[s], file'[th'[s].key], snapshot'[th'[s].key], cache'[th'[s].key],
                              Overdue', Reach')
<1>c. Present = 0 - 1 /\ LastSeen \in Nat /\ t_secs \in Nat /\ t_secs >= 1 /\ MaxStall \in Nat
  BY TrustConstants
<1>t. PlaneType /\ CacheType /\ ThreadType /\ WindowInv /\ PlaneType' /\ CacheType' /\ ThreadType'
  BY DEF TrustInv
<1>r. /\ \A k \in Keys : removed[k] \in Int
      /\ unread \in BOOLEAN /\ unread' \in BOOLEAN
  BY <1>c, <1>t DEF PlaneType
<1>o. /\ Overdue \in Nat /\ Reach \in Nat /\ Overdue <= Reach
      /\ Overdue' \in Nat /\ Reach' \in Nat /\ Overdue <= Overdue' /\ Reach <= Reach'
  BY <1>t, <1>r, FileStep, ReachFacts, ReachGrows
<1>y. \A t \in Threads : /\ th[t] \in Resolution /\ th[t].key \in Keys /\ th[t].since \in Int
                         /\ th[t].age \in Nat /\ th'[t] \in Resolution
  BY <1>t, <1>c DEF ThreadType, Resolution
<1>i. /\ \A t \in Threads :
           SinceBound(th[t], file[th[t].key], snapshot[th[t].key], cache[th[t].key], Overdue, Reach)
      /\ \A t, p \in Threads : SinceBeside(th[t], th[p], Reach)
  BY DEF SinceInv
<1>f. ASSUME UNCHANGED <<file, snapshot>>, \A t \in Threads : ~ Store(t),
             th'[s].key = th[s].key, th'[s].since = th[s].since, th'[s].pc = th[s].pc,
             th'[s].read = th[s].read, th'[s].answer = th[s].answer
      PROVE  Goal
  <2> DEFINE k == th[s].key
             e == cache[k]
             d == cache'[k]
  <2>1. SinceBound(th[s], file[k], snapshot[k], e, Overdue, Reach)
    BY <1>i
  <2>2. Lasting(d) => Lasting(e) /\ e.age \in Nat /\ d.age \in Nat /\ e.age <= d.age
    BY <1>f, <1>y, EntryKept
  <2>3. th[s] \in Resolution /\ th'[s] \in Resolution
    BY <1>y
  <2> HIDE DEF k, e, d
  <2>4. SinceBound(th'[s], file[k], snapshot[k], d, Overdue', Reach')
    BY <1>f, <1>o, <2>1, <2>2, <2>3, SinceFrame
  <2> QED
    BY <1>f, <2>4 DEF k, d
<1>1. ASSUME NEW t \in Threads, NEW k \in Keys, Start(t, k) PROVE Goal
  <2>1. UNCHANGED <<file, removed, snapshot, cache>> /\ th[t].pc # "store"
    BY <1>1 DEF Start, world, caching
  <2>2. CASE s # t
    <3>1. th'[s] = th[s]
      BY <1>1, <1>t, <2>2, StartEffect DEF Alone
    <3>2. SinceBound(th[s], file[th[s].key], snapshot[th[s].key], cache[th[s].key], Overdue', Reach')
      <4> DEFINE k1 == th[s].key
      <4>1. cache[k1].age \in Nat
        BY <1>t, <1>y DEF CacheType, Entry
      <4> HIDE DEF k1
      <4>2. SinceBound(th[s], file[k1], snapshot[k1], cache[k1], Overdue, Reach) /\ th[s] \in Resolution
        BY <1>i, <1>y DEF k1
      <4> QED
        BY <1>o, <4>1, <4>2, SinceFrame DEF k1
    <3> QED
      BY <2>1, <3>1, <3>2
  <2>3. CASE s = t
    <3>1. /\ th'[t].key = k
          /\ \/ th'[t].since = Present
             \/ ~ (stale \/ terminal) /\ th'[t].pc \in {"clear", "lookup"} /\ th'[t].since = removed[k]
      BY <1>1, <1>t, StartEffect
    <3>2. CASE th'[t].since = Present
      BY <2>3, <3>2 DEF SinceBound
    <3>3. CASE /\ ~ (stale \/ terminal) /\ th'[t].pc \in {"clear", "lookup"}
               /\ th'[t].since = removed[k] /\ removed[k] # Present
      <4>1. file[k] # "Active" /\ removed[k] \in Int
        BY <1>r, <3>3 DEF FileInv
      <4>2. snapshot[k] = "Active" => removed[k] <= Overdue
        BY <1>t, <3>3, SnapshotFresh
      <4>3. Lasting(cache[k]) => removed[k] <= Reach + cache[k].age
        BY <3>3 DEF EntryInv
      <4>4. cache[k].age \in Nat
        BY <1>t DEF CacheType, Entry
      <4>5. /\ snapshot[k] = "Active" => removed[k] <= Overdue'
            /\ Lasting(cache[k]) => removed[k] <= Reach' + cache[k].age
        BY <1>o, <4>1, <4>2, <4>3, <4>4
      <4>6. SinceBound(th'[t], file[k], snapshot[k], cache[k], Overdue', Reach')
        BY <3>3, <4>1, <4>5 DEF SinceBound, Reading
      <4> QED
        BY <2>1, <2>3, <3>1, <4>6
    <3> QED
      BY <3>1, <3>2, <3>3
  <2> QED
    BY <2>2, <2>3
<1>2. ASSUME NEW t \in Threads, Clear(t) \/ Lookup(t) \/ Inner(t) PROVE Goal
  <2>1. UNCHANGED <<file, snapshot>> /\ th' = [th EXCEPT ![t] = th'[t]]
    BY <1>2, <1>t DEF Clear, Lookup, Inner, world, ThreadType
  <2>2. /\ \A u \in Threads \ {t} : th'[u] = th[u]
        /\ th'[t].key = th[t].key /\ th'[t].since = th[t].since
    BY <1>2, <1>t, ClearEffect, LookupEffect, InnerEffect DEF Alone
  <2>3. cache' = cache \/ Clear(t)
    BY <1>2 DEF Lookup, Inner, caching
  <2> DEFINE k == th[s].key
  <2>4. k \in Keys /\ th'[s].key = k /\ th'[s].since = th[s].since
    BY <1>y, <2>2
  <2>5. Lasting(cache'[k]) => Lasting(cache[k]) /\ cache'[k].age = cache[k].age
    <3>1. CASE Clear(t)
      <4>1. \/ cache'[k] = None
            \/ /\ cache'[k].outcome = cache[k].outcome
               /\ cache'[k].left = cache[k].left /\ cache'[k].age = cache[k].age
        BY <1>t, <2>4, <3>1, ClearCache
      <4>2. ~ Lasting(None)
        BY NoneFacts DEF Lasting
      <4> QED
        BY <4>1, <4>2 DEF Lasting
    <3> QED
      BY <2>3, <3>1
  <2>6. SinceBound(th[s], file[k], snapshot[k], cache[k], Overdue, Reach)
    BY <1>i
  <2>7. cache[k].age \in Nat /\ cache[k].left \in Int
    BY <1>t, <2>4 DEF CacheType, Entry
  <2>8. /\ Reading(th'[s]) => Reading(th[s]) \/ snapshot[k] = "Active"
        /\ th'[s].pc = "done" /\ th'[s].answer = "Active" =>
             \/ th[s].pc = "done" /\ th[s].answer = "Active"
             \/ Lasting(cache[k])
    <3>1. CASE s # t
      BY <2>2, <3>1
    <3>2. CASE s = t /\ Clear(t)
      <4>1. th'[t].pc = "lookup"
        BY <1>t, <3>2, ClearEffect
      <4> QED
        BY <3>2, <4>1 DEF Reading
    <3>3. CASE s = t /\ Lookup(t)
      <4>1. \/ th'[t].pc = "done" /\ cache[k].left > 0 /\ th'[t].answer = cache[k].outcome
            \/ th'[t].pc = "inner"
        BY <1>t, <3>3, LookupEffect
      <4> QED
        BY <3>3, <4>1 DEF Reading, Lasting
    <3>4. CASE s = t /\ Inner(t)
      <4>1. th'[t].pc = "store" /\ th'[t].read = snapshot[k]
        BY <1>t, <3>4, InnerEffect
      <4> QED
        BY <3>4, <4>1 DEF Reading
    <3> QED
      BY <1>2, <3>1, <3>2, <3>3, <3>4
  <2>9. Lasting(cache[k]) => cache[k].age < t_secs
    <3>1. Lasting(cache[k]) => cache[k].left + cache[k].age <= t_secs /\ cache[k].left > 0
      BY <1>t, <2>4 DEF WindowInv, Lasting
    <3> QED
      BY <1>c, <2>7, <3>1
  <2>10. th[s].since \in Int
    BY <1>y
  <2> HIDE DEF k
  <2>11. SinceBound(th'[s], file[k], snapshot[k], cache'[k], Overdue', Reach')
    <3>1. SUFFICES ASSUME th[s].since # Present
                   PROVE  /\ file[k] # "Active"
                          /\ snapshot[k] = "Active" => th[s].since <= Overdue'
                          /\ Reading(th'[s]) => th[s].since <= Overdue'
                          /\ Lasting(cache'[k]) => th[s].since <= Reach' + cache'[k].age
                          /\ th'[s].pc = "done" /\ th'[s].answer = "Active" => th[s].since < t_secs + Reach'
      BY <2>4 DEF SinceBound
    <3>2. /\ file[k] # "Active"
          /\ snapshot[k] = "Active" => th[s].since <= Overdue
          /\ Reading(th[s]) => th[s].since <= Overdue
          /\ Lasting(cache[k]) => th[s].since <= Reach + cache[k].age
          /\ th[s].pc = "done" /\ th[s].answer = "Active" => th[s].since < t_secs + Reach
      BY <2>6, <3>1 DEF SinceBound
    <3>3. Reading(th'[s]) => th[s].since <= Overdue'
      BY <1>o, <2>8, <2>10, <3>2
    <3>4. Lasting(cache'[k]) => th[s].since <= Reach' + cache'[k].age
      BY <1>o, <2>5, <2>7, <2>10, <3>2
    <3>5. th'[s].pc = "done" /\ th'[s].answer = "Active" => th[s].since < t_secs + Reach'
      BY <1>c, <1>o, <2>7, <2>8, <2>9, <2>10, <3>2
    <3>6. snapshot[k] = "Active" => th[s].since <= Overdue'
      BY <1>o, <2>10, <3>2
    <3> QED
      BY <3>2, <3>3, <3>4, <3>5, <3>6
  <2> QED
    BY <2>1, <2>4, <2>11
<1>3. ASSUME NEW t \in Threads, Store(t) PROVE Goal
  <2> DEFINE k == th[s].key
  <2>1. UNCHANGED <<file, snapshot>> /\ th[t].pc = "store" /\ th[t].read \in Outcomes
    BY <1>3, <1>t DEF Store, world, WindowInv
  <2>2. /\ \A u \in Threads \ {t} : th'[u] = th[u]
        /\ th'[t].key = th[t].key /\ th'[t].since = th[t].since
        /\ th'[t].pc = "done" /\ th'[t].answer = th[t].read
    BY <1>3, <1>t, StoreEffect DEF Alone
  <2>3. k \in Keys /\ th'[s].key = k /\ th'[s].since = th[s].since /\ th[s].since \in Int
        /\ th[t].age \in Nat /\ cache[k].age \in Nat
    BY <1>t, <1>y, <2>2 DEF CacheType, Entry
  <2>4. Lasting(cache'[k]) =>
          \/ cache'[k] = cache[k]
          \/ th[t].key = th[s].key /\ Reading(th[t]) /\ cache'[k].age = th[t].age
    <3>1. \/ cache'[k] = None \/ cache'[k] = cache[k]
          \/ k = th[t].key /\ cache'[k].outcome = th[t].read /\ cache'[k].age = th[t].age
      BY <1>3, <1>t, <2>1, <2>3, StoreCache
    <3>2. ~ Lasting(None)
      BY NoneFacts DEF Lasting
    <3> QED
      BY <2>1, <3>1, <3>2 DEF Lasting, Reading
  <2>5. SinceBound(th[s], file[k], snapshot[k], cache[k], Overdue, Reach) /\ SinceBeside(th[s], th[t], Reach)
    BY <1>i
  <2>6. /\ ~ Reading(th'[s]) \/ Reading(th[s])
        /\ th'[s].pc = "done" /\ th'[s].answer = "Active" =>
             \/ th[s].pc = "done" /\ th[s].answer = "Active"
             \/ Reading(th[s])
    BY <2>1, <2>2 DEF Reading
  <2>7. SinceBound(th'[s], file[k], snapshot[k], cache'[k], Overdue', Reach')
    <3>1. SUFFICES ASSUME th[s].since # Present
                   PROVE  /\ file[k] # "Active"
                          /\ snapshot[k] = "Active" => th[s].since <= Overdue'
                          /\ Reading(th'[s]) => th[s].since <= Overdue'
                          /\ Lasting(cache'[k]) => th[s].since <= Reach' + cache'[k].age
                          /\ th'[s].pc = "done" /\ th'[s].answer = "Active" => th[s].since < t_secs + Reach'
      BY <2>3 DEF SinceBound
    <3>2. /\ file[k] # "Active"
          /\ snapshot[k] = "Active" => th[s].since <= Overdue
          /\ Reading(th[s]) => th[s].since <= Overdue
          /\ Lasting(cache[k]) => th[s].since <= Reach + cache[k].age
          /\ th[s].pc = "done" /\ th[s].answer = "Active" => th[s].since < t_secs + Reach
          /\ th[t].key = th[s].key /\ Reading(th[t]) => th[s].since <= Reach + th[t].age
      BY <2>5, <3>1 DEF SinceBound, SinceBeside
    <3> HIDE DEF k
    <3>3. Reading(th'[s]) => th[s].since <= Overdue'
      BY <1>o, <2>3, <2>6, <3>2
    <3>4. Lasting(cache'[k]) => th[s].since <= Reach' + cache'[k].age
      <4>1. CASE cache'[k] = cache[k]
        BY <1>o, <2>3, <3>2, <4>1
      <4>2. CASE th[t].key = th[s].key /\ Reading(th[t]) /\ cache'[k].age = th[t].age
        BY <1>o, <2>3, <3>2, <4>2
      <4> QED
        BY <2>4, <4>1, <4>2
    <3>5. th'[s].pc = "done" /\ th'[s].answer = "Active" => th[s].since < t_secs + Reach'
      BY <1>c, <1>o, <2>3, <2>6, <3>2
    <3>6. snapshot[k] = "Active" => th[s].since <= Overdue'
      BY <1>o, <2>3, <3>2
    <3> QED
      BY <3>2, <3>3, <3>4, <3>5, <3>6
  <2> QED
    BY <2>1, <2>3, <2>7
<1>4. ASSUME NEW j \in Keys, NEW o \in Outcomes, Edit(j, o) PROVE Goal
  <2> DEFINE k == th[s].key
  <2>1. /\ snapshot' = snapshot /\ cache' = cache /\ file' = [file EXCEPT ![j] = o]
        /\ k \in Keys /\ file \in [Keys -> Outcomes] /\ cache[k].age \in Nat
    BY <1>4, <1>t, <1>y DEF Edit, caching, PlaneType, CacheType, Entry
  <2>2. /\ th'[s].pc = th[s].pc /\ th'[s].key = k /\ th'[s].read = th[s].read /\ th'[s].answer = th[s].answer
        /\ th'[s].since = IF k = j /\ o = "Active" THEN Present ELSE th[s].since
    BY <1>4, <1>t, EditEffect
  <2>3. SinceBound(th[s], file[k], snapshot[k], cache[k], Overdue, Reach) /\ th[s].since \in Int
    BY <1>i, <1>y
  <2>4. CASE th'[s].since = Present
    BY <2>4 DEF SinceBound
  <2>5. CASE th'[s].since # Present
    <3>1. th'[s].since = th[s].since /\ th[s].since # Present
      BY <2>2, <2>5
    <3>2. file'[k] # "Active"
      <4>1. file[k] # "Active"
        BY <2>3, <3>1 DEF SinceBound
      <4> QED
        BY <2>1, <2>2, <2>5, <4>1
    <3>3. /\ snapshot[k] = "Active" => th[s].since <= Overdue'
          /\ Reading(th[s]) => th[s].since <= Overdue'
          /\ Lasting(cache[k]) => th[s].since <= Reach' + cache[k].age
          /\ th[s].pc = "done" /\ th[s].answer = "Active" => th[s].since < t_secs + Reach'
      <4> HIDE DEF k
      <4> QED
        BY <1>c, <1>o, <2>1, <2>3, <3>1 DEF SinceBound
    <3>4. SinceBound(th'[s], file'[k], snapshot[k], cache[k], Overdue', Reach')
      <4> HIDE DEF k
      <4> QED
        BY <2>2, <3>1, <3>2, <3>3 DEF SinceBound, Reading
    <3> QED
      BY <2>1, <2>2, <3>4
  <2> QED
    BY <2>4, <2>5
<1>5. ASSUME Tick PROVE Goal
  <2>1. UNCHANGED <<file, snapshot>>
    BY <1>5 DEF Tick
  <2>2. /\ th'[s].key = th[s].key /\ th'[s].since = th[s].since /\ th'[s].pc = th[s].pc
        /\ th'[s].read = th[s].read /\ th'[s].answer = th[s].answer
    BY <1>5, <1>t, TickEffect
  <2>3. CASE \A t \in Threads : ~ Store(t)
    BY <1>f, <2>1, <2>2, <2>3
  <2>4. CASE \E t \in Threads : Store(t)
    BY <1>3, <2>4
  <2> QED
    BY <2>3, <2>4
<1>6. ASSUME ReloadOk PROVE Goal
  <2> DEFINE k == th[s].key
  <2>1. th' = th /\ file' = file /\ snapshot' = file /\ cache' = cache
    BY <1>6 DEF ReloadOk, world, caching
  <2>2. SinceBound(th[s], file[k], snapshot[k], cache[k], Overdue, Reach) /\ th[s].since \in Int
        /\ cache[k].age \in Nat
    BY <1>i, <1>y, <1>t DEF CacheType, Entry
  <2> HIDE DEF k
  <2>3. SinceBound(th[s], file[k], file[k], cache[k], Overdue', Reach')
    BY <1>c, <1>o, <2>2 DEF SinceBound
  <2> QED
    BY <2>1, <2>3 DEF k
<1>7. ASSUME UNCHANGED <<file, removed, snapshot, cache, th>> PROVE Goal
  <2> DEFINE k == th[s].key
  <2>1. SinceBound(th[s], file[k], snapshot[k], cache[k], Overdue, Reach) /\ th[s].since \in Int
        /\ cache[k].age \in Nat
    BY <1>i, <1>y, <1>t DEF CacheType, Entry
  <2> HIDE DEF k
  <2>2. SinceBound(th[s], file[k], snapshot[k], cache[k], Overdue', Reach')
    BY <1>c, <1>o, <2>1 DEF SinceBound
  <2> QED
    BY <1>7, <2>2 DEF k
<1> HIDE DEF Goal
<1>8. Goal
  BY <1>1, <1>2, <1>3, <1>4, <1>5, <1>6, <1>7, RemovalShape
<1> QED
  BY <1>8 DEF Goal

(* ... and of one thread against what another is about to store. *)
LEMMA SinceBesideStep ==
  ASSUME TrustInv, TrustInv', FileInv, ReloadInv, ReadInv, SinceInv, [Next]_vars,
         NEW s \in Threads, NEW p \in Threads
  PROVE  SinceBeside(th'[s], th'[p], Reach')
<1>c. Present = 0 - 1 /\ LastSeen \in Nat /\ MaxStall \in Nat
  BY TrustConstants
<1>t. PlaneType /\ CacheType /\ ThreadType /\ PlaneType' /\ ThreadType'
  BY DEF TrustInv
<1>r. /\ \A k \in Keys : removed[k] \in Int
      /\ unread \in BOOLEAN /\ unread' \in BOOLEAN
  BY <1>c, <1>t DEF PlaneType
<1>o. Overdue \in Nat /\ Reach \in Nat /\ Overdue <= Reach /\ Reach' \in Nat /\ Reach <= Reach'
  BY <1>t, <1>r, FileStep, ReachFacts, ReachGrows
<1>y. \A t \in Threads : th[t].key \in Keys /\ th[t].since \in Int /\ th[t].age \in Nat
  BY <1>t, <1>c DEF ThreadType, Resolution
<1>i. /\ SinceBound(th[s], file[th[s].key], snapshot[th[s].key], cache[th[s].key], Overdue, Reach)
      /\ SinceBeside(th[s], th[p], Reach)
  BY DEF SinceInv
<1>f. ASSUME th'[s].since \in {Present, th[s].since}, th'[s].key = th[s].key, th'[p].key = th[p].key,
             Reading(th'[p]) => Reading(th[p]) /\ th'[p].age \in Nat /\ th[p].age <= th'[p].age
      PROVE  SinceBeside(th'[s], th'[p], Reach')
  BY <1>f, <1>i, <1>o, <1>y DEF SinceBeside
<1>1. ASSUME NEW t \in Threads, NEW k \in Keys, Start(t, k) PROVE SinceBeside(th'[s], th'[p], Reach')
  <2>1. /\ \A u \in Threads \ {t} : th'[u] = th[u]
        /\ th'[t].key = k /\ th'[t].pc \in {"done", "clear", "lookup"}
        /\ \/ th'[t].since = Present
           \/ ~ terminal /\ th'[t].since = removed[k]
    BY <1>1, <1>t, StartEffect DEF Alone
  <2>2. CASE p = t
    BY <2>1, <2>2 DEF SinceBeside, Reading
  <2>3. CASE p # t /\ s # t
    BY <1>f, <1>y, <2>1, <2>3
  <2>4. CASE p # t /\ s = t
    <3>1. SUFFICES ASSUME ~ terminal, removed[k] # Present, th[p].key = k, Reading(th[p])
                   PROVE  removed[k] <= Reach' + th[p].age
      BY <2>1, <2>4 DEF SinceBeside
    <3>2. ReadBound(th[p], removed[k], snapshot[k], Reach)
      BY <3>1 DEF ReadInv
    <3>3. removed[k] <= Reach + th[p].age
      BY <3>1, <3>2 DEF ReadBound
    <3> QED
      BY <1>o, <1>r, <1>y, <3>3
  <2> QED
    BY <2>2, <2>3, <2>4
<1>2. ASSUME NEW t \in Threads, Clear(t) \/ Lookup(t) \/ Store(t) PROVE SinceBeside(th'[s], th'[p], Reach')
  <2>1. /\ \A u \in Threads \ {t} : th'[u] = th[u]
        /\ th'[t].key = th[t].key /\ th'[t].since = th[t].since /\ th'[t].pc # "store"
    BY <1>2, <1>t, ClearEffect, LookupEffect, StoreEffect DEF Alone
  <2>2. Reading(th'[p]) => p # t
    BY <2>1 DEF Reading
  <2> QED
    BY <1>f, <1>y, <2>1, <2>2
<1>3. ASSUME NEW t \in Threads, Inner(t) PROVE SinceBeside(th'[s], th'[p], Reach')
  <2>1. /\ \A u \in Threads \ {t} : th'[u] = th[u]
        /\ th'[t].key = th[t].key /\ th'[t].since = th[t].since /\ th'[t].age = th[t].age
        /\ th'[t].read = snapshot[th[t].key]
    BY <1>3, <1>t, InnerEffect DEF Alone
  <2>2. CASE p # t
    BY <1>f, <1>y, <2>1, <2>2
  <2>3. CASE p = t
    <3>1. SUFFICES ASSUME th[s].since # Present, th[t].key = th[s].key, snapshot[th[t].key] = "Active"
                   PROVE  th[s].since <= Reach' + th[t].age
      BY <2>1, <2>3 DEF SinceBeside, Reading
    <3>2. th[s].since <= Overdue
      BY <1>i, <3>1 DEF SinceBound
    <3> QED
      BY <1>o, <1>y, <3>2
  <2> QED
    BY <2>2, <2>3
<1>4. ASSUME NEW j \in Keys, NEW o \in Outcomes, Edit(j, o) PROVE SinceBeside(th'[s], th'[p], Reach')
  <2>1. \A u \in Threads :
          /\ th'[u].pc = th[u].pc /\ th'[u].key = th[u].key /\ th'[u].age = th[u].age
          /\ th'[u].read = th[u].read /\ th'[u].since \in {Present, th[u].since}
    BY <1>4, <1>t, EditEffect
  <2>2. Reading(th'[p]) => Reading(th[p])
    BY <2>1 DEF Reading
  <2> QED
    BY <1>f, <1>y, <2>1, <2>2
<1>5. ASSUME Tick PROVE SinceBeside(th'[s], th'[p], Reach')
  <2>1. \A u \in Threads :
          /\ th'[u].pc = th[u].pc /\ th'[u].key = th[u].key /\ th'[u].read = th[u].read
          /\ th'[u].since = th[u].since
          /\ th'[u].age = IF th[u].pc \in {"idle", "done"} THEN th[u].age ELSE th[u].age + 1
    BY <1>5, <1>t, TickEffect
  <2>2. Reading(th'[p]) => Reading(th[p])
    BY <2>1 DEF Reading
  <2>3. th'[p].age \in Nat /\ th[p].age <= th'[p].age
    BY <1>y, <2>1
  <2> QED
    BY <1>f, <2>1, <2>2, <2>3
<1>6. ASSUME th' = th PROVE SinceBeside(th'[s], th'[p], Reach')
  BY <1>6, <1>f, <1>y
<1> QED
  BY <1>1, <1>2, <1>3, <1>4, <1>5, <1>6, StepShape

----------------------------------------------------------------------------
(* The windows, for every instance *)

RemovedInv == FileInv /\ ReloadInv /\ ReadInv /\ EntryInv /\ SinceInv

LEMMA InitRemovedInv == Init => RemovedInv
<1> SUFFICES ASSUME Init PROVE RemovedInv
  OBVIOUS
<1>1. /\ \A k \in Keys : file[k] = "Active" /\ removed[k] = Present /\ cache[k] = None
      /\ \A t \in Threads : th[t] = Resting
      /\ fileBad = FALSE /\ unread = FALSE /\ stale = FALSE /\ terminal = FALSE
      /\ reload = [pc |-> "sleep", timer |-> Reload, failures |-> 0]
  BY DEF Init
<1>2. FileInv
  BY <1>1 DEF FileInv
<1>3. ReloadInv
  BY <1>1, TrustConstants DEF ReloadInv
<1>4. Resting.key \in Keys
  BY RestingFacts DEF Resolution
<1>5. ReadInv
  BY <1>1, <1>4 DEF ReadInv
<1>6. EntryInv
  BY <1>1 DEF EntryInv
<1>7. SinceInv
  BY <1>1, RestingFacts DEF SinceInv, SinceBound, SinceBeside
<1> QED
  BY <1>2, <1>3, <1>5, <1>6, <1>7 DEF RemovedInv

LEMMA RemovedInvStep ==
  ASSUME TrustInv, TrustInv', RemovedInv, [Next]_vars
  PROVE  RemovedInv'
<1>1. FileInv' /\ ReloadInv' /\ ReadInv' /\ EntryInv'
  BY FileStep, ReloadStep, ReadStep, EntryStep DEF TrustInv, RemovedInv
<1>2. SinceInv'
  <2>1. \A t \in Threads :
          SinceBound(th'[t], file'[th'[t].key], snapshot'[th'[t].key], cache'[th'[t].key], Overdue', Reach')
    BY SinceBoundStep DEF RemovedInv
  <2>2. \A t, p \in Threads : SinceBeside(th'[t], th'[p], Reach')
    BY SinceBesideStep DEF RemovedInv
  <2> QED
    BY <2>1, <2>2 DEF SinceInv, SinceBound, SinceBeside, Reading, Lasting
<1> QED
  BY <1>1, <1>2 DEF RemovedInv

(* The first two parts say what the run checks. *)
LEMMA WindowFromInv == TrustInv /\ RemovedInv => TrustWindowHolds
<1> SUFFICES ASSUME TrustInv, RemovedInv PROVE TrustWindowHolds
  OBVIOUS
<1>t. /\ PlaneType /\ EpochType /\ CacheType /\ ThreadType /\ HealthInv
      /\ ClosedInv /\ WindowInv /\ CapacityInv
  BY DEF TrustInv
<1>d. DOMAIN file = Keys /\ DOMAIN removed = Keys /\ DOMAIN cache = Keys /\ DOMAIN th = Threads
  BY <1>t DEF PlaneType, CacheType, ThreadType
<1>1. TypeOK
  <2>1. \A k \in DOMAIN file : {file[k], snapshot[k]} \subseteq Outcomes
    BY <1>t, <1>d DEF PlaneType
  <2>2. \A k \in DOMAIN removed : removed[k] \in Present .. LastSeen
    BY <1>t, <1>d DEF PlaneType
  <2>3. /\ reload.pc \in {"sleep", "mark", "gone"} /\ reload.timer \in 0 .. Reload
        /\ reload.failures \in 0 .. TRUST_RELOAD_FAILURE_BUDGET
    BY <1>t DEF PlaneType
  <2>4. /\ poll.pc \in {"sleep", "reading", "answered", "wedged", "gone"} /\ poll.timer \in Nat
        /\ quiet \in 0 .. LivenessBound + 1 /\ missed \in 0 .. Unnoticed + 1
        /\ epoch \in Nat \ {0} /\ last_seen \in 0 .. epoch
    BY <1>t DEF EpochType, PollType
  <2>8. got.epoch \in 0 .. epoch /\ got.behind \in 0 .. ReadBudget
    <3>1. /\ got.epoch \in Nat /\ got.behind \in Nat /\ ReadBudget \in Nat /\ epoch \in Nat
          /\ poll.timer \in Nat
      BY <1>t, TrustConstants DEF EpochType, GotType, PollType
    <3>2. CASE poll.pc = "answered"
      BY <1>t, <3>1, <3>2 DEF HealthInv, AtRead
    <3>3. CASE poll.pc # "answered"
      BY <1>t, <3>1, <3>3 DEF HealthInv
    <3> QED
      BY <3>2, <3>3
  <2>5. \A b \in {stale, terminal, healthy, pending, fileBad, unread, gone} : b \in BOOLEAN
    BY <1>t DEF PlaneType, EpochType
  <2>6. /\ \A k \in DOMAIN cache : /\ cache[k].outcome \in Outcomes \cup {"None"}
                                   /\ cache[k].left \in Int /\ cache[k].age \in Nat
        /\ writes \in 0 .. PRUNE_EVERY_N_WRITES - 1
    BY <1>t, <1>d DEF CacheType, Entry
  <2>7. \A t \in DOMAIN th : th[t].pc \in {"idle", "clear", "lookup", "inner", "store", "done"}
    BY <1>t, <1>d DEF ThreadType, Resolution
  <2> QED
    BY <2>1, <2>2, <2>3, <2>4, <2>5, <2>6, <2>7, <2>8 DEF TypeOK
<1>2. WithinCapacity
  BY <1>t, <1>d DEF CapacityInv, WithinCapacity
<1>3. ServedWithinT
  BY <1>t, <1>d DEF WindowInv, ServedWithinT
<1>4. ClosedAfterDrop
  BY <1>t, <1>d DEF ClosedInv, ClosedAfterDrop
<1>5. RemovedOut
  <2>1. SUFFICES ASSUME NEW t \in Threads, th[t].pc = "done", th[t].answer = "Active"
                 PROVE  th[t].since < Delivered
    BY <1>d DEF RemovedOut
  <2>2. unread \in BOOLEAN /\ t_secs \in Nat /\ Present = 0 - 1
    BY <1>t, TrustConstants DEF PlaneType
  <2>3. Reach \in Nat /\ Delivered = t_secs + Reach
    BY <2>2, ReachFacts, CadenceFacts DEF Delivered
  <2>4. SinceBound(th[t], file[th[t].key], snapshot[th[t].key], cache[th[t].key], Overdue, Reach)
    BY DEF RemovedInv, SinceInv
  <2> QED
    BY <2>1, <2>2, <2>3, <2>4 DEF SinceBound
<1> QED
  BY <1>1, <1>2, <1>3, <1>4, <1>5 DEF TrustWindowHolds

(* The exposure window and the delivered window hold, for every number of  *)
(* keys and threads and for every duration: no active answer is older than *)
(* T, no removed key is answered to a resolution begun later than the      *)
(* reload cadence (or the failure budget) and T allow, the cache stays     *)
(* within its bound and a dropped plane resolves nothing.                  *)
(* (BoundedTrustCache::resolve, clear and store; trust_reload_cycle;       *)
(* Drop for TrustPlane)                                                    *)
THEOREM TrustWindowAlways == Spec => []TrustWindowHolds
<1>1. Init => TrustInv /\ RemovedInv
  BY InitTrustInv, InitRemovedInv
<1>2. TrustInv /\ RemovedInv /\ [Next]_vars => (TrustInv /\ RemovedInv)'
  BY TrustInvStep, RemovedInvStep
<1> QED
  BY <1>1, <1>2, WindowFromInv, PTL DEF Spec

(* While the push health is reported good, no advance of the shared epoch  *)
(* has gone unnoticed for longer than the tolerated misses, one poll and   *)
(* one read, for every cadence and read budget: also when the counter      *)
(* moves between a GET and its late answer, and whether the poller fails,  *)
(* retries, panics, is slow or is wedged.  (TrustEpochSource::is_healthy,  *)
(* poll_once, RedisEpochReader::read_epoch)                                *)
THEOREM HealthyMeansCurrentHolds == Spec => []HealthyMeansCurrent
<1>1. Init => TrustInv
  BY InitTrustInv
<1>2. TrustInv /\ [Next]_vars => TrustInv'
  BY TrustInvStep
<1>3. TrustInv => HealthyMeansCurrent
  BY TrustConstants DEF TrustInv, EpochType, HealthInv, HealthyMeansCurrent, is_healthy
<1> QED
  BY <1>1, <1>2, <1>3, PTL DEF Spec

----------------------------------------------------------------------------
(* The rollback floor of the client's anchors *)

Bounded(S) == \E n \in Nat : \A v \in S : v <= n

(* A bounded set of numbers has a largest one. *)
LEMMA MaxOfBounded ==
  ASSUME NEW S, S \subseteq Nat, S # {}, Bounded(S)
  PROVE  Max(S) \in S /\ \A v \in S : v <= Max(S)
<1> DEFINE T == {n \in Nat : \A v \in S : v <= n}
<1>1. T # {} /\ T \subseteq Nat
  BY DEF Bounded
<1>2. \E m \in T : \A y \in T : ~ (<<y, m>> \in OpToRel(<, Nat))
  <2> HIDE DEF T
  <2> QED
    BY <1>1, NatLessThanWellFounded, WFMin
<1>3. PICK m \in T : \A y \in T : ~ (y < m)
  BY <1>1, <1>2 DEF OpToRel
<1>4. m \in Nat /\ \A v \in S : v <= m
  OBVIOUS
<1>5. m \in S
  <2>1. SUFFICES ASSUME m \notin S PROVE FALSE
    OBVIOUS
  <2>2. \A v \in S : v <= m - 1 /\ m - 1 \in Nat
    BY <1>4, <2>1
  <2>3. m - 1 \in T
    BY <2>2
  <2> QED
    BY <1>3, <1>4, <2>3
<1>6. \E x \in S : \A y \in S : x >= y
  BY <1>4, <1>5
<1> HIDE DEF T
<1>7. Max(S) \in S /\ \A y \in S : Max(S) >= y
  BY <1>6 DEF Max
<1> QED
  BY <1>7

LEMMA ReadFloor ==
  ASSUME NEW S, S \subseteq Versions, Bounded(S)
  PROVE  /\ read_floor(S) \in S \cup {0} /\ read_floor(S) \in Nat
         /\ \A v \in S : v <= read_floor(S)
<1>1. S \cup {0} \subseteq Nat /\ S \cup {0} # {}
  BY AnchorAssumption
<1>2. Bounded(S \cup {0})
  BY DEF Bounded
<1>3. Max(S \cup {0}) \in S \cup {0} /\ \A v \in S \cup {0} : v <= Max(S \cup {0})
  BY <1>1, <1>2, MaxOfBounded
<1> QED
  BY <1>1, <1>3 DEF read_floor

Loading == {"floor", "record", "create", "sync", "prune", "swap"}

Load ==
  [pc : {"down", "serving", "read"} \cup Loading, at : Nat, doc : Versions \cup {0},
   had : Versions \cup {0}, anchors : Versions \cup {0}, expires : Nat, since : Nat, floorAt : Nat]

(* What a load has made sure of by the time it gets so far. *)
LoadInv(q, held, known) ==
  /\ q.pc \in Loading => q.doc \in Versions
  /\ q.pc \in Loading \ {"floor"} => q.doc >= bootstrap
  /\ q.pc \in {"create", "sync", "prune", "swap"} => q.since <= q.doc
  /\ q.pc = "sync" => \E u \in held : u >= q.doc
  /\ q.pc = "prune" => q.doc \in known
  /\ q.anchors # 0 => q.anchors >= q.floorAt /\ q.anchors >= bootstrap

(* A recorded version, or a later one, is in the directory and on the disk. *)
KeptInv == \A v \in recorded : \E u \in markers \cap disk : u >= v

AnchorInv ==
  /\ manifest \in Versions \cup {Spoiled} /\ now \in 0 .. MaxTime
  /\ markers \subseteq Versions /\ disk \subseteq Versions /\ recorded \subseteq Versions
  /\ Bounded(markers) /\ Bounded(disk) /\ Bounded(recorded)
  /\ client \in [Clients -> Load]
  /\ KeptInv
  /\ \A c \in Clients : LoadInv(client[c], markers, recorded)

LEMMA AnchorConstants ==
  /\ Versions \subseteq Nat /\ 0 \notin Versions /\ bootstrap \in Nat /\ MaxTime \in Nat
  /\ \A v \in Versions : Expires[v] \in Nat
BY AnchorAssumption

LEMMA VersionNat == \A v \in Versions \cup {0} : v \in Nat
BY AnchorAssumption

LEMMA DownFacts == Down \in Load /\ Down.anchors = 0 /\ \A h, k : LoadInv(Down, h, k)
<1>1. Down \in Load /\ Down.anchors = 0
  BY DEF Down, Load
<1>2. ASSUME NEW h, NEW k PROVE LoadInv(Down, h, k)
  BY DEF Down, LoadInv, Loading
<1> QED
  BY <1>1, <1>2

(* A load that fails leaves the anchors, or takes them away. *)
LEMMA FailedFacts ==
  ASSUME NEW c \in Clients, client[c] \in Load, LoadInv(client[c], markers, recorded)
  PROVE  Failed(c) \in Load /\ \A h, k : LoadInv(Failed(c), h, k)
<1>1. CASE client[c].expires = 0
  BY <1>1, DownFacts DEF Failed
<1>2. CASE client[c].expires # 0
  <2>1. PICK a : /\ a = IF client[c].at >= client[c].expires THEN 0 ELSE client[c].anchors
                 /\ Failed(c) = [client[c] EXCEPT !.pc = "serving", !.at = 0, !.doc = 0, !.had = 0,
                                   !.since = 0, !.anchors = a]
    BY <1>2 DEF Failed
  <2>2. a \in Versions \cup {0} /\ (a # 0 => a = client[c].anchors)
    BY <2>1 DEF Load
  <2>3. Failed(c) = [pc |-> "serving", at |-> 0, doc |-> 0, had |-> 0, anchors |-> a,
                     expires |-> client[c].expires, since |-> 0, floorAt |-> client[c].floorAt]
    BY <2>1 DEF Load
  <2>4. client[c].expires \in Nat /\ client[c].floorAt \in Nat
    BY DEF Load
  <2>5. Failed(c) \in Load
    BY <2>2, <2>3, <2>4 DEF Load
  <2>6. ASSUME NEW h, NEW k PROVE LoadInv(Failed(c), h, k)
    <3>1. a # 0 => a >= client[c].floorAt /\ a >= bootstrap
      BY <2>2 DEF LoadInv
    <3> QED
      BY <2>3, <3>1 DEF LoadInv, Loading
  <2> QED
    BY <2>5, <2>6
<1> QED
  BY <1>1, <1>2

(* The step of one client leaves the others' loads alone, if the directory *)
(* still holds what they wrote.                                            *)
LEMMA OthersKept ==
  ASSUME AnchorInv, NEW c \in Clients, NEW r \in Load, Goes(c, r),
         LoadInv(r, markers', recorded'),
         recorded \subseteq recorded',
         \A d \in Clients : client[d].pc = "sync" /\ (\E u \in markers : u >= client[d].doc) =>
                              \E u \in markers' : u >= client[d].doc
  PROVE  client' \in [Clients -> Load] /\ \A d \in Clients : LoadInv(client'[d], markers', recorded')
<1>1. client \in [Clients -> Load] /\ client' = [client EXCEPT ![c] = r]
  BY DEF AnchorInv, Goes
<1>2. client' \in [Clients -> Load] /\ client'[c] = r /\ \A d \in Clients \ {c} : client'[d] = client[d]
  BY <1>1
<1>3. ASSUME NEW d \in Clients PROVE LoadInv(client[d], markers', recorded')
  <2>1. LoadInv(client[d], markers, recorded)
    BY DEF AnchorInv
  <2> QED
    BY <2>1 DEF LoadInv
<1> QED
  BY <1>2, <1>3

LEMMA InitAnchorInv == AnchorInit => AnchorInv
<1> SUFFICES ASSUME AnchorInit PROVE AnchorInv
  OBVIOUS
<1>1. /\ manifest \in Versions /\ now = 0 /\ markers = {} /\ disk = {} /\ recorded = {}
      /\ client = [c \in Clients |-> Down]
  BY DEF AnchorInit
<1>2. Bounded({})
  BY DEF Bounded
<1>3. client \in [Clients -> Load] /\ \A c \in Clients : LoadInv(client[c], markers, recorded)
  BY <1>1, DownFacts
<1>4. now \in 0 .. MaxTime
  BY <1>1, AnchorConstants
<1>5. KeptInv
  BY <1>1 DEF KeptInv
<1> QED
  BY <1>1, <1>2, <1>3, <1>4, <1>5 DEF AnchorInv

(* A step of a load that leaves the directory alone. *)
LEMMA LoadStep ==
  ASSUME AnchorInv, NEW c \in Clients, NEW r \in Load, Goes(c, r), UNCHANGED directory,
         UNCHANGED <<manifest, now>>, LoadInv(r, markers, recorded)
  PROVE  AnchorInv'
<1>1. UNCHANGED <<markers, disk, recorded>>
  BY DEF directory
<1>2. client' \in [Clients -> Load] /\ \A d \in Clients : LoadInv(client'[d], markers', recorded')
  BY <1>1, OthersKept
<1> QED
  BY <1>1, <1>2 DEF AnchorInv, KeptInv, Bounded, LoadInv

LEMMA ReadsKeep ==
  ASSUME AnchorInv, NEW c \in Clients,
         StartClient(c) \/ Refresh(c) \/ ReadManifest(c) \/ Verify(c) \/ Record(c) \/ Swap(c) \/ Kill(c)
  PROVE  AnchorInv'
<1>a. Versions \subseteq Nat /\ 0 \notin Versions /\ bootstrap \in Nat /\ MaxTime \in Nat
  BY AnchorConstants
<1>t. /\ client[c] \in Load /\ LoadInv(client[c], markers, recorded)
      /\ manifest \in Versions \cup {0} /\ now \in Nat
  BY <1>a DEF AnchorInv, Spoiled
<1>m. /\ read_floor(markers) \in markers \cup {0} /\ read_floor(markers) \in Nat
      /\ \A v \in markers : v <= read_floor(markers)
      /\ read_floor(markers) \in Versions \cup {0}
  BY ReadFloor DEF AnchorInv
<1>k. read_floor(recorded) \in Nat /\ read_floor(recorded) <= read_floor(markers)
  <2>1. read_floor(recorded) \in recorded \cup {0} /\ read_floor(recorded) \in Nat
    BY ReadFloor DEF AnchorInv
  <2>2. CASE read_floor(recorded) = 0
    BY <1>m, <2>2
  <2>3. CASE read_floor(recorded) \in recorded
    <3>1. PICK u \in markers : u >= read_floor(recorded)
      BY <2>3 DEF AnchorInv, KeptInv
    <3>2. u \in Nat /\ u <= read_floor(markers)
      BY <1>a, <1>m DEF AnchorInv
    <3> QED
      BY <1>m, <2>1, <3>1, <3>2
  <2> QED
    BY <2>1, <2>2, <2>3
<1>f. Failed(c) \in Load /\ LoadInv(Failed(c), markers, recorded)
  BY <1>t, FailedFacts
<1>q. /\ client[c].doc \in Nat /\ client[c].since \in Nat /\ client[c].expires \in Nat /\ client[c].floorAt \in Nat
      /\ client[c].anchors \in Versions \cup {0} /\ client[c].at \in Nat /\ client[c].had \in Versions \cup {0}
  <2>1. /\ client[c].doc \in Versions \cup {0} /\ client[c].since \in Nat /\ client[c].expires \in Nat
        /\ client[c].floorAt \in Nat /\ client[c].at \in Nat
        /\ client[c].anchors \in Versions \cup {0} /\ client[c].had \in Versions \cup {0}
    BY <1>t DEF Load
  <2>2. \A v \in Versions \cup {0} : v \in Nat
    BY <1>a
  <2> QED
    BY <2>1, <2>2
<1>1. CASE StartClient(c)
  <2> DEFINE r == [Down EXCEPT !.pc = "read", !.at = now]
  <2>1. Goes(c, r) /\ UNCHANGED directory /\ UNCHANGED <<manifest, now>>
    BY <1>1 DEF StartClient, outside
  <2>2. r \in Load /\ r.pc = "read" /\ r.anchors = 0
    BY <1>t, DownFacts DEF Load
  <2> HIDE DEF r
  <2>3. LoadInv(r, markers, recorded)
    BY <2>2 DEF LoadInv, Loading
  <2> QED
    BY <2>1, <2>2, <2>3, LoadStep
<1>2. CASE Refresh(c)
  <2> DEFINE r == [client[c] EXCEPT !.pc = "read", !.at = now]
  <2>1. Goes(c, r) /\ UNCHANGED directory /\ UNCHANGED <<manifest, now>>
    BY <1>2 DEF Refresh, outside
  <2>2. r \in Load /\ r.pc = "read" /\ r.anchors = client[c].anchors /\ r.floorAt = client[c].floorAt
    BY <1>t DEF Load
  <2> HIDE DEF r
  <2>3. LoadInv(r, markers, recorded)
    BY <1>t, <2>2 DEF LoadInv, Loading
  <2> QED
    BY <2>1, <2>2, <2>3, LoadStep
<1>3. CASE ReadManifest(c)
  <2> DEFINE r == [client[c] EXCEPT !.pc = "floor", !.doc = manifest]
  <2>1. /\ Goes(c, Failed(c)) \/ (manifest # 0 /\ Goes(c, r))
        /\ UNCHANGED directory /\ UNCHANGED <<manifest, now>>
    BY <1>3 DEF ReadManifest, outside, Spoiled
  <2>2. r \in Load /\ r.pc = "floor" /\ r.doc = manifest /\ r.anchors = client[c].anchors
        /\ r.floorAt = client[c].floorAt
    BY <1>t DEF Load, Loading
  <2> HIDE DEF r
  <2>3. manifest # 0 => LoadInv(r, markers, recorded)
    BY <1>t, <2>2 DEF LoadInv, Loading
  <2> QED
    BY <1>f, <2>1, <2>2, <2>3, LoadStep
<1>4. CASE Verify(c)
  <2> DEFINE r == [client[c] EXCEPT !.pc = "record"]
  <2>1. /\ client[c].pc = "floor"
        /\ Goes(c, Failed(c)) \/ (client[c].doc >= min_version /\ Goes(c, r))
        /\ UNCHANGED directory /\ UNCHANGED <<manifest, now>>
    BY <1>4 DEF Verify, outside
  <2>2. r \in Load /\ r.pc = "record" /\ r.doc = client[c].doc /\ r.anchors = client[c].anchors
        /\ r.floorAt = client[c].floorAt
    BY <1>t DEF Load, Loading
  <2>3. min_version \in Nat /\ min_version >= bootstrap
    <3>1. Max({read_floor(markers), bootstrap}) =
            IF read_floor(markers) >= bootstrap THEN read_floor(markers) ELSE bootstrap
      BY <1>a, <1>m, MaxTwo
    <3> QED
      BY <1>a, <1>m, <3>1 DEF min_version
  <2> HIDE DEF r
  <2>4. client[c].doc >= min_version => LoadInv(r, markers, recorded)
    BY <1>a, <1>q, <1>t, <2>1, <2>2, <2>3 DEF LoadInv, Loading
  <2> QED
    BY <1>f, <2>1, <2>2, <2>4, LoadStep
<1>5. CASE Record(c)
  <2> DEFINE r == [client[c] EXCEPT !.pc = "create", !.had = read_floor(markers),
                     !.since = read_floor(recorded)]
  <2>1. /\ client[c].pc = "record"
        /\ Goes(c, Failed(c)) \/ (read_floor(markers) <= client[c].doc /\ Goes(c, r))
        /\ UNCHANGED directory /\ UNCHANGED <<manifest, now>>
    BY <1>5 DEF Record, outside
  <2>2. r \in Load /\ r.pc = "create" /\ r.doc = client[c].doc /\ r.anchors = client[c].anchors
        /\ r.floorAt = client[c].floorAt /\ r.since = read_floor(recorded)
    BY <1>t, <1>m, <1>k DEF Load, Loading
  <2> HIDE DEF r
  <2>3. read_floor(markers) <= client[c].doc => LoadInv(r, markers, recorded)
    BY <1>k, <1>m, <1>q, <1>t, <2>1, <2>2 DEF LoadInv, Loading
  <2> QED
    BY <1>f, <2>1, <2>2, <2>3, LoadStep
<1>6. CASE Swap(c)
  <2>0. PICK q, v, x, f :
          /\ q \in Load /\ q = client[c] /\ v = client[c].doc
          /\ x = Expires[client[c].doc] /\ f = client[c].since
    BY <1>t
  <2> DEFINE r == [q EXCEPT !.pc = "serving", !.at = 0, !.doc = 0, !.had = 0, !.since = 0,
                     !.anchors = v, !.expires = x, !.floorAt = f]
             F == {"pc", "at", "doc", "had", "anchors", "expires", "since", "floorAt"}
  <2>1. /\ client[c].pc = "swap" /\ Goes(c, r)
        /\ UNCHANGED directory /\ UNCHANGED <<manifest, now>>
    BY <1>6, <2>0 DEF Swap, outside
  <2>2. v \in Versions /\ f \in Nat /\ f <= v /\ v >= bootstrap
    BY <1>q, <1>t, <2>0, <2>1 DEF LoadInv, Loading
  <2>3. x \in Nat
    BY <2>0, <2>2, AnchorConstants
  <2>4. r = [pc |-> "serving", at |-> 0, doc |-> 0, had |-> 0, anchors |-> v,
             expires |-> x, since |-> 0, floorAt |-> f]
    <3>1. q = [i \in F |-> q[i]]
      BY <2>0 DEF Load
    <3>2. r = [i \in F |-> r[i]]
      BY <3>1
    <3>3. /\ r.pc = "serving" /\ r.at = 0 /\ r.doc = 0 /\ r.had = 0 /\ r.since = 0 /\ r.anchors = v
          /\ r.expires = x /\ r.floorAt = f
      BY <3>1
    <3> HIDE DEF r
    <3> QED
      BY <3>2, <3>3
  <2> HIDE DEF r
  <2>5. r \in Load
    BY <2>2, <2>3, <2>4 DEF Load
  <2>6. LoadInv(r, markers, recorded)
    <3>1. v \in Nat
      BY <1>a, <2>2
    <3> QED
      BY <2>2, <2>4, <3>1 DEF LoadInv, Loading
  <2> QED
    BY <2>1, <2>5, <2>6, LoadStep
<1>7. CASE Kill(c)
  <2>1. Goes(c, Down) /\ UNCHANGED directory /\ UNCHANGED <<manifest, now>>
    BY <1>7 DEF Kill
  <2> QED
    BY <2>1, DownFacts, LoadStep
<1> QED
  BY <1>1, <1>2, <1>3, <1>4, <1>5, <1>6, <1>7

(* The parts of the invariant that the directory carries. *)
LEMMA DirectoryKept ==
  ASSUME AnchorInv, UNCHANGED <<manifest, now>>,
         markers' \subseteq Versions, disk' \subseteq Versions, recorded' \subseteq Versions,
         Bounded(markers'), Bounded(disk'), Bounded(recorded'), KeptInv',
         client' \in [Clients -> Load], \A d \in Clients : LoadInv(client'[d], markers', recorded')
  PROVE  AnchorInv'
BY DEF AnchorInv, Bounded, LoadInv

LEMMA BoundedFacts ==
  /\ \A S, T : Bounded(S) /\ T \subseteq S => Bounded(T)
  /\ \A S \in SUBSET Nat : \A T \in SUBSET Nat : Bounded(S) /\ Bounded(T) => Bounded(S \cup T)
  /\ \A d \in Nat : Bounded({d})
<1>1. ASSUME NEW S \in SUBSET Nat, NEW T \in SUBSET Nat, Bounded(S), Bounded(T) PROVE Bounded(S \cup T)
  <2>1. PICK m \in Nat : \A v \in S : v <= m
    BY <1>1 DEF Bounded
  <2>2. PICK n \in Nat : \A v \in T : v <= n
    BY <1>1 DEF Bounded
  <2>3. m + n \in Nat /\ \A v \in S \cup T : v <= m + n
    BY <2>1, <2>2
  <2> QED
    BY <2>3 DEF Bounded
<1>2. \A d \in Nat : Bounded({d})
  BY DEF Bounded
<1>3. \A S, T : Bounded(S) /\ T \subseteq S => Bounded(T)
  BY DEF Bounded
<1> QED
  BY <1>1, <1>2, <1>3

LEMMA WritesKeep ==
  ASSUME AnchorInv, NEW c \in Clients,
         Create(c) \/ CreateUnsynced(c) \/ SyncDir(c) \/ Prune(c)
  PROVE  AnchorInv'
<1> DEFINE d == client[c].doc
<1>a. Versions \subseteq Nat /\ 0 \notin Versions
  BY AnchorConstants
<1>t. /\ client[c] \in Load /\ LoadInv(client[c], markers, recorded)
      /\ markers \subseteq Versions /\ disk \subseteq Versions /\ recorded \subseteq Versions
      /\ Bounded(markers) /\ Bounded(disk) /\ Bounded(recorded) /\ KeptInv
  BY DEF AnchorInv
<1>f. Failed(c) \in Load /\ \A h, k : LoadInv(Failed(c), h, k)
  BY <1>t, FailedFacts
<1>d. client[c].pc \in {"create", "sync", "prune"} /\ d \in Versions
  <2>1. client[c].pc \in {"create", "sync", "prune"}
    BY DEF Create, CreateUnsynced, SyncDir, Prune
  <2> QED
    BY <1>t, <2>1 DEF LoadInv, Loading
<1>u. UNCHANGED <<manifest, now>>
  BY DEF Create, CreateUnsynced, SyncDir, Prune, outside
<1>1. ASSUME NEW r \in Load, Goes(c, r), LoadInv(r, markers', recorded'),
             markers' = markers \cup {d} \/ markers' = markers, UNCHANGED <<disk, recorded>>
      PROVE  AnchorInv'
  <2>1. markers' \subseteq Versions /\ Bounded(markers') /\ markers \subseteq markers'
    <3>1. markers \in SUBSET Nat /\ {d} \in SUBSET Nat /\ d \in Nat
      BY <1>a, <1>d, <1>t
    <3>2. Bounded(markers \cup {d})
      BY <1>t, <3>1, BoundedFacts
    <3> QED
      BY <1>1, <1>d, <1>t, <3>2
  <2>2. client' \in [Clients -> Load] /\ \A e \in Clients : LoadInv(client'[e], markers', recorded')
    BY <1>1, <2>1, OthersKept
  <2>3. KeptInv'
    BY <1>1, <1>t, <2>1 DEF KeptInv
  <2>4. Bounded(disk') /\ Bounded(recorded') /\ disk' \subseteq Versions /\ recorded' \subseteq Versions
    BY <1>1, <1>t
  <2> QED
    BY <1>u, <2>1, <2>2, <2>3, <2>4, DirectoryKept
<1>2. CASE Create(c) \/ CreateUnsynced(c)
  <2> DEFINE r == [client[c] EXCEPT !.pc = "sync"]
  <2>1. /\ client[c].pc = "create" /\ UNCHANGED <<disk, recorded>>
        /\ markers' = markers \cup {d} \/ markers' = markers
        /\ Goes(c, Failed(c)) \/ (markers' = markers \cup {d} /\ Goes(c, r))
    BY <1>2 DEF Create, CreateUnsynced
  <2>2. r \in Load /\ r.pc = "sync" /\ r.doc = d /\ r.anchors = client[c].anchors
        /\ r.floorAt = client[c].floorAt /\ r.since = client[c].since
    BY <1>t DEF Load, Loading
  <2> HIDE DEF r
  <2>3. ASSUME markers' = markers \cup {d} PROVE LoadInv(r, markers', recorded')
    <3>0. d \in Nat
      BY <1>a, <1>d
    <3>1. d \in markers' /\ d >= d
      BY <2>3, <3>0
    <3> QED
      BY <1>t, <2>1, <2>2, <3>1 DEF LoadInv, Loading
  <2>4. CASE Goes(c, Failed(c))
    BY <1>1, <1>f, <2>1, <2>4
  <2>5. CASE markers' = markers \cup {d} /\ Goes(c, r)
    BY <1>1, <2>1, <2>2, <2>3, <2>5
  <2> QED
    BY <2>1, <2>4, <2>5
<1>3. CASE SyncDir(c)
  <2>1. client[c].pc = "sync" /\ markers' = markers
    BY <1>3 DEF SyncDir
  <2>2. CASE Goes(c, Failed(c)) /\ UNCHANGED <<disk, recorded>>
    BY <1>1, <1>f, <2>1, <2>2
  <2>3. CASE /\ disk' = markers /\ recorded' = recorded \cup {d}
             /\ Goes(c, [client[c] EXCEPT !.pc = IF client[c].had = d THEN "swap" ELSE "prune"])
    <3>1. PICK pc \in {"swap", "prune"} : pc = IF client[c].had = d THEN "swap" ELSE "prune"
      OBVIOUS
    <3> DEFINE r == [client[c] EXCEPT !.pc = pc]
    <3>2. Goes(c, r)
      BY <2>3, <3>1
    <3>3. r \in Load /\ r.pc = pc /\ r.doc = d /\ r.anchors = client[c].anchors
          /\ r.floorAt = client[c].floorAt /\ r.since = client[c].since
      BY <1>t DEF Load, Loading
    <3> HIDE DEF r
    <3>4. LoadInv(r, markers', recorded')
      BY <1>t, <2>1, <2>3, <3>3 DEF LoadInv, Loading
    <3>5. client' \in [Clients -> Load] /\ \A e \in Clients : LoadInv(client'[e], markers', recorded')
      BY <2>1, <2>3, <3>2, <3>3, <3>4, OthersKept
    <3>6. KeptInv'
      <4>1. PICK w \in markers : w >= d
        BY <1>t, <2>1 DEF LoadInv
      <4>2. ASSUME NEW v \in recorded' PROVE \E u \in markers' \cap disk' : u >= v
        <5>1. CASE v = d
          BY <2>1, <2>3, <4>1, <5>1
        <5>2. CASE v \in recorded
          BY <1>t, <2>1, <2>3, <5>2 DEF KeptInv
        <5> QED
          BY <2>3, <4>2, <5>1, <5>2
      <4> QED
        BY <4>2 DEF KeptInv
    <3>7. Bounded(recorded') /\ recorded' \subseteq Versions
      <4>1. recorded \in SUBSET Nat /\ {d} \in SUBSET Nat /\ d \in Nat
        BY <1>a, <1>d, <1>t
      <4> QED
        BY <1>d, <1>t, <2>3, <4>1, BoundedFacts
    <3>8. Bounded(markers') /\ Bounded(disk') /\ markers' \subseteq Versions /\ disk' \subseteq Versions
      BY <1>t, <2>1, <2>3
    <3> QED
      BY <1>u, <3>5, <3>6, <3>7, <3>8, DirectoryKept
  <2> QED
    BY <1>3, <2>2, <2>3 DEF SyncDir
<1>4. CASE Prune(c)
  <2> DEFINE r == [client[c] EXCEPT !.pc = "swap"]
  <2>1. client[c].pc = "prune" /\ Goes(c, r) /\ UNCHANGED <<disk, recorded>>
    BY <1>4 DEF Prune
  <2>2. PICK out \in SUBSET {v \in markers : v < d} : markers' = markers \ out
    BY <1>4 DEF Prune
  <2>3. r \in Load /\ r.pc = "swap" /\ r.doc = d /\ r.anchors = client[c].anchors
        /\ r.floorAt = client[c].floorAt /\ r.since = client[c].since
    BY <1>t DEF Load, Loading
  <2> HIDE DEF r
  <2>4. LoadInv(r, markers', recorded')
    BY <1>t, <2>1, <2>3 DEF LoadInv, Loading
  <2>5. PICK w \in markers \cap disk : w >= d
    <3>1. d \in recorded
      BY <1>t, <2>1 DEF LoadInv
    <3> QED
      BY <1>t, <3>1 DEF KeptInv
  <2>6. w \in markers' \cap disk' /\ w \in Nat /\ d \in Nat
    <3>1. w \in Nat /\ d \in Nat
      BY <1>a, <1>d, <1>t
    <3>2. ~ (w < d)
      BY <2>5, <3>1
    <3> QED
      BY <2>1, <2>2, <3>1, <3>2
  <2>7. ASSUME NEW u \in markers PROVE u \in markers' \/ (u \in Nat /\ u < d)
    BY <1>a, <1>t, <2>2
  <2>8. client' \in [Clients -> Load] /\ \A e \in Clients : LoadInv(client'[e], markers', recorded')
    <3>1. ASSUME NEW e \in Clients, NEW u \in markers, u >= client[e].doc
          PROVE  \E x \in markers' : x >= client[e].doc
      <4>1. client[e].doc \in Nat
        <5>0. client[e] \in Load
          BY DEF AnchorInv
        <5>1. client[e].doc \in Versions \cup {0}
          BY <5>0 DEF Load
        <5> QED
          BY <5>1, VersionNat
      <4>2. CASE u \in markers'
        BY <3>1, <4>2
      <4>3. CASE u \in Nat /\ u < d
        <5>1. w >= client[e].doc
          BY <2>5, <2>6, <3>1, <4>1, <4>3
        <5> QED
          BY <2>6, <5>1
      <4> QED
        BY <2>7, <4>2, <4>3
    <3> QED
      BY <2>1, <2>3, <2>4, <3>1, OthersKept
  <2>9. KeptInv'
    <3>1. ASSUME NEW v \in recorded PROVE \E u \in markers' \cap disk' : u >= v
      <4>1. PICK u \in markers \cap disk : u >= v
        BY <1>t DEF KeptInv
      <4>2. v \in Nat
        BY <1>a, <1>t
      <4>3. CASE u \in markers'
        BY <2>1, <4>1, <4>3
      <4>4. CASE u \in Nat /\ u < d
        <5>1. w >= v
          BY <2>5, <2>6, <4>1, <4>2, <4>4
        <5> QED
          BY <2>6, <5>1
      <4> QED
        BY <2>7, <4>1, <4>3, <4>4
    <3> QED
      BY <2>1, <3>1 DEF KeptInv
  <2>10. markers' \subseteq Versions /\ Bounded(markers')
    BY <1>t, <2>2, BoundedFacts
  <2>11. disk' \subseteq Versions /\ Bounded(disk') /\ recorded' \subseteq Versions /\ Bounded(recorded')
    BY <1>t, <2>1
  <2> QED
    BY <1>u, <2>8, <2>9, <2>10, <2>11, DirectoryKept
<1> QED
  BY <1>2, <1>3, <1>4

LEMMA LossesKeep ==
  ASSUME AnchorInv, PowerLoss \/ VolumeLost
  PROVE  AnchorInv'
<1>a. Versions \subseteq Nat
  BY AnchorConstants
<1>t. /\ markers \subseteq Versions /\ disk \subseteq Versions /\ recorded \subseteq Versions
      /\ Bounded(markers) /\ Bounded(disk) /\ Bounded(recorded) /\ KeptInv
  BY DEF AnchorInv
<1>1. UNCHANGED <<manifest, now>> /\ client' = [c \in Clients |-> Down]
  BY DEF PowerLoss, VolumeLost
<1>2. client' \in [Clients -> Load] /\ \A c \in Clients : LoadInv(client'[c], markers', recorded')
  BY <1>1, DownFacts
<1>3. CASE PowerLoss
  <2>1. PICK kept \in SUBSET (markers \cup disk) :
          markers \cap disk \subseteq kept /\ markers' = kept /\ disk' = kept /\ recorded' = recorded
    BY <1>3 DEF PowerLoss
  <2>2. Bounded(kept) /\ kept \subseteq Versions
    <3>1. markers \in SUBSET Nat /\ disk \in SUBSET Nat
      BY <1>a, <1>t
    <3>2. Bounded(markers \cup disk)
      BY <1>t, <3>1, BoundedFacts
    <3> QED
      BY <1>t, <3>2, BoundedFacts
  <2>3. KeptInv'
    BY <1>t, <2>1 DEF KeptInv
  <2>4. /\ Bounded(markers') /\ Bounded(disk') /\ Bounded(recorded')
        /\ markers' \subseteq Versions /\ disk' \subseteq Versions /\ recorded' \subseteq Versions
    BY <1>t, <2>1, <2>2
  <2> QED
    BY <1>1, <1>2, <2>3, <2>4, DirectoryKept
<1>4. CASE VolumeLost
  <2>1. markers' = {} /\ disk' = {} /\ recorded' = {}
    BY <1>4 DEF VolumeLost
  <2>2. KeptInv'
    BY <2>1 DEF KeptInv
  <2>3. /\ Bounded(markers') /\ Bounded(disk') /\ Bounded(recorded')
        /\ markers' \subseteq Versions /\ disk' \subseteq Versions /\ recorded' \subseteq Versions
    BY <2>1 DEF Bounded
  <2> QED
    BY <1>1, <1>2, <2>2, <2>3, DirectoryKept
<1> QED
  BY <1>3, <1>4

LEMMA AnchorInvStep ==
  ASSUME AnchorInv, [AnchorNext]_anchorVars
  PROVE  AnchorInv'
<1>1. ASSUME NEW c \in Clients,
             \/ StartClient(c) \/ Refresh(c) \/ ReadManifest(c) \/ Verify(c) \/ Record(c)
             \/ Swap(c) \/ Kill(c)
      PROVE  AnchorInv'
  BY <1>1, ReadsKeep
<1>2. ASSUME NEW c \in Clients, Create(c) \/ CreateUnsynced(c) \/ SyncDir(c) \/ Prune(c)
      PROVE  AnchorInv'
  BY <1>2, WritesKeep
<1>3. CASE Publish \/ ClockTick \/ UNCHANGED anchorVars
  <2>1. UNCHANGED <<markers, disk, recorded, client>>
    BY <1>3 DEF Publish, ClockTick, anchorVars, directory
  <2>2. manifest' \in Versions \cup {Spoiled}
    BY <1>3 DEF Publish, ClockTick, anchorVars, AnchorInv, Spoiled
  <2>3. now' \in 0 .. MaxTime
    BY <1>3, AnchorConstants DEF Publish, ClockTick, anchorVars, AnchorInv
  <2> QED
    BY <2>1, <2>2, <2>3 DEF AnchorInv, KeptInv, Bounded, LoadInv
<1>4. CASE PowerLoss \/ VolumeLost
  BY <1>4, LossesKeep
<1> QED
  BY <1>1, <1>2, <1>3, <1>4 DEF AnchorNext

LEMMA AnchorsFromInv == AnchorInv => AnchorsNeverRollBack
<1> SUFFICES ASSUME AnchorInv PROVE AnchorsNeverRollBack
  OBVIOUS
<1>a. Versions \subseteq Nat /\ 0 \notin Versions /\ bootstrap \in Nat
  BY AnchorConstants
<1>t. client \in [Clients -> Load] /\ \A c \in Clients : LoadInv(client[c], markers, recorded)
  BY DEF AnchorInv
<1>1. AnchorTypeOK
  BY <1>t DEF AnchorInv, AnchorTypeOK, Load, Loading
<1>2. FloorKept
  <2>1. SUFFICES ASSUME recorded # {}
                 PROVE  Max(recorded) <= read_floor(markers) /\ Max(recorded) <= read_floor(disk)
    BY DEF FloorKept
  <2>2. recorded \subseteq Nat /\ markers \subseteq Nat
    BY <1>a DEF AnchorInv
  <2>3. Max(recorded) \in recorded
    BY <2>1, <2>2, MaxOfBounded DEF AnchorInv
  <2>4. PICK u \in markers \cap disk : u >= Max(recorded)
    BY <2>3 DEF AnchorInv, KeptInv
  <2>5. /\ read_floor(markers) \in Nat /\ u <= read_floor(markers)
        /\ read_floor(disk) \in Nat /\ u <= read_floor(disk)
    BY ReadFloor DEF AnchorInv
  <2>6. u \in Nat /\ Max(recorded) \in Nat
    BY <2>2, <2>3
  <2> QED
    BY <2>4, <2>5, <2>6
<1>3. NotRolledBack
  BY <1>t DEF NotRolledBack, LoadInv
<1>4. RevokedStaysRevoked
  <2>1. SUFFICES ASSUME NEW c \in Clients, client[c].anchors # 0, trusts(client[c].anchors, now),
                        NEW v \in recorded, Revokes[v], v <= client[c].floorAt
                 PROVE  v < client[c].anchors
    BY DEF RevokedStaysRevoked
  <2>2. v \in Nat /\ client[c].anchors \in Nat /\ client[c].floorAt \in Nat
    <3>0. client[c] \in Load /\ v \in Versions
      BY <1>t DEF AnchorInv
    <3>1. client[c].anchors \in Versions \cup {0} /\ client[c].floorAt \in Nat
      BY <3>0 DEF Load
    <3> QED
      BY <3>0, <3>1, VersionNat
  <2>3. client[c].anchors >= client[c].floorAt
    BY <1>3, <2>1 DEF NotRolledBack
  <2>4. v # client[c].anchors
    BY <2>1 DEF trusts
  <2> QED
    BY <2>1, <2>2, <2>3, <2>4
<1> QED
  BY <1>1, <1>2, <1>3, <1>4 DEF AnchorsNeverRollBack

(* A client's anchors never go back, for any number of clients that share  *)
(* the directory and prune it without a lock, and over every kill, loss of *)
(* power and spoiled or older manifest: the largest recorded version is    *)
(* found again, and no anchors come from below it.                         *)
(* (load_signed_manifest_with_floor; FileManifestFloor::record, persist,   *)
(* prune_below)                                                            *)
THEOREM AnchorsNeverRollBackHolds == AnchorSpec => []AnchorsNeverRollBack
<1>1. AnchorInit => AnchorInv
  BY InitAnchorInv
<1>2. AnchorInv /\ [AnchorNext]_anchorVars => AnchorInv'
  BY AnchorInvStep
<1> QED
  BY <1>1, <1>2, AnchorsFromInv, PTL DEF AnchorSpec
=============================================================================
