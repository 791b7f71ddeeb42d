----------------------------- MODULE ServingCore -----------------------------
(***************************************************************************)
(* One core of the serving fleet: its accept loop, the TLS handshakes, the *)
(* requests on its connections, and the bounds they are admitted against   *)
(* -- connections, handshakes that may block a worker, requests in flight, *)
(* buffered body bytes -- up to the drain and the end of its runtime.      *)
(*                                                                         *)
(* A core may run several worker threads, so each atomic operation is one  *)
(* step.  What a request's handler does is Serving's; here it returns.     *)
(***************************************************************************)
EXTENDS Integers, FiniteSets

CONSTANTS
    Conns, Requests,
    Unbounded,                       \* a limit that is not set
    max_concurrent_connections,
    max_in_flight_requests,          \* the per-core ceiling, or Unbounded
    max_in_flight_total,             \* the fleet's, or Unbounded
    cores,
    max_body_bytes,
    BUFFERED_BODY_BUDGET_MULTIPLE,
    Topologies,                      \* set of [depth, stated, may_block]
    DELEGATED_TLS_WORKERS_PER_CORE,
    DELEGATED_TLS_HANDSHAKES_PER_CORE

\* The sizes a core is built with are positive; a limit may be unset.
ASSUME CoreAssumption ==
    /\ IsFiniteSet(Conns) /\ IsFiniteSet(Requests) /\ Unbounded \notin Int
    /\ max_in_flight_requests \in Nat \cup {Unbounded}
    /\ max_in_flight_total \in Nat \cup {Unbounded}
    /\ \A n \in {max_concurrent_connections, cores, max_body_bytes,
                 BUFFERED_BODY_BUDGET_MULTIPLE, DELEGATED_TLS_WORKERS_PER_CORE,
                 DELEGATED_TLS_HANDSHAKES_PER_CORE} : n \in Nat \ {0}
    /\ \A t \in Topologies : t.depth \in Nat \ {0} /\ t.stated \in BOOLEAN
                             /\ t.may_block \in BOOLEAN

VARIABLES
    pool,        \* [workers, handshakes, may_block]: CorePool
    loop,        \* the accept loop: "check", "accept", "drain", "stop", "cut"
    shutdown,    \* the flag
    conn,        \* connection -> "none", "wait", "tls", "sign", "open", "closing", "gone"
    request,     \* request -> [pc, conn, held, got, frame, seen, replies, late]
    connections, handshakes, in_flight,      \* semaphores: permits left
    in_flight_requests,                      \* InFlightGuard's counter
    charged,                                 \* BodyByteBudget::charged
    drained,     \* how the drain ended: "no", "zero", "grace"
    cut          \* request -> where the end of the runtime found it

coreVars == <<pool, loop, shutdown, conn, request, connections, handshakes, in_flight,
          in_flight_requests, charged, drained, cut>>

----------------------------------------------------------------------------
(* What a core is built with *)

Least(a, b) == IF a < b THEN a ELSE b

stated_single_thread(t) == t.stated /\ t.depth <= 1

for_core_whole_pool(t) ==
    LET workers == IF t.depth > 1 THEN t.depth
                   ELSE IF t.may_block THEN DELEGATED_TLS_WORKERS_PER_CORE ELSE 1
    IN  [workers |-> workers, may_block |-> t.may_block,
         handshakes |-> IF t.may_block THEN Least(workers, DELEGATED_TLS_HANDSHAKES_PER_CORE)
                        ELSE Unbounded]

\* The pool and its handshake bound are decided together; a stated single thread
\* with blocking signatures is refused before anything is served.
for_core(t) ==
    LET workers == IF t.depth > 1 THEN t.depth
                   ELSE IF t.may_block THEN DELEGATED_TLS_WORKERS_PER_CORE ELSE 1
    IN  [workers |-> workers, may_block |-> t.may_block,
         handshakes |-> IF t.may_block
                        THEN Least(workers - 1, DELEGATED_TLS_HANDSHAKES_PER_CORE)
                        ELSE Unbounded]

\* The fleet's target is shared out rounded up, an explicit ceiling wins.
derived_per_core_ceiling ==
    IF max_in_flight_requests # Unbounded THEN max_in_flight_requests
    ELSE IF max_in_flight_total = Unbounded THEN Unbounded
    ELSE IF max_in_flight_total = 0 THEN 1
    ELSE (max_in_flight_total + cores - 1) \div cores

ceiling == max_body_bytes * BUFFERED_BODY_BUDGET_MULTIPLE

Fresh == [pc |-> "none", conn |-> "none", held |-> 0, got |-> 0, frame |-> 0, seen |-> 0,
          replies |-> FALSE, late |-> FALSE]

CoreInit ==
    /\ \E t \in Topologies : /\ ~ (t.may_block /\ stated_single_thread(t))
                             /\ pool = for_core(t)
    /\ loop = "check" /\ shutdown = FALSE
    /\ conn = [c \in Conns |-> "none"]
    /\ request = [r \in Requests |-> Fresh]
    /\ connections = max_concurrent_connections
    /\ handshakes = pool.handshakes
    /\ in_flight = derived_per_core_ceiling
    /\ in_flight_requests = 0 /\ charged = 0
    /\ drained = "no" /\ cut = [r \in Requests |-> "none"]

Take(n) == IF n = Unbounded THEN n ELSE n - 1
Give(n) == IF n = Unbounded THEN n ELSE n + 1
Free(n) == n # Unbounded => n > 0

----------------------------------------------------------------------------
(* serve: the accept loop *)

requests == <<request, in_flight, in_flight_requests, charged>>

Shutdown ==
    /\ ~ shutdown /\ shutdown' = TRUE
    /\ UNCHANGED <<pool, loop, conn, requests, connections, handshakes, drained, cut>>

\* The flag is looked at before each accept, not after it.
Check ==
    /\ loop = "check"
    /\ loop' = IF shutdown THEN "drain" ELSE "accept"
    /\ UNCHANGED <<pool, shutdown, conn, requests, connections, handshakes, drained, cut>>

AcceptIdle ==
    /\ loop = "accept" /\ loop' = "check"
    /\ UNCHANGED <<pool, shutdown, conn, requests, connections, handshakes, drained, cut>>

\* At saturation the connection is dropped, never queued.
Accept(c) ==
    /\ loop = "accept" /\ conn[c] = "none"
    /\ loop' = "check"
    /\ \/ /\ connections > 0 /\ connections' = connections - 1
          /\ conn' = [conn EXCEPT ![c] = "wait"]
       \/ /\ connections = 0 /\ UNCHANGED connections
          /\ conn' = [conn EXCEPT ![c] = "gone"]
    /\ UNCHANGED <<pool, shutdown, requests, handshakes, drained, cut>>

----------------------------------------------------------------------------
(* serve_connection *)

connLeaves == <<pool, loop, shutdown, requests, drained, cut>>

Closed(c) == conn' = [conn EXCEPT ![c] = "gone"] /\ connections' = connections + 1

\* The handshake permit; it is kept until accept has returned.
AcquireHandshake(c) ==
    /\ conn[c] = "wait" /\ Free(handshakes)
    /\ handshakes' = Take(handshakes)
    /\ conn' = [conn EXCEPT ![c] = "tls"]
    /\ UNCHANGED <<connections, connLeaves>>

\* The deadline passes while the connection waits for its permit.
WaitExpires(c) ==
    /\ conn[c] = "wait" /\ Closed(c)
    /\ UNCHANGED <<handshakes, connLeaves>>

\* The delegated signature blocks the worker that polls this handshake.
Sign(c) ==
    /\ conn[c] = "tls" /\ pool.may_block
    /\ Cardinality({d \in Conns : conn[d] = "sign"}) < pool.workers
    /\ conn' = [conn EXCEPT ![c] = "sign"]
    /\ UNCHANGED <<connections, handshakes, connLeaves>>

TlsDone(c) ==
    /\ conn[c] = (IF pool.may_block THEN "sign" ELSE "tls")
    /\ handshakes' = Give(handshakes)
    /\ conn' = [conn EXCEPT ![c] = "open"]
    /\ UNCHANGED <<connections, connLeaves>>

\* accept fails, or its deadline passes.
TlsFails(c) ==
    /\ conn[c] \in {"tls", "sign"}
    /\ handshakes' = Give(handshakes)
    /\ Closed(c)
    /\ UNCHANGED connLeaves

\* The age bound: no new request is taken, those in flight finish.
Age(c) ==
    /\ conn[c] = "open"
    /\ conn' = [conn EXCEPT ![c] = "closing"]
    /\ UNCHANGED <<connections, handshakes, connLeaves>>

Live(r) == request[r].pc \notin {"none", "done"}

ConnEnds(c) ==
    /\ conn[c] \in {"open", "closing"}
    /\ \A r \in Requests : request[r].conn = c => ~ Live(r)
    /\ Closed(c)
    /\ UNCHANGED <<handshakes, connLeaves>>

----------------------------------------------------------------------------
(* handle_request *)

reqLeaves == <<pool, loop, shutdown, conn, connections, handshakes, drained, cut>>

Goes(r, pc) == request' = [request EXCEPT ![r].pc = pc]

\* The in-flight permit is asked for first; without one the answer is 503.
Arrive(r, c) ==
    /\ request[r].pc = "none" /\ conn[c] = "open"
    /\ request' = [request EXCEPT ![r].conn = c,
                     ![r].pc = IF Free(in_flight) THEN "permit" ELSE "done"]
    /\ in_flight' = IF Free(in_flight) THEN Take(in_flight) ELSE in_flight
    /\ UNCHANGED <<in_flight_requests, charged, reqLeaves>>

\* InFlightGuard::new
Count(r) ==
    /\ request[r].pc = "permit"
    /\ in_flight_requests' = in_flight_requests + 1
    /\ request' = [request EXCEPT ![r].pc = "view", ![r].late = (loop = "stop")]
    /\ UNCHANGED <<in_flight, charged, reqLeaves>>

\* request_view: a refused head is answered 400, another goes on to its body.
View(r) ==
    /\ request[r].pc = "view"
    /\ \/ request' = [request EXCEPT ![r].pc = "uncount", ![r].replies = TRUE]
       \/ Goes(r, "body")
    /\ UNCHANGED <<in_flight, in_flight_requests, charged, reqLeaves>>

\* collect_body: a frame of n bytes.  Past max_body_bytes the read fails; else
\* charge loads the counter.
Frame(r, n) ==
    /\ request[r].pc = "body"
    /\ request' = [request EXCEPT ![r] =
         IF request[r].got + n > max_body_bytes
         THEN [@ EXCEPT !.pc = "uncharge", !.replies = TRUE]
         ELSE [@ EXCEPT !.pc = "charge", !.frame = n, !.seen = charged]]
    /\ UNCHANGED <<in_flight, in_flight_requests, charged, reqLeaves>>

BudgetExhausted(r) ==
    /\ request[r].pc = "charge" /\ request[r].seen + request[r].frame > ceiling
    /\ request' = [request EXCEPT ![r].pc = "uncharge", ![r].replies = TRUE,
                                  ![r].frame = 0, ![r].seen = 0]
    /\ UNCHANGED <<in_flight, in_flight_requests, charged, reqLeaves>>

\* The exchange found another value: once more from what it saw.
ChargeRaced(r) ==
    /\ request[r].pc = "charge" /\ request[r].seen + request[r].frame <= ceiling
    /\ charged # request[r].seen
    /\ request' = [request EXCEPT ![r].seen = charged]
    /\ UNCHANGED <<in_flight, in_flight_requests, charged, reqLeaves>>

Charge_blind(r) ==
    /\ request[r].pc = "charge" /\ request[r].seen + request[r].frame <= ceiling
    /\ charged' = request[r].seen + request[r].frame
    /\ request' = [request EXCEPT ![r].pc = "body", ![r].held = @ + request[r].frame,
                     ![r].got = @ + request[r].frame, ![r].frame = 0, ![r].seen = 0]
    /\ UNCHANGED <<in_flight, in_flight_requests, reqLeaves>>

\* The exchange succeeds, the guard absorbs the new charge, the bytes are kept.
Charge(r) ==
    /\ request[r].pc = "charge" /\ request[r].seen + request[r].frame <= ceiling
    /\ charged = request[r].seen
    /\ charged' = charged + request[r].frame
    /\ request' = [request EXCEPT ![r].pc = "body", ![r].held = @ + request[r].frame,
                     ![r].got = @ + request[r].frame, ![r].frame = 0, ![r].seen = 0]
    /\ UNCHANGED <<in_flight, in_flight_requests, reqLeaves>>

\* The body fails or its deadline passes: 413, the charge dropped with the read.
BodyFails(r) ==
    /\ request[r].pc = "body"
    /\ request' = [request EXCEPT ![r].pc = "uncharge", ![r].replies = TRUE]
    /\ UNCHANGED <<in_flight, in_flight_requests, charged, reqLeaves>>

BodyRead(r) ==
    /\ request[r].pc = "body" /\ Goes(r, "handler")
    /\ UNCHANGED <<in_flight, in_flight_requests, charged, reqLeaves>>

\* The handler's answer, or the 403 of the peer and routing-header checks.
Handled(r) ==
    /\ request[r].pc = "handler"
    /\ request' = [request EXCEPT ![r].pc = "uncharge", ![r].replies = TRUE]
    /\ UNCHANGED <<in_flight, in_flight_requests, charged, reqLeaves>>

\* The peer goes away or resets the stream: the future is dropped where it awaits.
Cancel(r) ==
    /\ request[r].pc \in {"body", "handler"}
    /\ Goes(r, "uncharge")
    /\ UNCHANGED <<in_flight, in_flight_requests, charged, reqLeaves>>

\* The guards go in the reverse of the order in which they were taken.
Uncharge(r) ==
    /\ request[r].pc = "uncharge"
    /\ charged' = charged - request[r].held
    /\ request' = [request EXCEPT ![r].pc = "uncount", ![r].held = 0, ![r].got = 0]
    /\ UNCHANGED <<in_flight, in_flight_requests, reqLeaves>>

Uncount(r) ==
    /\ request[r].pc = "uncount"
    /\ in_flight_requests' = in_flight_requests - 1
    /\ Goes(r, "unpermit")
    /\ UNCHANGED <<in_flight, charged, reqLeaves>>

Unpermit(r) ==
    /\ request[r].pc = "unpermit"
    /\ in_flight' = Give(in_flight)
    /\ Goes(r, IF request[r].replies THEN "writing" ELSE "done")
    /\ UNCHANGED <<in_flight_requests, charged, reqLeaves>>

\* hyper has the response and writes it to the peer.
Written(r) ==
    /\ request[r].pc = "writing" /\ Goes(r, "done")
    /\ UNCHANGED <<in_flight, in_flight_requests, charged, reqLeaves>>

----------------------------------------------------------------------------
(* drain, and the end of the runtime *)

DrainZero_early ==
    /\ loop = "drain" /\ in_flight_requests <= 1
    /\ loop' = "stop" /\ drained' = "zero"
    /\ UNCHANGED <<pool, shutdown, conn, requests, connections, handshakes, cut>>

DrainZero ==
    /\ loop = "drain" /\ in_flight_requests = 0
    /\ loop' = "stop" /\ drained' = "zero"
    /\ UNCHANGED <<pool, shutdown, conn, requests, connections, handshakes, cut>>

DrainExpires_idle ==
    /\ loop = "drain" /\ in_flight_requests = 0 /\ loop' = "stop" /\ drained' = "grace"
    /\ UNCHANGED <<pool, shutdown, conn, requests, connections, handshakes, cut>>

\* The grace is over, or too long to be an instant.
DrainExpires ==
    /\ loop = "drain" /\ loop' = "stop" /\ drained' = "grace"
    /\ UNCHANGED <<pool, shutdown, conn, requests, connections, handshakes, cut>>

\* serve has returned: dropping the runtime aborts every task.
Cut ==
    /\ loop = "stop" /\ loop' = "cut"
    /\ cut' = [r \in Requests |-> IF Live(r) THEN request[r].pc ELSE "none"]
    /\ conn' = [c \in Conns |-> "gone"]
    /\ request' = [r \in Requests |-> [Fresh EXCEPT !.pc = "done", !.late = request[r].late]]
    /\ connections' = max_concurrent_connections /\ handshakes' = pool.handshakes
    /\ in_flight' = derived_per_core_ceiling /\ in_flight_requests' = 0 /\ charged' = 0
    /\ UNCHANGED <<pool, shutdown, drained>>

Loop == Check \/ AcceptIdle \/ (\E c \in Conns : Accept(c)) \/ DrainZero \/ DrainExpires \/ Cut

CoreNext ==
    \/ Shutdown \/ Loop
    \/ \E c \in Conns : \/ AcquireHandshake(c) \/ WaitExpires(c) \/ Sign(c) \/ TlsDone(c)
                        \/ TlsFails(c) \/ Age(c) \/ ConnEnds(c)
    \/ \E r \in Requests :
         \/ \E c \in Conns : Arrive(r, c)
         \/ \E n \in 1 .. max_body_bytes : Frame(r, n)
         \/ Count(r) \/ View(r) \/ BudgetExhausted(r) \/ ChargeRaced(r) \/ Charge(r)
         \/ BodyFails(r) \/ BodyRead(r) \/ Handled(r) \/ Cancel(r)
         \/ Uncharge(r) \/ Uncount(r) \/ Unpermit(r) \/ Written(r)

CoreSpec == CoreInit /\ [][CoreNext]_coreVars

----------------------------------------------------------------------------
(* What a core promises *)

Counts == {"permit", "view", "body", "charge", "handler", "uncharge", "uncount", "unpermit"}

CoreTypeOK ==
    /\ pool.workers \in Nat \ {0} /\ pool.may_block \in BOOLEAN
    /\ loop \in {"check", "accept", "drain", "stop", "cut"} /\ shutdown \in BOOLEAN
    /\ \A c \in DOMAIN conn :
         conn[c] \in {"none", "wait", "tls", "sign", "open", "closing", "gone"}
    /\ \A r \in DOMAIN request :
         /\ request[r].pc \in Counts \cup {"none", "writing", "done"}
         /\ request[r].held \in 0 .. max_body_bytes
         /\ request[r].conn \in DOMAIN conn \cup {"none"}
    /\ connections \in 0 .. max_concurrent_connections
    /\ in_flight = Unbounded \/ in_flight \in 0 .. derived_per_core_ceiling
    /\ handshakes = Unbounded \/ handshakes \in 0 .. pool.handshakes
    /\ in_flight_requests \in 0 .. Cardinality(DOMAIN request)
    /\ charged \in 0 .. ceiling
    /\ drained \in {"no", "zero", "grace"}

\* The buffered bytes that are charged: those of each request.
Bytes == {b \in (DOMAIN request) \X (1 .. max_body_bytes) : b[2] <= request[b[1]].held}

In(pcs) == {r \in DOMAIN request : request[r].pc \in pcs}

\* No bound leaks and none is given back twice: what each counter says is taken
\* is what the live connections and requests hold, on every path out -- refused,
\* timed out, reset by the peer, or served.
NothingLeaks ==
    /\ connections = max_concurrent_connections
         - Cardinality({c \in DOMAIN conn : conn[c] \in {"wait", "tls", "sign", "open", "closing"}})
    /\ handshakes # Unbounded =>
         handshakes = pool.handshakes - Cardinality({c \in DOMAIN conn : conn[c] \in {"tls", "sign"}})
    /\ in_flight # Unbounded => in_flight = derived_per_core_ceiling - Cardinality(In(Counts))
    /\ in_flight_requests = Cardinality(In(Counts \ {"permit", "unpermit"}))
    /\ charged = Cardinality(Bytes)

\* However many peers open connections, a blocking handshake signature never
\* takes the core's last worker: the accept loop and the requests keep one.
WorkerLeft ==
    pool.may_block => Cardinality({c \in DOMAIN conn : conn[c] = "sign"}) < pool.workers

\* A drain that saw the count at zero cuts no request that was being served then:
\* what the end of the runtime finds had not been counted, was counted later, or
\* was already answered.  The exemption is the code's: its drain starts when no
\* connection is accepted any more, and a connection that is open may still begin
\* a request.
CleanDrain ==
    drained = "zero" =>
      \A r \in DOMAIN request : \/ cut[r] \in {"none", "permit", "unpermit", "writing"}
                                \/ request[r].late

\* No bound of a core leaks and none is given back twice on any path out of a
\* connection or a request (InFlightGuard, BodyByteBudget, permits); a drain that saw
\* zero cuts no request that was being served then; and handshake signatures never
\* take a core's last worker (for_core).
CoreBoundsKept == CoreTypeOK /\ NothingLeaks /\ WorkerLeft /\ CleanDrain

\* A core asked to stop does, whatever its connections and requests do.
Stops == shutdown ~> loop = "cut"
=============================================================================
