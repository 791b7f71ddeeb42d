--------------------------- MODULE RuntimeTeardown ---------------------------
(***************************************************************************)
(* A deployment's runtime from validation to its end: the resources are    *)
(* built one after another and any of them may fail, the fleet serves and  *)
(* drains, the security planes drop, then the proxy and the control        *)
(* runtime.  Each plane owns worker threads that loop until they see a     *)
(* halt; reclaiming them, and the evidence writer, is bounded.  A fleet    *)
(* that fails to start at a later core leaves the earlier ones serving.    *)
(***************************************************************************)
EXTENDS Integers, Sequences, FiniteSets

CONSTANTS
    Workers,        \* the worker threads this deployment starts
    PlaneOf,        \* worker -> "trust", "signing" or "tls"
    Stuck,          \* workers whose blocking call may never return
    Reloads,        \* the trust reload worker, in a set
    Reservation,    \* a reservation may keep the evidence queue open
    Control,        \* whether a control runtime is required
    MaxResets       \* bound: how often the caller clears its shutdown flag

ASSUME TeardownAssumption ==
    /\ PlaneOf \in [Workers -> {"trust", "signing", "tls"}]
    /\ Stuck \subseteq Workers /\ Reloads \subseteq Workers
    /\ Reservation \in BOOLEAN /\ Control \in BOOLEAN /\ MaxResets \in Nat

VARIABLES
    main,          \* the thread of `run`
    state,         \* RuntimeLifecycle::state
    up,            \* the resources owned
    fleet,         \* the cores: "none", "serving", "draining", "joined", or,
                   \* of a start that failed halfway, "stranded", "stopped"
    deployment,    \* the caller's shutdown flag
    owner, latched,\* plane -> the two flags its workers' Halt reads beside it
    worker,        \* worker -> where it is
    handle,        \* worker -> "none", "owned", "joined", "detached"
    writer,        \* the evidence writer: "none", "running", "finished", "detached"
    sender,        \* who still holds the evidence queue open
    stale,         \* trust resolution fails closed
    arrival,       \* a request: "none", "accepted", "served", "refused", "cut"
    resets,
    seen,          \* plane -> one of its workers was told to halt
    must           \* worker -> the answer its current question must get

vars == <<main, state, up, fleet, deployment, owner, latched, worker, handle, writer, sender,
          stale, arrival, resets, seen, must>>

Planes == {"trust", "signing", "tls"}
----------------------------------------------------------------------------
(* RuntimeLifecycle *)

Legal ==
    {<<"Configured", "ValidationSucceeded", "Validated">>,
     <<"Validated", "PlanBuilt", "Planned">>,
     <<"Planned", "MaterializationStarted", "Materializing">>,
     <<"Materializing", "MaterializationSucceeded", "Materialized">>,
     <<"Materializing", "MaterializationFailed", "FailedToStart">>,
     <<"Materialized", "ServingStarted", "Serving">>,
     <<"Serving", "ShutdownRequested", "Draining">>,
     <<"Draining", "FleetDrained", "Transitioning">>,
     <<"Transitioning", "SecurityTransitionCompleted", "Reclaiming">>,
     <<"Reclaiming", "ResourceReclaimCompleted", "Stopped">>}

\* transition: an event the state has no entry for is an error.
transition(s, event) ==
    IF \E t \in Legal : t[1] = s /\ t[2] = event
    THEN (CHOOSE t \in Legal : t[1] = s /\ t[2] = event)[3]
    ELSE "InvalidTransition"

serving_events_always(s, bound) ==
    transition(transition(transition(s, "ServingStarted"), "ShutdownRequested"), "FleetDrained")

\* serving_events: only a fleet that was started and joined justifies them.
serving_events(s, bound) ==
    IF bound
    THEN transition(transition(transition(s, "ServingStarted"), "ShutdownRequested"),
                    "FleetDrained")
    ELSE s

----------------------------------------------------------------------------

Init ==
    /\ main = "trust"
    /\ state = transition(transition(transition("Configured", "ValidationSucceeded"),
                                     "PlanBuilt"), "MaterializationStarted")
    /\ up = {} /\ fleet = "none" /\ deployment = FALSE
    /\ owner = [p \in Planes |-> FALSE] /\ latched = [p \in Planes |-> FALSE]
    /\ worker = [w \in Workers |-> "none"] /\ handle = [w \in Workers |-> "none"]
    /\ writer = "none" /\ sender = {}
    /\ stale = FALSE /\ arrival = "none" /\ resets = 0
    /\ seen = [p \in Planes |-> FALSE] /\ must = [w \in Workers |-> FALSE]

----------------------------------------------------------------------------
(* Materialization: trust, control, TLS, signing, proxy *)

After == [trust |-> "control", control |-> "tls", tls |-> "signing", signing |-> "proxy",
          proxy |-> "finish"]

serving == <<fleet, deployment, owner, latched, stale, arrival, resets, seen, must>>

\* A plane is installed with its workers already running.
Install(r) ==
    /\ main = r /\ main' = After[r]
    /\ up' = IF r = "control" /\ ~ Control THEN up ELSE up \cup {r}
    /\ worker' = [w \in Workers |-> IF PlaneOf[w] = r THEN "sleep" ELSE worker[w]]
    /\ handle' = [w \in Workers |-> IF PlaneOf[w] = r THEN "owned" ELSE handle[w]]
    /\ writer' = IF r = "proxy" THEN "running" ELSE writer
    /\ sender' = IF r = "proxy" THEN {"store"} ELSE sender
    /\ UNCHANGED <<state, serving>>

\* A build that fails returns, and the accumulator's drop takes down what there is.
Fails ==
    /\ main \in DOMAIN After
    /\ main' = "down_trust"
    /\ UNCHANGED <<state, up, worker, handle, writer, sender, serving>>

Finish ==
    /\ main = "finish" /\ main' = "serve"
    /\ state' = transition(state, "MaterializationSucceeded")
    /\ UNCHANGED <<up, worker, handle, writer, sender, serving>>

----------------------------------------------------------------------------
(* Serving *)

resources == <<up, worker, handle, writer, owner, latched, seen, must>>

StartFleet ==
    /\ main = "serve" /\ main' = "wait" /\ fleet' = "serving"
    /\ UNCHANGED <<state, deployment, resources, sender, stale, arrival, resets>>

\* The fleet fails before a core runs: the pool is refused, a listener does not
\* bind, or core 0 cannot be built.  The lifecycle is told nothing.
BindFails ==
    /\ main = "serve" /\ main' = "down_trust"
    /\ state' = serving_events(state, FALSE)
    /\ UNCHANGED <<fleet, deployment, resources, sender, stale, arrival, resets>>

FleetFailsPartly_told ==
    /\ main = "serve" /\ main' = "down_trust"
    /\ state' = serving_events(state, TRUE) /\ fleet' = "stranded"
    /\ UNCHANGED <<deployment, resources, sender, stale, arrival, resets>>

\* A later core cannot be built or spawned: the `?` drops the handles of those
\* that already serve, and raises no flag for them.
FleetFailsPartly ==
    /\ main = "serve" /\ main' = "down_trust"
    /\ state' = serving_events(state, FALSE) /\ fleet' = "stranded"
    /\ UNCHANGED <<deployment, resources, sender, stale, arrival, resets>>

Signal ==
    /\ ~ deployment /\ resets < MaxResets + 1 /\ main # "end"
    /\ deployment' = TRUE /\ resets' = resets + 1
    /\ UNCHANGED <<main, state, fleet, resources, sender, stale, arrival>>

\* The flag is the caller's; nothing stops it from clearing it.
CallerClears ==
    /\ deployment /\ resets <= MaxResets /\ resets > 0
    /\ deployment' = FALSE
    /\ UNCHANGED <<main, state, fleet, resources, sender, stale, arrival, resets>>

\* The fleet has cores that serve.
Accepting == {"serving", "draining", "stranded"}

\* A connection's request, also on a keep-alive connection while the fleet drains.
AcceptRequest ==
    /\ fleet \in Accepting /\ arrival = "none"
    /\ arrival' = "accepted"
    /\ sender' = IF Reservation THEN sender \cup {"reservation"} ELSE sender
    /\ UNCHANGED <<main, state, fleet, deployment, resources, stale, resets>>

\* The request is verified against the trust plane and answered.
Verify ==
    /\ arrival = "accepted" /\ fleet \in Accepting
    /\ arrival' = IF stale THEN "refused" ELSE "served"
    /\ UNCHANGED <<main, state, fleet, deployment, resources, sender, stale, resets>>

\* serve_fleet polls the flag, then raises it for the cores.
NoticeShutdown ==
    /\ main = "wait" /\ deployment
    /\ main' = "join" /\ fleet' = "draining" /\ deployment' = TRUE
    /\ UNCHANGED <<state, resources, sender, stale, arrival, resets>>

\* The drain ended, by its count or its grace, and the cores are joined.
Join ==
    /\ main = "join"
    /\ main' = "down_trust" /\ fleet' = "joined"
    /\ arrival' = IF arrival = "accepted" THEN "cut" ELSE arrival
    /\ state' = serving_events(state, TRUE)
    /\ UNCHANGED <<deployment, resources, sender, stale, resets>>

\* Stranded cores see the caller's flag, if it is ever raised; the last of them
\* lets go of the proxy, which run may have dropped before.
StrandedStop ==
    /\ fleet = "stranded" /\ deployment /\ fleet' = "stopped"
    /\ arrival' = IF arrival = "accepted" THEN "cut" ELSE arrival
    /\ sender' = IF "proxy" \in up THEN sender ELSE sender \ {"store"}
    /\ UNCHANGED <<main, state, deployment, resources, stale, resets>>

----------------------------------------------------------------------------
(* Teardown: transition and reclaim, or reclaim_partial *)

NextDown_mixed == [down_trust |-> "down_signing", down_signing |-> "down_tls",
             down_tls |-> "down_control", down_control |-> "down_proxy", down_proxy |-> "finished"]

\* The planes first, then the proxy, and last the runtime its clients are bound to.
NextDown == [down_trust |-> "down_signing", down_signing |-> "down_tls",
             down_tls |-> "down_proxy", down_proxy |-> "down_control",
             down_control |-> "finished"]

Down == [trust |-> "down_trust", signing |-> "down_signing", tls |-> "down_tls",
         proxy |-> "down_proxy", control |-> "down_control"]
Joining == [trust |-> "join_trust", signing |-> "join_signing", tls |-> "join_tls"]

Owned(p) == {w \in Workers : PlaneOf[w] = p /\ handle[w] = "owned"}

\* Dropping the trust plane makes resolution fail closed; halt_and_reclaim
\* raises the owner's flag unless there is nothing to reclaim.
DropPlane_unhalted(p) ==
    /\ main = Down[p] /\ p \in up
    /\ up' = up \ {p}
    /\ stale' = (stale \/ p = "trust")
    /\ main' = IF Owned(p) = {} THEN NextDown[main] ELSE Joining[p]
    /\ UNCHANGED <<state, fleet, deployment, owner, latched, worker, handle, writer, sender,
                   arrival, resets, seen, must>>

DropPlane(p) ==
    /\ main = Down[p] /\ p \in up
    /\ up' = up \ {p}
    /\ stale' = (stale \/ p = "trust")
    /\ owner' = IF Owned(p) = {} THEN owner ELSE [owner EXCEPT ![p] = TRUE]
    /\ main' = IF Owned(p) = {} THEN NextDown[main] ELSE Joining[p]
    /\ UNCHANGED <<state, fleet, deployment, latched, worker, handle, writer, sender,
                   arrival, resets, seen, must>>

\* A resource that was never built is passed over.
SkipDown(r) ==
    /\ main = Down[r] /\ r \notin up
    /\ main' = NextDown[main]
    /\ UNCHANGED <<state, up, worker, handle, writer, sender, serving>>

Exited(w) == worker[w] = "exited"

\* Every worker of the plane is joined, or the budget is spent and the ones
\* still running are let go.
Reclaim(p) ==
    /\ main = Joining[p]
    /\ handle' = [w \in Workers |->
         IF w \notin Owned(p) THEN handle[w] ELSE IF Exited(w) THEN "joined" ELSE "detached"]
    /\ main' = NextDown[Down[p]]
    /\ UNCHANGED <<state, up, worker, writer, sender, serving>>

Transitioned_always(s) == transition(s, "SecurityTransitionCompleted")

\* The lifecycle event of a finished security transition, on the served path only.
Transitioned(s) ==
    IF s = "Transitioning" THEN transition(s, "SecurityTransitionCompleted") ELSE s

\* The proxy's drop closes the store's sender, then waits for the writer; while
\* stranded cores share the proxy it is not dropped, and run goes on.
DropProxy ==
    /\ main = "down_proxy" /\ "proxy" \in up
    /\ up' = up \ {"proxy"}
    /\ state' = Transitioned(state)
    /\ \/ /\ fleet = "stranded"
          /\ main' = NextDown["down_proxy"] /\ UNCHANGED sender
       \/ /\ fleet # "stranded"
          /\ main' = "join_writer" /\ sender' = sender \ {"store"}
    /\ UNCHANGED <<worker, handle, writer, serving>>

ReclaimWriter_unbounded ==
    /\ main = "join_writer" /\ writer = "finished"
    /\ main' = NextDown["down_proxy"]
    /\ UNCHANGED <<state, up, worker, handle, writer, sender, serving>>

\* Joined when it has finished, left running when the budget is spent.
ReclaimWriter ==
    /\ main = "join_writer"
    /\ main' = NextDown["down_proxy"]
    /\ writer' = IF writer = "finished" THEN writer ELSE "detached"
    /\ UNCHANGED <<state, up, worker, handle, sender, serving>>

\* The task that holds the reservation lets go of it.
ReservationEnds ==
    /\ "reservation" \in sender
    /\ sender' = sender \ {"reservation"}
    /\ UNCHANGED <<main, state, up, worker, handle, writer, serving>>

WriterFinishes ==
    /\ writer \in {"running", "detached"} /\ sender = {}
    /\ writer' = "finished"
    /\ UNCHANGED <<main, state, up, worker, handle, sender, serving>>

DropControl ==
    /\ main = "down_control" /\ "control" \in up
    /\ up' = up \ {"control"}
    /\ main' = NextDown["down_control"]
    /\ UNCHANGED <<state, worker, handle, writer, sender, serving>>

\* run returns.
Finished ==
    /\ main = "finished" /\ main' = "end"
    /\ state' = CASE state = "Reclaiming" -> transition(state, "ResourceReclaimCompleted")
                  [] state = "Materializing" -> transition(state, "MaterializationFailed")
                  [] OTHER -> state
    /\ UNCHANGED <<up, worker, handle, writer, sender, serving>>

----------------------------------------------------------------------------
(* A worker: Halt::sleep, Halt::requested, its cycle *)

mainOnly == <<main, state, up, fleet, deployment, owner, handle, writer, sender, arrival,
              resets>>

Asks(w) ==
    /\ worker[w] = "sleep"
    /\ worker' = [worker EXCEPT ![w] = "latch?"]
    /\ must' = [must EXCEPT ![w] = seen[PlaneOf[w]] \/ owner[PlaneOf[w]]]
    /\ UNCHANGED <<latched, stale, seen, mainOnly>>

\* The answer yes.  The trust reload worker leaves resolution failing closed.
Halts(w) ==
    /\ worker' = [worker EXCEPT ![w] = "exited"]
    /\ seen' = [seen EXCEPT ![PlaneOf[w]] = TRUE]
    /\ stale' = (stale \/ w \in Reloads)
    /\ must' = [must EXCEPT ![w] = FALSE]

ReadLatch(w) ==
    /\ worker[w] = "latch?"
    /\ \/ latched[PlaneOf[w]] /\ Halts(w)
       \/ /\ ~ latched[PlaneOf[w]]
          /\ worker' = [worker EXCEPT ![w] = "flags?"] /\ UNCHANGED <<stale, seen, must>>
    /\ UNCHANGED <<latched, mainOnly>>

ReadFlags(w) ==
    /\ worker[w] = "flags?"
    /\ worker' = [worker EXCEPT ![w] =
                    IF deployment \/ owner[PlaneOf[w]] THEN "latching" ELSE "work"]
    /\ UNCHANGED <<latched, stale, seen, must, mainOnly>>

Latch_skipped(w) ==
    /\ worker[w] = "latching" /\ Halts(w)
    /\ UNCHANGED <<latched, mainOnly>>

Latch(w) ==
    /\ worker[w] = "latching"
    /\ latched' = [latched EXCEPT ![PlaneOf[w]] = TRUE]
    /\ Halts(w)
    /\ UNCHANGED mainOnly

\* One reload, poll or rotation.
Cycle(w) ==
    /\ worker[w] = "work"
    /\ worker' = [worker EXCEPT ![w] = "sleep"]
    /\ must' = [must EXCEPT ![w] = FALSE]
    /\ UNCHANGED <<latched, stale, seen, mainOnly>>

Main ==
    \/ \E r \in DOMAIN After : Install(r)
    \/ Fails \/ Finish \/ StartFleet \/ BindFails \/ FleetFailsPartly
    \/ NoticeShutdown \/ Join
    \/ \E p \in Planes : DropPlane(p) \/ Reclaim(p)
    \/ \E r \in DOMAIN Down : SkipDown(r)
    \/ DropProxy \/ ReclaimWriter \/ DropControl \/ Finished

Step(w) == Asks(w) \/ ReadLatch(w) \/ ReadFlags(w) \/ Latch(w)

Next ==
    \/ Main \/ Signal \/ CallerClears \/ AcceptRequest \/ Verify \/ StrandedStop
    \/ ReservationEnds \/ WriterFinishes
    \/ \E w \in Workers : Step(w) \/ Cycle(w)

Spec == Init /\ [][Next]_vars

----------------------------------------------------------------------------
(* What the runtime promises *)

TypeOK ==
    /\ state \in {t[3] : t \in Legal}
    /\ up \subseteq DOMAIN Down
    /\ fleet \in {"none", "serving", "draining", "joined", "stranded", "stopped"}
    /\ \A w \in DOMAIN worker :
         /\ worker[w] \in {"none", "sleep", "latch?", "flags?", "latching", "work", "exited"}
         /\ handle[w] \in {"none", "owned", "joined", "detached"}
    /\ writer \in {"none", "running", "finished", "detached"}
    /\ sender \subseteq {"store", "reservation"}
    /\ arrival \in {"none", "accepted", "served", "refused", "cut"}

\* Of a fleet that was started, nothing is taken down while it serves or drains,
\* and the control runtime outlives run's hold on the proxy; the cores of one that
\* was not, which outlive their planes, find resolution failing closed.
DrainBeforeTransition ==
    /\ fleet \in {"serving", "draining"} => Planes \cup {"proxy"} \subseteq up
    /\ Control /\ "proxy" \in up => "control" \in up
    /\ fleet = "stranded" /\ "trust" \notin up => stale

\* The lifecycle never claims more than happened: stopped means served, drained
\* and reclaimed; failed to start means nothing is left; a fleet that did not
\* start, in whole or in part, is neither.
LifecycleHonest ==
    /\ state = "Stopped" => fleet = "joined" /\ up = {}
    /\ state \in {"Transitioning", "Reclaiming"} => fleet = "joined"
    /\ state = "FailedToStart" => up = {} /\ fleet = "none"
    /\ state = "Reclaiming" => Planes \cap up = {}

\* A halt is for good: a question asked after a worker of the set was told to
\* stop, or after the set's owner asked, is never answered no, although the
\* caller may clear the deployment's flag.
HaltSticks == \A w \in DOMAIN worker : worker[w] = "work" => ~ must[w]

\* No worker of a plane outlives run unaccounted for: each was joined, or was left
\* running by decision and with its halt raised.
NoOrphans ==
    main = "end" => \A w \in DOMAIN handle :
      /\ handle[w] # "owned"
      /\ handle[w] = "detached" => owner[PlaneOf[w]]

\* A deployment comes down in order: no plane of a started fleet is taken down before
\* the fleet has drained (resolution may fail closed by then: the reload worker halts
\* at the caller's flag), the cores of a start that failed halfway answer nothing once
\* their trust plane is gone, the lifecycle claims only what happened, a halt once
\* given is for good although the caller may clear its flag, and no worker of a plane
\* outlives run unaccounted for.  (MaterializedRuntime::drop, Halt::requested,
\* halt_and_reclaim)
ComesDownInOrder ==
    TypeOK /\ LifecycleHonest /\ HaltSticks /\ NoOrphans /\ DrainBeforeTransition

\* Teardown ends, however the startup went, with a worker stuck in a call and a
\* reservation that holds the evidence queue open.
TeardownEnds == (main = "down_trust" \/ (main = "wait" /\ deployment)) ~>
                   (main = "end" \/ (main = "wait" /\ ~ deployment))

\* What was left running stops by itself.
StragglersStop ==
    \A w \in Workers \ Stuck : (handle[w] = "detached") ~> Exited(w)
=============================================================================
