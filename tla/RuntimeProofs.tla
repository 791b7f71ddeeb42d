---------------------------- MODULE RuntimeProofs ----------------------------
(***************************************************************************)
(* A deployment comes down in order, for any number of worker threads on   *)
(* any of the planes, wherever its startup failed; a core of the serving   *)
(* fleet keeps its bounds; and the audit stream accounts for every record. *)
(***************************************************************************)
EXTENDS RuntimeTeardown, ServingCore, AuditStream, FiniteSetTheorems, TLAPS

(* The positions of the thread of `run`, in order. *)
Building == {"trust", "control", "tls", "signing", "proxy", "finish"}

Running == {"serve", "wait", "join"}

FromControl == {"down_control", "finished", "end"}

FromProxy == {"down_proxy", "join_writer"} \cup FromControl

FromTls == {"down_tls", "join_tls"} \cup FromProxy

FromSigning == {"down_signing", "join_signing"} \cup FromTls

FromTrust == {"down_trust", "join_trust"} \cup FromSigning

RuntimeType ==
  /\ main \in Building \cup Running \cup FromTrust
  /\ up \subseteq {"trust", "signing", "tls", "proxy", "control"}
  /\ owner \in [Planes -> BOOLEAN] /\ latched \in [Planes -> BOOLEAN]
  /\ worker \in [Workers -> {"none", "sleep", "latch?", "flags?", "latching", "work", "exited"}]
  /\ handle \in [Workers -> {"none", "owned", "joined", "detached"}]
  /\ writer \in {"none", "running", "finished", "detached"}
  /\ sender \subseteq {"store", "reservation"}
  /\ arrival \in {"none", "accepted", "served", "refused", "cut"}
  /\ seen \in [Planes -> BOOLEAN] /\ must \in [Workers -> BOOLEAN]
  /\ stale \in BOOLEAN

(* What is built, by the position of the build: each resource stands on    *)
(* the ones before it, and the proxy comes last.                           *)
BuiltInv ==
  /\ main \in {"control", "tls", "signing", "proxy", "finish"} \cup Running => "trust" \in up
  /\ main \in {"tls", "signing", "proxy", "finish"} \cup Running => (Control => "control" \in up)
  /\ main \in {"signing", "proxy", "finish"} \cup Running => "tls" \in up
  /\ main \in {"proxy", "finish"} \cup Running => "signing" \in up
  /\ main \in {"finish"} \cup Running => "proxy" \in up
  /\ main \in Building \ {"finish"} => "proxy" \notin up
  /\ Control /\ "proxy" \in up => "control" \in up

(* What is gone, by the position of the teardown. *)
GoneInv ==
  /\ main \in FromTrust \ {"down_trust"} => "trust" \notin up
  /\ main \in FromSigning \ {"down_signing"} => "signing" \notin up
  /\ main \in FromTls \ {"down_tls"} => "tls" \notin up
  /\ main \in FromProxy \ {"down_proxy"} => "proxy" \notin up
  /\ main \in FromControl \ {"down_control"} => "control" \notin up

(* The fleet, and what the lifecycle has been told of it. *)
StateInv ==
  /\ main \in Building => state = "Materializing" /\ fleet = "none"
  /\ main = "serve" => state = "Materialized" /\ fleet = "none"
  /\ main = "wait" => state = "Materialized" /\ fleet = "serving"
  /\ main = "join" => state = "Materialized" /\ fleet = "draining"
  /\ main \in FromTrust =>
       \/ fleet = "joined" /\ state \in {"Transitioning", "Reclaiming", "Stopped"}
       \/ fleet = "none" /\ state \in {"Materializing", "Materialized", "FailedToStart"}
       \/ fleet \in {"stranded", "stopped"} /\ state = "Materialized"
  /\ state = "Reclaiming" => main \in FromProxy \ {"down_proxy"}
  /\ state \in {"Stopped", "FailedToStart"} => main = "end"

(* Cores that were stranded lose their trust plane to a drop that leaves   *)
(* resolution failing closed.                                              *)
ClosedInv == fleet = "stranded" /\ "trust" \notin up => stale = TRUE

(* Who is to be joined: the plane stands, or it is being reclaimed and has *)
(* its halt raised.                                                        *)
HandleInv ==
  /\ \A p \in Planes : main = Joining[p] => owner[p] = TRUE
  /\ \A w \in Workers :
       /\ handle[w] = "owned" => PlaneOf[w] \in up \/ main = Joining[PlaneOf[w]]
       /\ handle[w] = "detached" => owner[PlaneOf[w]] = TRUE

(* Where the answer yes to a question comes from: the latch until it was   *)
(* read, the owner's flag after that.                                      *)
HaltInv ==
  /\ \A p \in Planes : seen[p] = TRUE => latched[p] = TRUE
  /\ \A w \in Workers :
       /\ worker[w] = "latch?" /\ must[w] = TRUE =>
            latched[PlaneOf[w]] = TRUE \/ owner[PlaneOf[w]] = TRUE
       /\ worker[w] = "flags?" /\ must[w] = TRUE => owner[PlaneOf[w]] = TRUE
       /\ worker[w] = "work" => must[w] = FALSE

RuntimeInv ==
  RuntimeType /\ BuiltInv /\ GoneInv /\ StateInv /\ ClosedInv /\ HandleInv /\ HaltInv

-----------------------------------------------------------------------------
(* The lifecycle's table is a function: an event has one outcome.          *)
LEMMA TransitionIs ==
  ASSUME NEW s, NEW e, NEW n, <<s, e, n>> \in Legal,
         \A t \in Legal : t[1] = s /\ t[2] = e => t[3] = n
  PROVE  transition(s, e) = n
<1>1. \E t \in Legal : t[1] = s /\ t[2] = e
  OBVIOUS
<1> DEFINE u == CHOOSE t \in Legal : t[1] = s /\ t[2] = e
<1>2. u \in Legal /\ u[1] = s /\ u[2] = e
  BY <1>1
<1> QED
  BY <1>1, <1>2 DEF transition

(* The table, entry by entry. *)
LEMMA Table ==
  /\ transition("Configured", "ValidationSucceeded") = "Validated"
  /\ transition("Validated", "PlanBuilt") = "Planned"
  /\ transition("Planned", "MaterializationStarted") = "Materializing"
  /\ transition("Materializing", "MaterializationSucceeded") = "Materialized"
  /\ transition("Materializing", "MaterializationFailed") = "FailedToStart"
  /\ transition("Materialized", "ServingStarted") = "Serving"
  /\ transition("Serving", "ShutdownRequested") = "Draining"
  /\ transition("Draining", "FleetDrained") = "Transitioning"
  /\ transition("Transitioning", "SecurityTransitionCompleted") = "Reclaiming"
  /\ transition("Reclaiming", "ResourceReclaimCompleted") = "Stopped"
<1>1. transition("Configured", "ValidationSucceeded") = "Validated"
  BY TransitionIs DEF Legal
<1>2. transition("Validated", "PlanBuilt") = "Planned"
  BY TransitionIs DEF Legal
<1>3. transition("Planned", "MaterializationStarted") = "Materializing"
  BY TransitionIs DEF Legal
<1>4. transition("Materializing", "MaterializationSucceeded") = "Materialized"
  BY TransitionIs DEF Legal
<1>5. transition("Materializing", "MaterializationFailed") = "FailedToStart"
  BY TransitionIs DEF Legal
<1>6. transition("Materialized", "ServingStarted") = "Serving"
  BY TransitionIs DEF Legal
<1>7. transition("Serving", "ShutdownRequested") = "Draining"
  BY TransitionIs DEF Legal
<1>8. transition("Draining", "FleetDrained") = "Transitioning"
  BY TransitionIs DEF Legal
<1>9. transition("Transitioning", "SecurityTransitionCompleted") = "Reclaiming"
  BY TransitionIs DEF Legal
<1>10. transition("Reclaiming", "ResourceReclaimCompleted") = "Stopped"
  BY TransitionIs DEF Legal
<1> QED
  BY <1>1, <1>2, <1>3, <1>4, <1>5, <1>6, <1>7, <1>8, <1>9, <1>10

(* What is told of a fleet that was joined, and of one that never bound. *)
LEMMA FleetTold ==
  /\ serving_events("Materialized", TRUE) = "Transitioning"
  /\ serving_events("Materialized", FALSE) = "Materialized"
BY Table DEF serving_events

(* The names of a worker's plane. *)
LEMMA PlaneTyped == \A w \in Workers : PlaneOf[w] \in Planes
BY TeardownAssumption DEF TeardownAssumption, Planes

-----------------------------------------------------------------------------
(* The invariant holds before anything is built. *)
LEMMA InitRuntimeInv == Init => RuntimeInv
<1> SUFFICES ASSUME Init PROVE RuntimeInv
  OBVIOUS
<1>1. state = "Materializing"
  BY Table DEF Init
<1>2. RuntimeType
  BY DEF Init, RuntimeType, Building
<1>3. BuiltInv /\ GoneInv /\ StateInv /\ ClosedInv
  BY <1>1 DEF Init, BuiltInv, GoneInv, StateInv, ClosedInv, Building, Running, FromTrust, FromSigning, FromTls,
     FromProxy, FromControl
<1>4. HandleInv
  BY PlaneTyped DEF Init, HandleInv, Joining, Planes
<1>5. HaltInv
  BY PlaneTyped DEF Init, HaltInv
<1> QED
  BY <1>2, <1>3, <1>4, <1>5 DEF RuntimeInv
-----------------------------------------------------------------------------
(* The tables that place the thread of `run`. *)
LEMMA MainPlaces ==
  /\ DOMAIN After = Building \ {"finish"}
  /\ After["trust"] = "control" /\ After["control"] = "tls" /\ After["tls"] = "signing"
  /\ After["signing"] = "proxy" /\ After["proxy"] = "finish"
  /\ DOMAIN Down = {"trust", "signing", "tls", "proxy", "control"}
  /\ Down["trust"] = "down_trust" /\ Down["signing"] = "down_signing" /\ Down["tls"] = "down_tls"
  /\ Down["proxy"] = "down_proxy" /\ Down["control"] = "down_control"
  /\ NextDown["down_trust"] = "down_signing" /\ NextDown["down_signing"] = "down_tls"
  /\ NextDown["down_tls"] = "down_proxy" /\ NextDown["down_proxy"] = "down_control"
  /\ NextDown["down_control"] = "finished"
  /\ Joining["trust"] = "join_trust" /\ Joining["signing"] = "join_signing"
  /\ Joining["tls"] = "join_tls"
BY DEF After, Down, NextDown, Joining, Building

(* No plane is being reclaimed. *)
LEMMA NotJoining ==
  ASSUME NEW m, m \notin {"join_trust", "join_signing", "join_tls"}
  PROVE  \A p \in Planes : m # Joining[p]
BY MainPlaces DEF Planes

(* A step of `run` outside the reclaims keeps the handles as they are due. *)
LEMMA HandleKept ==
  ASSUME HandleInv, up \subseteq up', main \notin {"join_trust", "join_signing", "join_tls"},
         main' \notin {"join_trust", "join_signing", "join_tls"}, UNCHANGED <<handle, owner>>
  PROVE  HandleInv'
BY NotJoining, PlaneTyped DEF HandleInv

(* The workers do not notice it. *)
LEMMA HaltKept ==
  ASSUME HaltInv, UNCHANGED <<owner, latched, worker, seen, must>>
  PROVE  HaltInv'
BY DEF HaltInv

(* The build of a resource. *)
LEMMA InstallStep == ASSUME RuntimeInv, NEW r \in DOMAIN After, Install(r) PROVE RuntimeInv'
<1> USE DEF RuntimeInv
<1>1. r \in Building \ {"finish"} /\ main = r /\ main' = After[r]
  BY MainPlaces DEF Install
<1>2. up' = IF r = "control" /\ ~ Control THEN up ELSE up \cup {r}
  BY DEF Install
<1>3. RuntimeType'
  <2>1. main' \in Building
    BY <1>1, MainPlaces DEF Building
  <2>2. up' \subseteq {"trust", "signing", "tls", "proxy", "control"}
    BY <1>1, <1>2 DEF RuntimeType, Building
  <2>3. /\ worker' \in [Workers ->
              {"none", "sleep", "latch?", "flags?", "latching", "work", "exited"}]
        /\ handle' \in [Workers -> {"none", "owned", "joined", "detached"}]
        /\ writer' \in {"none", "running", "finished", "detached"}
        /\ sender' \subseteq {"store", "reservation"}
    BY DEF RuntimeType, Install
  <2> QED
    BY <2>1, <2>2, <2>3 DEF RuntimeType, Install, serving
<1>4. BuiltInv' /\ GoneInv'
  BY <1>1, <1>2, MainPlaces DEF BuiltInv, GoneInv, Building, Running, FromTrust, FromSigning,
     FromTls, FromProxy, FromControl
<1>5. StateInv' /\ ClosedInv'
  BY <1>1, MainPlaces DEF Install, serving, StateInv, ClosedInv, Building, Running, FromTrust, FromSigning,
     FromTls, FromProxy, FromControl
<1>6. HandleInv'
  <2>1. /\ \A p \in Planes : main # Joining[p] /\ main' # Joining[p]
    BY <1>1, MainPlaces, NotJoining DEF Building
  <2>2. owner' = owner /\ up \subseteq up' /\ (r \in Planes => r \in up')
    BY <1>2 DEF Install, serving, Planes
  <2>3. \A w \in Workers : handle'[w] = IF PlaneOf[w] = r THEN "owned" ELSE handle[w]
    BY DEF Install
  <2> QED
    BY <2>1, <2>2, <2>3, PlaneTyped DEF HandleInv
<1>7. HaltInv'
  <2>1. \A w \in Workers : worker'[w] = IF PlaneOf[w] = r THEN "sleep" ELSE worker[w]
    BY DEF Install
  <2> QED
    BY <2>1 DEF Install, serving, HaltInv
<1> QED
  BY <1>3, <1>4, <1>5, <1>6, <1>7

(* The build fails or ends, and the fleet. *)
LEMMA ServeStep ==
  ASSUME RuntimeInv, \/ Fails \/ Finish \/ StartFleet \/ BindFails \/ FleetFailsPartly
         \/ NoticeShutdown \/ Join
  PROVE  RuntimeInv'
<1> USE DEF RuntimeInv
<1>1. UNCHANGED <<up, owner, latched, worker, handle, writer, sender, seen, must, stale>>
  BY DEF Fails, Finish, StartFleet, BindFails, FleetFailsPartly, NoticeShutdown, Join, serving, resources
<1>2. arrival' \in {arrival, "cut"}
  BY DEF Fails, Finish, StartFleet, BindFails, FleetFailsPartly, NoticeShutdown, Join, serving
<1>3. main \in Building \cup Running /\ main' \in Running \cup {"down_trust"}
  BY MainPlaces DEF Fails, Finish, StartFleet, BindFails, FleetFailsPartly, NoticeShutdown, Join, Building, Running
<1>4. RuntimeType'
  BY <1>1, <1>2, <1>3 DEF RuntimeType, FromTrust
<1>5. BuiltInv' /\ GoneInv'
  <2>1. main' \in Running => main \in {"finish"} \cup Running
    BY MainPlaces DEF Fails, Finish, StartFleet, BindFails, FleetFailsPartly, NoticeShutdown, Join, Building, Running
  <2> QED
    BY <1>1, <1>3, <2>1 DEF BuiltInv, GoneInv, Building, Running, FromTrust, FromSigning,
       FromTls, FromProxy, FromControl
<1>6. StateInv'
  <2>1. CASE Fails
    BY <2>1, MainPlaces DEF Fails, serving, StateInv, Building, Running, FromTrust, FromSigning,
       FromTls, FromProxy, FromControl
  <2>2. CASE Finish
    BY <2>2, Table DEF Finish, serving, StateInv, Building, Running, FromTrust, FromSigning,
       FromTls, FromProxy, FromControl
  <2>3. CASE StartFleet \/ NoticeShutdown
    BY <2>3 DEF StartFleet, NoticeShutdown, StateInv, Building, Running, FromTrust, FromSigning,
       FromTls, FromProxy, FromControl
  <2>4. CASE BindFails \/ FleetFailsPartly
    BY <2>4, FleetTold DEF BindFails, FleetFailsPartly, StateInv, Building, Running, FromTrust, FromSigning,
       FromTls, FromProxy, FromControl
  <2>5. CASE Join
    BY <2>5, FleetTold DEF Join, StateInv, Building, Running, FromTrust, FromSigning,
       FromTls, FromProxy, FromControl
  <2> QED
    BY <2>1, <2>2, <2>3, <2>4, <2>5
<1>7. ClosedInv'
  <2>1. fleet' = "stranded" => "trust" \in up
    BY <1>3 DEF Fails, Finish, StartFleet, BindFails, FleetFailsPartly, NoticeShutdown, Join,
       serving, BuiltInv, StateInv, Building, Running
  <2> QED
    BY <1>1, <2>1 DEF ClosedInv
<1>8. HandleInv' /\ HaltInv'
  BY <1>1, <1>3, HandleKept, HaltKept DEF Building, Running
<1> QED
  BY <1>4, <1>5, <1>6, <1>7, <1>8
-----------------------------------------------------------------------------
(* The drop of a plane: with nobody to reclaim the teardown goes on. *)
LEMMA DropPlaneStep == ASSUME RuntimeInv, NEW p \in Planes, DropPlane(p) PROVE RuntimeInv'
<1> USE DEF RuntimeInv
<1>1. /\ p \in {"trust", "signing", "tls"} /\ main = Down[p] /\ p \in up /\ up' = up \ {p}
      /\ main' = IF Owned(p) = {} THEN NextDown[main] ELSE Joining[p]
      /\ UNCHANGED <<state, fleet, latched, worker, handle, writer, sender, arrival, seen, must>>
      /\ stale' \in BOOLEAN /\ (stale = TRUE \/ p = "trust" => stale' = TRUE)
  BY DEF DropPlane, Planes, RuntimeType
<1>2. /\ \A q \in Planes : owner'[q] = owner[q] \/ (q = p /\ owner'[q] = TRUE)
      /\ Owned(p) # {} => owner'[p] = TRUE
      /\ owner' \in [Planes -> BOOLEAN]
  BY DEF DropPlane, RuntimeType
<1>3. RuntimeType'
  BY <1>1, <1>2, MainPlaces DEF RuntimeType, FromTrust, FromSigning, FromTls, FromProxy
<1>4. BuiltInv' /\ GoneInv'
  BY <1>1, MainPlaces DEF BuiltInv, GoneInv, Building, Running, FromTrust, FromSigning, FromTls,
     FromProxy, FromControl
<1>5. StateInv' /\ ClosedInv'
  BY <1>1, MainPlaces DEF StateInv, ClosedInv, Building, Running, FromTrust, FromSigning, FromTls, FromProxy,
     FromControl
<1>6. HandleInv'
  <2>1. \A q \in Planes : main' = Joining[q] => q = p /\ Owned(p) # {}
    BY <1>1, MainPlaces DEF Planes
  <2>2. \A q \in Planes : main # Joining[q]
    BY <1>1, MainPlaces DEF Planes
  <2>3. \A w \in Workers : handle[w] = "owned" =>
          PlaneOf[w] \in up' \/ main' = Joining[PlaneOf[w]]
    <3> SUFFICES ASSUME NEW w \in Workers, handle[w] = "owned", PlaneOf[w] \notin up'
                 PROVE  main' = Joining[PlaneOf[w]]
      OBVIOUS
    <3>1. PlaneOf[w] = p
      BY <1>1, <2>2, PlaneTyped DEF HandleInv
    <3>2. w \in Owned(p)
      BY <3>1 DEF Owned
    <3> QED
      BY <1>1, <3>1, <3>2
  <2>4. \A w \in Workers : handle[w] = "detached" => owner'[PlaneOf[w]] = TRUE
    BY <1>2, PlaneTyped DEF HandleInv
  <2> QED
    BY <1>1, <1>2, <2>1, <2>3, <2>4 DEF HandleInv
<1>7. HaltInv'
  <2>1. \A w \in Workers : owner[PlaneOf[w]] = TRUE => owner'[PlaneOf[w]] = TRUE
    BY <1>2, PlaneTyped
  <2> QED
    BY <1>1, <2>1 DEF HaltInv
<1> QED
  BY <1>3, <1>4, <1>5, <1>6, <1>7

(* Its workers are joined or let go. *)
LEMMA ReclaimStep == ASSUME RuntimeInv, NEW p \in Planes, Reclaim(p) PROVE RuntimeInv'
<1> USE DEF RuntimeInv
<1>1. /\ p \in {"trust", "signing", "tls"} /\ main = Joining[p] /\ main' = NextDown[Down[p]]
      /\ UNCHANGED <<state, up, fleet, owner, latched, worker, writer, sender, arrival, seen, must,
                     stale>>
  BY DEF Reclaim, Planes, serving
<1>2. \A w \in Workers : handle'[w] =
        IF w \notin Owned(p) THEN handle[w] ELSE IF Exited(w) THEN "joined" ELSE "detached"
  BY DEF Reclaim
<1>3. RuntimeType'
  <2>1. handle' \in [Workers -> {"none", "owned", "joined", "detached"}]
    BY DEF Reclaim, RuntimeType
  <2> QED
    BY <1>1, <2>1, MainPlaces DEF RuntimeType, FromTrust, FromSigning, FromTls, FromProxy
<1>4. BuiltInv' /\ GoneInv'
  BY <1>1, MainPlaces DEF BuiltInv, GoneInv, Building, Running, FromTrust, FromSigning, FromTls,
     FromProxy, FromControl
<1>5. StateInv' /\ ClosedInv'
  BY <1>1, MainPlaces DEF StateInv, ClosedInv, Building, Running, FromTrust, FromSigning, FromTls, FromProxy,
     FromControl
<1>6. HandleInv'
  <2>1. \A q \in Planes : main' # Joining[q]
    BY <1>1, MainPlaces DEF Planes
  <2>2. \A q \in Planes : main = Joining[q] => q = p
    BY <1>1, MainPlaces DEF Planes
  <2>3. ASSUME NEW w \in Workers, handle'[w] = "owned" PROVE PlaneOf[w] \in up'
    <3>1. handle[w] = "owned" /\ PlaneOf[w] # p
      BY <1>2, <2>3 DEF Owned
    <3> QED
      BY <1>1, <2>2, <3>1, PlaneTyped DEF HandleInv
  <2>4. ASSUME NEW w \in Workers, handle'[w] = "detached" PROVE owner'[PlaneOf[w]] = TRUE
    <3>1. CASE w \in Owned(p)
      BY <1>1, <3>1 DEF Owned, HandleInv
    <3>2. CASE w \notin Owned(p)
      BY <1>1, <1>2, <2>4, <3>2 DEF HandleInv
    <3> QED
      BY <3>1, <3>2
  <2> QED
    BY <2>1, <2>3, <2>4 DEF HandleInv
<1>7. HaltInv'
  BY <1>1, HaltKept
<1> QED
  BY <1>3, <1>4, <1>5, <1>6, <1>7

(* A resource that was never built, the proxy, the writer, the control     *)
(* runtime, and the end.                                                   *)
LEMMA DownStep ==
  ASSUME RuntimeInv,
         \/ \E r \in DOMAIN Down : SkipDown(r)
         \/ DropProxy \/ ReclaimWriter \/ DropControl \/ Finished
  PROVE  RuntimeInv'
<1> USE DEF RuntimeInv
<1>1. UNCHANGED <<fleet, owner, latched, worker, handle, arrival, seen, must, stale>>
  BY DEF SkipDown, DropProxy, ReclaimWriter, DropControl, Finished, serving
<1>2. /\ \/ up' = up
         \/ /\ main = "down_proxy" /\ main' \in {"join_writer", "down_control"}
            /\ up' = up \ {"proxy"}
         \/ main = "down_control" /\ main' = "finished" /\ up' = up \ {"control"}
      /\ sender' \subseteq sender /\ writer' \in {writer, "detached"}
  BY MainPlaces DEF SkipDown, DropProxy, ReclaimWriter, DropControl, Finished
<1>3. \/ main = "down_trust" /\ main' = "down_signing" /\ "trust" \notin up
      \/ main = "down_signing" /\ main' = "down_tls" /\ "signing" \notin up
      \/ main = "down_tls" /\ main' = "down_proxy" /\ "tls" \notin up
      \/ main = "down_proxy" /\ main' = "down_control" /\ "proxy" \notin up'
      \/ main = "down_proxy" /\ main' = "join_writer" /\ up' = up \ {"proxy"}
      \/ main = "join_writer" /\ main' = "down_control"
      \/ main = "down_control" /\ main' = "finished" /\ "control" \notin up'
      \/ main = "finished" /\ main' = "end"
  BY MainPlaces DEF SkipDown, DropProxy, ReclaimWriter, DropControl, Finished
<1>4. RuntimeType'
  BY <1>1, <1>2, <1>3 DEF RuntimeType, FromTrust, FromSigning, FromTls, FromProxy, FromControl
<1>5. BuiltInv' /\ GoneInv'
  BY <1>2, <1>3 DEF BuiltInv, GoneInv, Building, Running, FromTrust, FromSigning, FromTls,
     FromProxy, FromControl
<1>6. StateInv'
  <2>1. CASE DropProxy
    <3>1. main = "down_proxy" /\ main' \in {"join_writer", "down_control"}
      BY <2>1, MainPlaces DEF DropProxy
    <3>2. /\ state = "Transitioning" => state' = "Reclaiming"
          /\ state # "Transitioning" => state' = state
      BY <2>1, Table DEF DropProxy, Transitioned
    <3> QED
      BY <1>1, <3>1, <3>2 DEF StateInv, Building, Running, FromTrust, FromSigning, FromTls,
         FromProxy, FromControl
  <2>2. CASE Finished
    BY <2>2, <1>1, Table DEF Finished, StateInv, Building, Running, FromTrust, FromSigning,
       FromTls, FromProxy, FromControl
  <2>3. CASE (\E r \in DOMAIN Down : SkipDown(r)) \/ ReclaimWriter \/ DropControl
    <3>1. state' = state /\ main # "finished"
      BY <2>3, MainPlaces DEF SkipDown, ReclaimWriter, DropControl
    <3> QED
      BY <1>1, <1>3, <3>1 DEF StateInv, Building, Running, FromTrust, FromSigning, FromTls,
         FromProxy, FromControl
  <2> QED
    BY <2>1, <2>2, <2>3
<1>7. ClosedInv'
  <2>1. "trust" \in up => "trust" \in up'
    BY <1>2
  <2> QED
    BY <1>1, <2>1 DEF ClosedInv
<1>8. HandleInv'
  <2>1. \A p \in Planes : main # Joining[p] /\ main' # Joining[p]
    BY <1>3, MainPlaces, NotJoining
  <2>2. \A p \in Planes : p \in up => p \in up'
    BY <1>2 DEF Planes
  <2> QED
    BY <1>1, <2>1, <2>2, PlaneTyped DEF HandleInv
<1>9. HaltInv'
  BY <1>1, HaltKept
<1> QED
  BY <1>4, <1>5, <1>6, <1>7, <1>8, <1>9

-----------------------------------------------------------------------------
(* The signal, the caller, requests, stranded cores and the evidence       *)
(* writer.                                                                 *)
LEMMA OutsideStep ==
  ASSUME RuntimeInv,
         \/ Signal \/ CallerClears \/ AcceptRequest \/ Verify \/ StrandedStop
         \/ ReservationEnds \/ WriterFinishes
  PROVE  RuntimeInv'
<1> USE DEF RuntimeInv
<1>1. /\ UNCHANGED <<main, state, up, owner, latched, worker, handle, seen, must, stale>>
      /\ fleet' = fleet \/ (fleet = "stranded" /\ fleet' = "stopped")
  BY DEF Signal, CallerClears, AcceptRequest, Verify, StrandedStop, ReservationEnds,
     WriterFinishes, serving, resources
<1>2. /\ writer' \in {writer, "finished"} /\ sender' \subseteq sender \cup {"reservation"}
      /\ arrival' \in {arrival, "accepted", "served", "refused", "cut"}
  BY DEF Signal, CallerClears, AcceptRequest, Verify, StrandedStop, ReservationEnds,
     WriterFinishes, serving, resources
<1>3. RuntimeType'
  BY <1>1, <1>2 DEF RuntimeType
<1>4. BuiltInv' /\ GoneInv' /\ ClosedInv' /\ HandleInv' /\ HaltInv'
  BY <1>1 DEF BuiltInv, GoneInv, ClosedInv, HandleInv, HaltInv
<1>5. StateInv'
  BY <1>1 DEF StateInv
<1> QED
  BY <1>3, <1>4, <1>5

(* A worker's own steps. *)
LEMMA WorkerStep ==
  ASSUME RuntimeInv, NEW w \in Workers, Step(w) \/ Cycle(w)
  PROVE  RuntimeInv'
<1> USE DEF RuntimeInv
<1>1. UNCHANGED mainOnly
  BY DEF Step, Cycle, Asks, ReadLatch, ReadFlags, Latch
<1>0. stale' \in BOOLEAN /\ (stale = TRUE => stale' = TRUE)
  BY DEF Step, Cycle, Asks, ReadLatch, ReadFlags, Latch, Halts, RuntimeType
<1>2. BuiltInv' /\ GoneInv' /\ StateInv' /\ ClosedInv' /\ HandleInv'
  BY <1>0, <1>1 DEF mainOnly, BuiltInv, GoneInv, StateInv, ClosedInv, HandleInv
<1>3. PlaneOf[w] \in Planes
  BY PlaneTyped
<1>4. RuntimeType' /\ HaltInv'
  <2> SUFFICES /\ worker' \in [Workers ->
                    {"none", "sleep", "latch?", "flags?", "latching", "work", "exited"}]
               /\ latched' \in [Planes -> BOOLEAN] /\ seen' \in [Planes -> BOOLEAN]
               /\ must' \in [Workers -> BOOLEAN] /\ HaltInv'
    BY <1>0, <1>1 DEF RuntimeType, mainOnly
  <2>1. CASE Asks(w)
    BY <2>1, <1>3 DEF Asks, RuntimeType, HaltInv, mainOnly
  <2>2. CASE ReadLatch(w)
    <3>1. latched' = latched /\ owner' = owner
      BY <2>2 DEF ReadLatch, mainOnly
    <3>2. CASE latched[PlaneOf[w]] = TRUE
      BY <2>2, <1>3, <3>1, <3>2 DEF ReadLatch, Halts, RuntimeType, HaltInv
    <3>3. CASE latched[PlaneOf[w]] = FALSE
      BY <2>2, <1>3, <3>1, <3>3 DEF ReadLatch, Halts, RuntimeType, HaltInv
    <3> QED
      BY <1>3, <3>2, <3>3 DEF RuntimeType
  <2>3. CASE ReadFlags(w)
    BY <2>3, <1>3 DEF ReadFlags, RuntimeType, HaltInv, mainOnly
  <2>4. CASE Latch(w)
    BY <2>4, <1>3 DEF Latch, Halts, RuntimeType, HaltInv, mainOnly
  <2>5. CASE Cycle(w)
    BY <2>5, <1>3 DEF Cycle, RuntimeType, HaltInv, mainOnly
  <2> QED
    BY <2>1, <2>2, <2>3, <2>4, <2>5 DEF Step
<1> QED
  BY <1>2, <1>4

-----------------------------------------------------------------------------
(* Every step keeps the invariant. *)
LEMMA StepRuntimeInv == RuntimeInv /\ [Next]_vars => RuntimeInv'
<1> SUFFICES ASSUME RuntimeInv, [Next]_vars PROVE RuntimeInv'
  OBVIOUS
<1>1. CASE Main
  BY <1>1, InstallStep, ServeStep, DropPlaneStep, ReclaimStep, DownStep DEF Main
<1>2. CASE \/ Signal \/ CallerClears \/ AcceptRequest \/ Verify \/ StrandedStop
           \/ ReservationEnds \/ WriterFinishes
  BY <1>2, OutsideStep
<1>3. CASE \E w \in Workers : Step(w) \/ Cycle(w)
  BY <1>3, WorkerStep
<1>4. CASE UNCHANGED vars
  BY <1>4 DEF vars, RuntimeInv, RuntimeType, BuiltInv, GoneInv, StateInv, ClosedInv, HandleInv,
     HaltInv
<1> QED
  BY <1>1, <1>2, <1>3, <1>4 DEF Next

(* A deployment comes down in order, for any number of worker threads on   *)
(* any of its planes, with or without a control runtime, wherever its      *)
(* build failed, whether its fleet started, failed before a core ran or    *)
(* failed with cores that serve, and however often its caller clears the   *)
(* shutdown flag.  Cores of a failed start may outlive the planes; what is *)
(* proved of them is that resolution then fails closed.                    *)
(* (MaterializedRuntime::drop, serve_fleet, Halt::requested,               *)
(* halt_and_reclaim)                                                       *)
THEOREM ComesDownInOrderHolds == Spec => []ComesDownInOrder
<1>1. RuntimeInv => ComesDownInOrder
  <2> SUFFICES ASSUME RuntimeInv PROVE ComesDownInOrder
    OBVIOUS
  <2>i. RuntimeType /\ BuiltInv /\ GoneInv /\ StateInv /\ ClosedInv /\ HandleInv /\ HaltInv
    BY DEF RuntimeInv
  <2>s. /\ state \in {"Materializing", "Materialized", "Transitioning", "Reclaiming", "Stopped",
                      "FailedToStart"}
        /\ fleet \in {"none", "serving", "draining", "joined", "stranded", "stopped"}
    BY <2>i DEF RuntimeType, StateInv, Running
  <2>g. main = "end" => up = {}
    BY <2>i DEF RuntimeType, GoneInv, FromTrust, FromSigning, FromTls, FromProxy, FromControl
  <2>1. TypeOK
    <3>1. \A s \in {"Materializing", "Materialized", "Transitioning", "Reclaiming", "Stopped",
                    "FailedToStart"} : \E t \in Legal : t[3] = s
      BY DEF Legal
    <3>2. state \in {t[3] : t \in Legal}
      BY <2>s, <3>1
    <3>3. up \subseteq DOMAIN Down
      BY <2>i, MainPlaces DEF RuntimeType
    <3> QED
      BY <2>i, <2>s, <3>2, <3>3 DEF TypeOK, RuntimeType
  <2>2. LifecycleHonest
    <3>1. state \in {"Stopped", "FailedToStart"} => up = {}
      BY <2>i, <2>g DEF StateInv
    <3>2. state \in {"Stopped", "Transitioning", "Reclaiming"} => fleet = "joined"
      BY <2>i DEF RuntimeType, StateInv, Running
    <3>3. state = "FailedToStart" => fleet = "none"
      BY <2>i DEF StateInv, FromTrust, FromSigning, FromTls, FromProxy, FromControl
    <3>4. state = "Reclaiming" => Planes \cap up = {}
      BY <2>i DEF StateInv, GoneInv, Planes, FromTrust, FromSigning, FromTls, FromProxy,
         FromControl
    <3> QED
      BY <3>1, <3>2, <3>3, <3>4 DEF LifecycleHonest
  <2>3. HaltSticks
    BY <2>i DEF RuntimeType, HaltInv, HaltSticks
  <2>4. NoOrphans
    <3>1. main = "end" => \A p \in Planes : main # Joining[p]
      BY NotJoining
    <3> QED
      BY <2>i, <2>g, <3>1, PlaneTyped DEF RuntimeType, HandleInv, NoOrphans
  <2>5. DrainBeforeTransition
    <3>1. fleet \in {"serving", "draining"} => main \in Running
      BY <2>i DEF RuntimeType, StateInv, Running
    <3> QED
      BY <2>i, <3>1 DEF BuiltInv, ClosedInv, DrainBeforeTransition, Planes
  <2> QED
    BY <2>1, <2>2, <2>3, <2>4, <2>5 DEF ComesDownInOrder
<1> QED
  BY <1>1, InitRuntimeInv, StepRuntimeInv, PTL DEF Spec

-----------------------------------------------------------------------------
(* One core of the fleet. *)
RequestState ==
  [pc : Counts \cup {"none", "writing", "done"}, conn : Conns \cup {"none"},
   held : 0 .. max_body_bytes, got : Nat, frame : Nat, seen : Nat, replies : BOOLEAN,
   late : BOOLEAN]

(* The sets whose sizes the bounds keep: the connections that hold a       *)
(* permit, and the ones that hold a handshake's.                           *)
Standing == {"wait", "tls", "sign", "open", "closing"}

Shaking == {"tls", "sign"}

Counted == Counts \ {"permit", "unpermit"}

At(places) == {c \in Conns : conn[c] \in places}

PoolInv ==
  /\ pool \in [workers : Nat \ {0}, may_block : BOOLEAN, handshakes : Nat \cup {Unbounded}]
  /\ pool.may_block = TRUE => pool.handshakes \in Nat /\ pool.handshakes < pool.workers
  /\ pool.may_block = FALSE => pool.handshakes = Unbounded

CoreType ==
  /\ loop \in {"check", "accept", "drain", "stop", "cut"} /\ shutdown \in BOOLEAN
  /\ conn \in [Conns -> {"none", "wait", "tls", "sign", "open", "closing", "gone"}]
  /\ request \in [Requests -> RequestState]
  /\ drained \in {"no", "zero", "grace"}
  /\ charged <= ceiling

(* What is taken is what is held. *)
ConnInv ==
  /\ connections \in Nat
  /\ connections + Cardinality(At(Standing)) = max_concurrent_connections
  /\ pool.handshakes = Unbounded => handshakes = Unbounded
  /\ pool.handshakes # Unbounded =>
       handshakes \in Nat /\ handshakes + Cardinality(At(Shaking)) = pool.handshakes

CallInv ==
  /\ derived_per_core_ceiling = Unbounded => in_flight = Unbounded
  /\ derived_per_core_ceiling # Unbounded =>
       in_flight \in Nat /\ in_flight + Cardinality(In(Counts)) = derived_per_core_ceiling
  /\ in_flight_requests = Cardinality(In(Counted))

(* A request holds the bytes it has got, and asks for no more than fit.    *)
BytesInv ==
  /\ charged = Cardinality(Bytes)
  /\ \A r \in Requests :
       /\ request[r].held = request[r].got
       /\ request[r].pc = "charge" => request[r].held + request[r].frame <= max_body_bytes

(* After a count of zero, who is counted came later; the end of the        *)
(* runtime ends every request.                                             *)
DrainInv ==
  /\ cut \in [Requests -> Counts \cup {"none", "writing"}]
  /\ loop \in {"check", "accept", "drain"} => drained = "no"
  /\ loop # "cut" => \A r \in Requests : cut[r] = "none"
  /\ loop = "cut" => \A r \in Requests : request[r].pc = "done"
  /\ drained = "zero" =>
       /\ \A r \in In(Counted) : request[r].late = TRUE
       /\ \A r \in Requests : cut[r] \in Counted => request[r].late = TRUE

CoreInv == PoolInv /\ CoreType /\ ConnInv /\ CallInv /\ BytesInv /\ DrainInv

-----------------------------------------------------------------------------
(* The sizes as the proofs use them. *)
LEMMA CoreSizes ==
  /\ max_concurrent_connections \in Nat /\ max_body_bytes \in Nat \ {0}
  /\ ceiling \in Nat
  /\ derived_per_core_ceiling \in Nat \cup {Unbounded}
  /\ Unbounded \notin Int
  /\ IsFiniteSet(Conns) /\ IsFiniteSet(Requests)
<1> USE CoreAssumption DEF CoreAssumption
<1>1. max_body_bytes \in Nat \ {0} /\ BUFFERED_BODY_BUDGET_MULTIPLE \in Nat
  OBVIOUS
<1>2. \A a, b \in Nat : a * b \in Nat
  OBVIOUS
<1>3. ceiling \in Nat
  BY <1>1, <1>2 DEF ceiling
<1>4. cores \in Nat \ {0}
  OBVIOUS
<1>5. \A n \in Nat : (n + cores - 1) \div cores \in Nat
  BY <1>4
<1>6. derived_per_core_ceiling \in Nat \cup {Unbounded}
  BY <1>5 DEF derived_per_core_ceiling
<1> QED
  BY <1>1, <1>3, <1>6

(* A set that gains or loses one member. *)
LEMMA OneMore ==
  ASSUME NEW S, IsFiniteSet(S), NEW x, x \notin S
  PROVE  IsFiniteSet(S \cup {x}) /\ Cardinality(S \cup {x}) = Cardinality(S) + 1
BY FS_AddElement

LEMMA OneLess ==
  ASSUME NEW S, IsFiniteSet(S), NEW x, x \in S
  PROVE  Cardinality(S \ {x}) = Cardinality(S) - 1
BY FS_RemoveElement

(* One, if it is so. *)
One(b) == IF b THEN 1 ELSE 0

(* One request moves, and the sizes with it. *)
LEMMA InSized ==
  ASSUME CoreType, NEW S
  PROVE  IsFiniteSet(In(S)) /\ Cardinality(In(S)) \in Nat
<1>1. In(S) \subseteq Requests
  BY DEF In, CoreType
<1> QED
  BY <1>1, CoreSizes, FS_Subset, FS_CardinalityType

LEMMA InMoves ==
  ASSUME CoreType, NEW r \in Requests, NEW q, request' = [request EXCEPT ![r] = q], NEW S
  PROVE  Cardinality(In(S)') = Cardinality(In(S)) + One(q.pc \in S) - One(request[r].pc \in S)
<1>1. IsFiniteSet(In(S)) /\ Cardinality(In(S)) \in Nat
  BY InSized
<1>2. \A s \in Requests : request'[s] = IF s = r THEN q ELSE request[s]
  BY DEF CoreType
<1>3. DOMAIN request = Requests /\ DOMAIN request' = Requests
  BY DEF CoreType
<1>4. CASE q.pc \in S /\ request[r].pc \in S
  <2>1. In(S)' = In(S)
    BY <1>2, <1>3, <1>4 DEF In
  <2> QED
    BY <1>1, <1>4, <2>1 DEF One
<1>5. CASE q.pc \in S /\ request[r].pc \notin S
  <2>1. In(S)' = In(S) \cup {r} /\ r \notin In(S)
    BY <1>2, <1>3, <1>5 DEF In
  <2> QED
    BY <1>1, <1>5, <2>1, OneMore DEF One
<1>6. CASE q.pc \notin S /\ request[r].pc \in S
  <2>1. In(S)' = In(S) \ {r} /\ r \in In(S)
    BY <1>2, <1>3, <1>6 DEF In
  <2> QED
    BY <1>1, <1>6, <2>1, OneLess DEF One
<1>7. CASE q.pc \notin S /\ request[r].pc \notin S
  <2>1. In(S)' = In(S)
    BY <1>2, <1>3, <1>7 DEF In
  <2> QED
    BY <1>1, <1>7, <2>1 DEF One
<1> QED
  BY <1>4, <1>5, <1>6, <1>7

(* One connection moves. *)
LEMMA AtSized ==
  ASSUME NEW S PROVE IsFiniteSet(At(S)) /\ Cardinality(At(S)) \in Nat
BY CoreSizes, FS_Subset, FS_CardinalityType DEF At

LEMMA AtMoves ==
  ASSUME CoreType, NEW c \in Conns, NEW q, conn' = [conn EXCEPT ![c] = q], NEW S
  PROVE  Cardinality(At(S)') = Cardinality(At(S)) + One(q \in S) - One(conn[c] \in S)
<1>1. IsFiniteSet(At(S)) /\ Cardinality(At(S)) \in Nat
  BY AtSized
<1>2. \A d \in Conns : conn'[d] = IF d = c THEN q ELSE conn[d]
  BY DEF CoreType
<1>4. CASE q \in S /\ conn[c] \in S
  <2>1. At(S)' = At(S)
    BY <1>2, <1>4 DEF At
  <2> QED
    BY <1>1, <1>4, <2>1 DEF One
<1>5. CASE q \in S /\ conn[c] \notin S
  <2>1. At(S)' = At(S) \cup {c} /\ c \notin At(S)
    BY <1>2, <1>5 DEF At
  <2> QED
    BY <1>1, <1>5, <2>1, OneMore DEF One
<1>6. CASE q \notin S /\ conn[c] \in S
  <2>1. At(S)' = At(S) \ {c} /\ c \in At(S)
    BY <1>2, <1>6 DEF At
  <2> QED
    BY <1>1, <1>6, <2>1, OneLess DEF One
<1>7. CASE q \notin S /\ conn[c] \notin S
  <2>1. At(S)' = At(S)
    BY <1>2, <1>7 DEF At
  <2> QED
    BY <1>1, <1>7, <2>1 DEF One
<1> QED
  BY <1>4, <1>5, <1>6, <1>7

-----------------------------------------------------------------------------
(* The bytes of one request, and that there are as many as it holds. *)
Block(r, n) == {<<r, i>> : i \in 1 .. n}

LEMMA BlockSized ==
  ASSUME NEW r, NEW n \in Nat
  PROVE  IsFiniteSet(Block(r, n)) /\ Cardinality(Block(r, n)) = n
<1> DEFINE f == [i \in 1 .. n |-> <<r, i>>]
<1>1. f \in Bijection(1 .. n, Block(r, n))
  <2>1. f \in [1 .. n -> Block(r, n)]
    BY DEF Block
  <2>2. \A i, j \in 1 .. n : f[i] = f[j] => i = j
    OBVIOUS
  <2>3. \A b \in Block(r, n) : \E i \in 1 .. n : f[i] = b
    BY DEF Block
  <2> QED
    BY <2>1, <2>2, <2>3, Zenon DEF Bijection, Injection, Surjection, IsInjective
<1>2. ExistsBijection(1 .. n, Block(r, n))
  BY <1>1 DEF ExistsBijection
<1>3. IsFiniteSet(1 .. n) /\ Cardinality(1 .. n) = n
  BY FS_Interval
<1> QED
  BY <1>2, <1>3, FS_Bijection

LEMMA BytesFinite == ASSUME CoreType PROVE IsFiniteSet(Bytes) /\ Cardinality(Bytes) \in Nat
<1> DEFINE Pairs == Requests \X (1 .. max_body_bytes)
<1>1. DOMAIN request = Requests
  BY DEF CoreType
<1>2. Bytes \subseteq Pairs
  BY <1>1 DEF Bytes
<1>3. 1 \in Int /\ max_body_bytes \in Int /\ IsFiniteSet(Requests)
  BY CoreSizes
<1>4. IsFiniteSet(1 .. max_body_bytes)
  BY <1>3, FS_Interval
<1>5. IsFiniteSet(Pairs)
  BY <1>3, <1>4, FS_Product
<1> HIDE DEF Pairs
<1> QED
  BY <1>2, <1>5, FS_Subset, FS_CardinalityType

(* One request's share changes, and the charge with it. *)
LEMMA BytesMove ==
  ASSUME CoreType, NEW r \in Requests, NEW q, request' = [request EXCEPT ![r] = q],
         q.held \in 0 .. max_body_bytes
  PROVE  Cardinality(Bytes') = Cardinality(Bytes) + q.held - request[r].held
<1> DEFINE Rest == {b \in Bytes : b[1] # r}
<1>1. max_body_bytes \in Nat /\ request[r].held \in 0 .. max_body_bytes
  BY CoreSizes DEF CoreType, RequestState
<1>2. IsFiniteSet(Bytes)
  BY BytesFinite
<1>3. IsFiniteSet(Rest) /\ Cardinality(Rest) \in Nat
  BY <1>2, FS_Subset, FS_CardinalityType
<1>4. DOMAIN request = Requests /\ DOMAIN request' = Requests
  BY DEF CoreType
<1>5. \A s \in Requests : request'[s] = IF s = r THEN q ELSE request[s]
  BY DEF CoreType
<1>6. Bytes = Rest \cup Block(r, request[r].held)
  <2>1. \A s, i : <<s, i>> \in Bytes <=>
          s \in Requests /\ i \in 1 .. max_body_bytes /\ i <= request[s].held
    BY <1>4 DEF Bytes
  <2>2. \A b \in Bytes : b = <<b[1], b[2]>>
    BY DEF Bytes
  <2>3. Block(r, request[r].held) \subseteq Bytes
    BY <1>1, <2>1 DEF Block
  <2>4. \A b \in Bytes : b[1] = r => b \in Block(r, request[r].held)
    BY <1>1, <2>1, <2>2 DEF Block
  <2> QED
    BY <2>3, <2>4
<1>7. Bytes' = Rest \cup Block(r, q.held)
  <2>1. \A s, i : <<s, i>> \in Bytes' <=>
          s \in Requests /\ i \in 1 .. max_body_bytes /\ i <= request'[s].held
    BY <1>4 DEF Bytes
  <2>2. \A s, i : <<s, i>> \in Bytes <=>
          s \in Requests /\ i \in 1 .. max_body_bytes /\ i <= request[s].held
    BY <1>4 DEF Bytes
  <2>3. /\ \A b \in Bytes : b = <<b[1], b[2]>>
        /\ \A b \in Bytes' : b = <<b[1], b[2]>>
    BY DEF Bytes
  <2>4. Block(r, q.held) \subseteq Bytes'
    BY <1>1, <1>5, <2>1 DEF Block
  <2>5. \A b \in Bytes' : b[1] = r => b \in Block(r, q.held)
    BY <1>1, <1>5, <2>1, <2>3 DEF Block
  <2>6. \A b \in Bytes' : b[1] # r => b \in Bytes
    BY <1>5, <2>1, <2>2, <2>3
  <2>7. \A b \in Bytes : b[1] # r => b \in Bytes'
    BY <1>5, <2>1, <2>2, <2>3
  <2> QED
    BY <2>4, <2>5, <2>6, <2>7
<1>8. Rest \cap Block(r, request[r].held) = {} /\ Rest \cap Block(r, q.held) = {}
  BY DEF Block
<1>9. ASSUME NEW n \in Nat, Rest \cap Block(r, n) = {}
      PROVE  Cardinality(Rest \cup Block(r, n)) = Cardinality(Rest) + n
  <2>1. IsFiniteSet(Block(r, n)) /\ Cardinality(Block(r, n)) = n
    BY BlockSized
  <2>2. Cardinality(Rest \cup Block(r, n)) =
          Cardinality(Rest) + Cardinality(Block(r, n)) - Cardinality(Rest \cap Block(r, n))
    BY <1>3, <2>1, FS_Union
  <2>3. Cardinality(Rest \cap Block(r, n)) = 0
    BY <1>9, FS_EmptySet
  <2> QED
    BY <1>3, <2>1, <2>2, <2>3
<1>10. Cardinality(Bytes) = Cardinality(Rest) + request[r].held
  BY <1>1, <1>6, <1>8, <1>9
<1>11. Cardinality(Bytes') = Cardinality(Rest) + q.held
  BY <1>1, <1>7, <1>8, <1>9
<1> QED
  BY <1>1, <1>3, <1>10, <1>11

-----------------------------------------------------------------------------
(* A core as it is built. *)
LEMMA InitCoreInv == CoreInit => CoreInv
<1> SUFFICES ASSUME CoreInit PROVE CoreInv
  OBVIOUS
<1>1. PICK t \in Topologies : ~ (t.may_block /\ stated_single_thread(t)) /\ pool = for_core(t)
  BY DEF CoreInit
<1>2. t.depth \in Nat \ {0} /\ t.stated \in BOOLEAN /\ t.may_block \in BOOLEAN
  BY CoreAssumption DEF CoreAssumption
<1>3. PoolInv
  <2>1. /\ DELEGATED_TLS_WORKERS_PER_CORE \in Nat \ {0}
        /\ DELEGATED_TLS_HANDSHAKES_PER_CORE \in Nat \ {0}
    BY CoreAssumption DEF CoreAssumption
  <2>2. CASE t.may_block = TRUE
    <3>1. PICK n \in Nat \ {0} : pool = [workers |-> n, may_block |-> TRUE,
            handshakes |-> Least(n - 1, DELEGATED_TLS_HANDSHAKES_PER_CORE)]
      BY <1>1, <1>2, <2>1, <2>2 DEF for_core
    <3> QED
      BY <2>1, <3>1 DEF Least, PoolInv
  <2>3. CASE t.may_block = FALSE
    BY <1>1, <1>2, <2>3 DEF for_core, PoolInv
  <2> QED
    BY <1>2, <2>2, <2>3
<1>4. CoreType
  <2>1. Fresh \in RequestState
    BY CoreSizes DEF Fresh, RequestState, Counts
  <2>2. request \in [Requests -> RequestState]
    BY <2>1 DEF CoreInit
  <2>3. 0 <= ceiling
    BY CoreSizes
  <2> QED
    BY <2>2, <2>3 DEF CoreInit, CoreType
<1>5. ConnInv
  <2>1. At(Standing) = {} /\ At(Shaking) = {}
    BY DEF CoreInit, At, Standing, Shaking
  <2> QED
    BY <1>3, <2>1, CoreSizes, FS_EmptySet DEF CoreInit, ConnInv, PoolInv
<1>6. CallInv
  <2>1. In(Counts) = {} /\ In(Counted) = {}
    BY DEF CoreInit, In, Counts, Counted, Fresh
  <2> QED
    BY <2>1, CoreSizes, FS_EmptySet DEF CoreInit, CallInv
<1>7. BytesInv
  <2>1. \A r \in Requests : request[r] = Fresh
    BY DEF CoreInit
  <2>2. Bytes = {}
    BY <1>4, <2>1 DEF Bytes, CoreType, Fresh
  <2> QED
    BY <2>1, <2>2, FS_EmptySet DEF CoreInit, BytesInv, Fresh
<1>8. DrainInv
  BY DEF CoreInit, DrainInv
<1> QED
  BY <1>3, <1>4, <1>5, <1>6, <1>7, <1>8 DEF CoreInv

-----------------------------------------------------------------------------
(* A step of a connection leaves the requests and the drain as they were.  *)
LEMMA ConnRest ==
  ASSUME CoreInv, ConnInv', UNCHANGED <<pool, requests, shutdown, drained, cut>>,
         loop' = loop \/ (loop = "accept" /\ loop' = "check"),
         conn' \in [Conns -> {"none", "wait", "tls", "sign", "open", "closing", "gone"}]
  PROVE  CoreInv'
<1>1. PoolInv'
  BY DEF CoreInv, PoolInv
<1>2. CoreType'
  BY DEF CoreInv, CoreType, requests, ceiling
<1>3. \A S : In(S)' = In(S)
  BY DEF In, requests
<1>4. CallInv'
  <2>1. In(Counts)' = In(Counts) /\ In(Counted)' = In(Counted)
    BY <1>3
  <2>2. derived_per_core_ceiling' = derived_per_core_ceiling
    BY DEF derived_per_core_ceiling
  <2> QED
    BY <2>1, <2>2 DEF CoreInv, CallInv, requests
<1>5. BytesInv'
  <2>1. Bytes' = Bytes
    BY DEF Bytes, requests
  <2> QED
    BY <2>1 DEF CoreInv, BytesInv, requests
<1>6. DrainInv'
  <2>1. In(Counted)' = In(Counted) /\ request' = request
    BY <1>3 DEF requests
  <2> QED
    BY <2>1 DEF CoreInv, CoreType, DrainInv
<1> QED
  BY <1>1, <1>2, <1>4, <1>5, <1>6 DEF CoreInv

(* What a connection takes or gives back is what its place says it holds.  *)
LEMMA ConnMoves ==
  ASSUME CoreInv, NEW c \in Conns,
         NEW q \in {"none", "wait", "tls", "sign", "open", "closing", "gone"},
         conn' = [conn EXCEPT ![c] = q], pool' = pool,
         connections' = connections + One(conn[c] \in Standing) - One(q \in Standing),
         connections' \in Nat,
         handshakes = Unbounded => handshakes' = Unbounded,
         handshakes # Unbounded =>
           /\ handshakes' = handshakes + One(conn[c] \in Shaking) - One(q \in Shaking)
           /\ handshakes' \in Nat
  PROVE  /\ ConnInv'
         /\ conn' \in [Conns -> {"none", "wait", "tls", "sign", "open", "closing", "gone"}]
<1>1. Cardinality(At(Standing)') =
        Cardinality(At(Standing)) + One(q \in Standing) - One(conn[c] \in Standing)
  BY AtMoves DEF CoreInv
<1>2. Cardinality(At(Shaking)') =
        Cardinality(At(Shaking)) + One(q \in Shaking) - One(conn[c] \in Shaking)
  BY AtMoves DEF CoreInv
<1>3. Cardinality(At(Standing)) \in Nat /\ Cardinality(At(Shaking)) \in Nat
  BY AtSized
<1>4. \A b \in BOOLEAN : One(b) \in {0, 1}
  BY DEF One
<1>5. /\ One(q \in Standing) \in {0, 1} /\ One(conn[c] \in Standing) \in {0, 1}
      /\ One(q \in Shaking) \in {0, 1} /\ One(conn[c] \in Shaking) \in {0, 1}
  BY DEF One
<1>6. connections \in Nat /\ connections + Cardinality(At(Standing)) = max_concurrent_connections
  BY DEF CoreInv, ConnInv
<1>7. connections' + Cardinality(At(Standing)') = max_concurrent_connections
  BY <1>1, <1>3, <1>5, <1>6
<1>8. CASE pool.handshakes = Unbounded
  BY <1>7, <1>8 DEF CoreInv, ConnInv, CoreType
<1>9. CASE pool.handshakes # Unbounded
  <2>1. handshakes \in Nat /\ handshakes + Cardinality(At(Shaking)) = pool.handshakes
    BY <1>9 DEF CoreInv, ConnInv
  <2>2. handshakes # Unbounded
    BY <2>1, CoreSizes
  <2>3. handshakes' + Cardinality(At(Shaking)') = pool.handshakes
    BY <1>2, <1>3, <1>5, <2>1, <2>2
  <2> QED
    BY <1>7, <1>9, <2>2, <2>3 DEF CoreInv, ConnInv, CoreType
<1> QED
  BY <1>8, <1>9

(* The semaphores are full or not, and a connection that holds a permit    *)
(* has taken it.                                                           *)
LEMMA HandshakesTyped ==
  ASSUME CoreInv
  PROVE  /\ handshakes \in Nat \cup {Unbounded} /\ connections \in Nat
         /\ Unbounded \notin Int
         /\ handshakes # Unbounded =>
              handshakes \in Nat /\ Take(handshakes) = handshakes - 1
              /\ Give(handshakes) = handshakes + 1
BY CoreSizes DEF CoreInv, ConnInv, Take, Give

LEMMA ConnSteps ==
  ASSUME CoreInv, NEW c \in Conns,
         \/ Accept(c) \/ AcquireHandshake(c) \/ WaitExpires(c) \/ Sign(c) \/ TlsDone(c)
         \/ TlsFails(c) \/ Age(c) \/ ConnEnds(c)
  PROVE  CoreInv'
<1> DEFINE ConnState == {"none", "wait", "tls", "sign", "open", "closing", "gone"}
<1>1. /\ handshakes \in Nat \cup {Unbounded} /\ connections \in Nat
      /\ Unbounded \notin Int
      /\ handshakes # Unbounded =>
           handshakes \in Nat /\ Take(handshakes) = handshakes - 1
           /\ Give(handshakes) = handshakes + 1
      /\ handshakes = Unbounded => Take(handshakes) = Unbounded /\ Give(handshakes) = Unbounded
  BY HandshakesTyped DEF Take, Give
<1>2. UNCHANGED <<pool, requests, shutdown, drained, cut>>
  BY DEF Accept, AcquireHandshake, WaitExpires, Sign, TlsDone, TlsFails, Age, ConnEnds, connLeaves
<1>3. loop' = loop \/ (loop = "accept" /\ loop' = "check")
  BY DEF Accept, AcquireHandshake, WaitExpires, Sign, TlsDone, TlsFails, Age, ConnEnds, connLeaves
<1>4. ASSUME NEW q \in ConnState, conn' = [conn EXCEPT ![c] = q],
             connections' = connections + One(conn[c] \in Standing) - One(q \in Standing),
             connections' \in Nat,
             handshakes = Unbounded => handshakes' = Unbounded,
             handshakes # Unbounded =>
               /\ handshakes' = handshakes + One(conn[c] \in Shaking) - One(q \in Shaking)
               /\ handshakes' \in Nat
      PROVE  CoreInv'
  BY <1>2, <1>3, <1>4, ConnMoves, ConnRest
<1>5. CASE Accept(c) /\ connections' = connections - 1 /\ conn' = [conn EXCEPT ![c] = "wait"]
  <2>1. connections > 0 \/ connections = 0
    BY <1>1
  <2>2. conn[c] = "none" /\ handshakes' = handshakes /\ connections > 0
    BY <1>1, <1>5 DEF Accept
  <2> QED
    BY <1>1, <1>4, <1>5, <2>2 DEF One, Standing, Shaking
<1>6. CASE Accept(c) /\ connections' = connections /\ conn' = [conn EXCEPT ![c] = "gone"]
  <2>1. conn[c] = "none" /\ handshakes' = handshakes
    BY <1>6 DEF Accept
  <2> QED
    BY <1>1, <1>4, <1>6, <2>1 DEF One, Standing, Shaking
<1>7. CASE AcquireHandshake(c)
  <2>1. conn[c] = "wait" /\ Free(handshakes) /\ handshakes' = Take(handshakes)
        /\ conn' = [conn EXCEPT ![c] = "tls"] /\ connections' = connections
    BY <1>7 DEF AcquireHandshake
  <2> QED
    BY <1>1, <1>4, <2>1 DEF One, Standing, Shaking, Free
<1>8. CASE WaitExpires(c)
  <2>1. conn[c] = "wait" /\ handshakes' = handshakes
        /\ conn' = [conn EXCEPT ![c] = "gone"] /\ connections' = connections + 1
    BY <1>8 DEF WaitExpires, Closed
  <2> QED
    BY <1>1, <1>4, <2>1 DEF One, Standing, Shaking
<1>9. CASE Sign(c)
  <2>1. conn[c] = "tls" /\ handshakes' = handshakes
        /\ conn' = [conn EXCEPT ![c] = "sign"] /\ connections' = connections
    BY <1>9 DEF Sign
  <2> QED
    BY <1>1, <1>4, <2>1 DEF One, Standing, Shaking
<1>10. CASE TlsDone(c)
  <2>1. conn[c] \in {"tls", "sign"} /\ handshakes' = Give(handshakes)
        /\ conn' = [conn EXCEPT ![c] = "open"] /\ connections' = connections
    BY <1>10 DEF TlsDone
  <2> QED
    BY <1>1, <1>4, <2>1 DEF One, Standing, Shaking
<1>11. CASE TlsFails(c)
  <2>1. conn[c] \in {"tls", "sign"} /\ handshakes' = Give(handshakes)
        /\ conn' = [conn EXCEPT ![c] = "gone"] /\ connections' = connections + 1
    BY <1>11 DEF TlsFails, Closed
  <2> QED
    BY <1>1, <1>4, <2>1 DEF One, Standing, Shaking
<1>12. CASE Age(c)
  <2>1. conn[c] = "open" /\ handshakes' = handshakes
        /\ conn' = [conn EXCEPT ![c] = "closing"] /\ connections' = connections
    BY <1>12 DEF Age
  <2> QED
    BY <1>1, <1>4, <2>1 DEF One, Standing, Shaking
<1>13. CASE ConnEnds(c)
  <2>1. conn[c] \in {"open", "closing"} /\ handshakes' = handshakes
        /\ conn' = [conn EXCEPT ![c] = "gone"] /\ connections' = connections + 1
    BY <1>13 DEF ConnEnds, Closed
  <2> QED
    BY <1>1, <1>4, <2>1 DEF One, Standing, Shaking
<1>14. Accept(c) =>
         \/ connections' = connections - 1 /\ conn' = [conn EXCEPT ![c] = "wait"]
         \/ connections' = connections /\ conn' = [conn EXCEPT ![c] = "gone"]
  BY DEF Accept
<1> QED
  BY <1>5, <1>6, <1>7, <1>8, <1>9, <1>10, <1>11, <1>12, <1>13, <1>14

-----------------------------------------------------------------------------
(* What a request takes or gives back is what its place says it holds.     *)
LEMMA RequestMoves ==
  ASSUME CoreInv, NEW r \in Requests, NEW q \in RequestState,
         request' = [request EXCEPT ![r] = q], UNCHANGED reqLeaves,
         request[r].pc # "done",
         charged' = charged + q.held - request[r].held, charged' <= ceiling,
         q.held = q.got, q.pc = "charge" => q.held + q.frame <= max_body_bytes,
         in_flight_requests' =
           in_flight_requests + One(q.pc \in Counted) - One(request[r].pc \in Counted),
         in_flight = Unbounded => in_flight' = Unbounded,
         in_flight # Unbounded =>
           /\ in_flight' = in_flight + One(request[r].pc \in Counts) - One(q.pc \in Counts)
           /\ in_flight' \in Nat,
         q.pc \in Counted =>
           \/ request[r].pc \in Counted /\ q.late = request[r].late
           \/ q.late = (loop = "stop")
  PROVE  CoreInv'
<1> USE DEF CoreInv
<1>1. /\ pool' = pool /\ loop' = loop /\ shutdown' = shutdown /\ conn' = conn
      /\ connections' = connections /\ handshakes' = handshakes /\ drained' = drained
      /\ cut' = cut
  BY DEF reqLeaves
<1>2. PoolInv'
  BY <1>1 DEF PoolInv
<1>3. CoreType'
  <2>1. request' \in [Requests -> RequestState]
    BY DEF CoreType
  <2> QED
    BY <1>1, <2>1 DEF CoreType, ceiling
<1>4. ConnInv'
  <2>1. At(Standing)' = At(Standing) /\ At(Shaking)' = At(Shaking)
    BY <1>1 DEF At, Standing, Shaking
  <2> QED
    BY <1>1, <2>1 DEF ConnInv
<1>5. CallInv'
  <2>1. /\ Cardinality(In(Counts)') =
             Cardinality(In(Counts)) + One(q.pc \in Counts) - One(request[r].pc \in Counts)
        /\ Cardinality(In(Counted)') =
             Cardinality(In(Counted)) + One(q.pc \in Counted) - One(request[r].pc \in Counted)
    BY InMoves
  <2>2. Cardinality(In(Counts)) \in Nat /\ Cardinality(In(Counted)) \in Nat
    BY InSized
  <2>3. /\ One(q.pc \in Counts) \in {0, 1} /\ One(request[r].pc \in Counts) \in {0, 1}
        /\ One(q.pc \in Counted) \in {0, 1} /\ One(request[r].pc \in Counted) \in {0, 1}
    BY DEF One
  <2>4. in_flight_requests' = Cardinality(In(Counted)')
    BY <2>1 DEF CallInv
  <2>5. derived_per_core_ceiling' = derived_per_core_ceiling
    BY DEF derived_per_core_ceiling
  <2>6. CASE derived_per_core_ceiling = Unbounded
    BY <2>4, <2>5, <2>6 DEF CallInv
  <2>7. CASE derived_per_core_ceiling # Unbounded
    <3>1. in_flight \in Nat /\ in_flight + Cardinality(In(Counts)) = derived_per_core_ceiling
      BY <2>7 DEF CallInv
    <3>2. in_flight # Unbounded
      BY <3>1, CoreSizes
    <3>3. in_flight' \in Nat
          /\ in_flight' = in_flight + One(request[r].pc \in Counts) - One(q.pc \in Counts)
      BY <3>2
    <3>4. in_flight' + Cardinality(In(Counts)') = derived_per_core_ceiling
      BY <2>1, <2>2, <2>3, <3>1, <3>3
    <3> QED
      BY <2>4, <2>5, <2>7, <3>3, <3>4 DEF CallInv
  <2> QED
    BY <2>6, <2>7
<1>6. BytesInv'
  <2>1. q.held \in 0 .. max_body_bytes
    BY DEF RequestState
  <2>2. Cardinality(Bytes') = Cardinality(Bytes) + q.held - request[r].held
    BY <2>1, BytesMove
  <2>3. charged' = Cardinality(Bytes')
    BY <2>2 DEF BytesInv
  <2>4. \A s \in Requests : request'[s] = IF s = r THEN q ELSE request[s]
    BY DEF CoreType
  <2> QED
    BY <2>3, <2>4 DEF BytesInv
<1>7. DrainInv'
  <2>1. loop # "cut"
    BY DEF DrainInv
  <2>2. \A s \in Requests : request'[s] = IF s = r THEN q ELSE request[s]
    BY DEF CoreType
  <2>3. DOMAIN request = Requests /\ DOMAIN request' = Requests
    BY DEF CoreType
  <2>4. ASSUME drained = "zero", NEW s \in In(Counted)' PROVE request'[s].late = TRUE
    <3>1. s \in Requests /\ request'[s].pc \in Counted
      BY <2>3 DEF In
    <3>2. CASE s # r
      <4>1. s \in In(Counted)
        BY <2>2, <2>3, <3>1, <3>2 DEF In
      <4> QED
        BY <2>2, <2>4, <3>1, <3>2, <4>1 DEF DrainInv
    <3>3. CASE s = r
      <4>1. loop = "stop"
        BY <2>1, <2>4 DEF DrainInv, CoreType
      <4>2. request[r].pc \in Counted => request[r].late = TRUE
        BY <2>3, <2>4 DEF DrainInv, In
      <4> QED
        BY <2>2, <3>1, <3>3, <4>1, <4>2
    <3> QED
      BY <3>2, <3>3
  <2>5. \A s \in Requests : cut[s] = "none"
    BY <2>1 DEF DrainInv
  <2>6. "none" \notin Counted
    BY DEF Counted, Counts
  <2> QED
    BY <1>1, <2>1, <2>4, <2>5, <2>6 DEF DrainInv
<1> QED
  BY <1>2, <1>3, <1>4, <1>5, <1>6, <1>7

-----------------------------------------------------------------------------
(* The counters as a request finds them. *)
LEMMA RequestTyped ==
  ASSUME CoreInv, NEW r \in Requests
  PROVE  /\ request[r] \in RequestState /\ request \in [Requests -> RequestState]
         /\ request[r].held = request[r].got
         /\ request[r].held \in Nat /\ request[r].frame \in Nat /\ request[r].seen \in Nat
         /\ charged \in Nat /\ charged <= ceiling
         /\ in_flight_requests \in Nat /\ in_flight \in Nat \cup {Unbounded}
         /\ ceiling \in Nat /\ max_body_bytes \in Nat /\ Unbounded \notin Int
         /\ in_flight # Unbounded =>
              in_flight \in Nat /\ Take(in_flight) = in_flight - 1
              /\ Give(in_flight) = in_flight + 1
         /\ in_flight = Unbounded => Take(in_flight) = Unbounded /\ Give(in_flight) = Unbounded
<1>1. CoreType /\ CallInv /\ BytesInv
  BY DEF CoreInv
<1>2. request[r] \in RequestState /\ request[r].held = request[r].got
  BY <1>1 DEF CoreType, BytesInv
<1>3. Cardinality(Bytes) \in Nat /\ Cardinality(In(Counted)) \in Nat
  BY <1>1, BytesFinite, InSized
<1>4. charged \in Nat /\ in_flight_requests \in Nat
  BY <1>1, <1>3 DEF CallInv, BytesInv
<1>5. in_flight \in Nat \cup {Unbounded}
  BY <1>1 DEF CallInv
<1> QED
  BY <1>1, <1>2, <1>4, <1>5, CoreSizes DEF CoreType, RequestState, Take, Give

(* The calls that only move a request on, with nothing taken or given.     *)
LEMMA QuietSteps ==
  ASSUME CoreInv, NEW r \in Requests,
         \/ View(r) \/ (\E n \in 1 .. max_body_bytes : Frame(r, n)) \/ BudgetExhausted(r)
         \/ ChargeRaced(r) \/ BodyFails(r) \/ BodyRead(r) \/ Handled(r) \/ Cancel(r)
         \/ Written(r)
  PROVE  CoreInv'
<1> DEFINE x == request[r]
<1>1. /\ x \in RequestState /\ request \in [Requests -> RequestState]
      /\ x.held = x.got /\ x.held \in Nat /\ x.frame \in Nat /\ x.seen \in Nat
      /\ charged \in Nat /\ charged <= ceiling /\ ceiling \in Nat /\ max_body_bytes \in Nat
      /\ in_flight_requests \in Nat /\ in_flight \in Nat \cup {Unbounded}
  BY RequestTyped
<1>2. /\ in_flight' = in_flight /\ in_flight_requests' = in_flight_requests
      /\ charged' = charged /\ UNCHANGED reqLeaves
  BY DEF View, Frame, BudgetExhausted, ChargeRaced, BodyFails, BodyRead, Handled, Cancel, Written
<1>3. ASSUME NEW q \in RequestState, request' = [request EXCEPT ![r] = q], x.pc # "done",
             q.held = x.held, q.got = x.got, q.late = x.late,
             q.pc = "charge" => q.held + q.frame <= max_body_bytes,
             (q.pc \in Counted) = (x.pc \in Counted), (q.pc \in Counts) = (x.pc \in Counts)
      PROVE  CoreInv'
  <2>1. One(q.pc \in Counted) = One(x.pc \in Counted) /\ One(q.pc \in Counts) = One(x.pc \in Counts)
    BY <1>3
  <2>2. One(x.pc \in Counted) \in {0, 1} /\ One(x.pc \in Counts) \in {0, 1}
    BY DEF One
  <2>3. charged' = charged + q.held - request[r].held /\ charged' <= ceiling
    BY <1>1, <1>2, <1>3
  <2>4. in_flight_requests' =
          in_flight_requests + One(q.pc \in Counted) - One(request[r].pc \in Counted)
    BY <1>1, <1>2, <2>1, <2>2
  <2>5. in_flight # Unbounded =>
          /\ in_flight' = in_flight + One(request[r].pc \in Counts) - One(q.pc \in Counts)
          /\ in_flight' \in Nat
    BY <1>1, <1>2, <2>1, <2>2
  <2>6. in_flight = Unbounded => in_flight' = Unbounded
    BY <1>2
  <2> QED
    BY <1>1, <1>2, <1>3, <2>3, <2>4, <2>5, <2>6, RequestMoves
<1> DEFINE To(pc) == [x EXCEPT !.pc = pc]
           Answered(pc) == [x EXCEPT !.pc = pc, !.replies = TRUE]
<1>4. \A pc \in Counts \cup {"none", "writing", "done"} :
        /\ To(pc) \in RequestState /\ Answered(pc) \in RequestState
        /\ To(pc).held = x.held /\ To(pc).got = x.got /\ To(pc).late = x.late /\ To(pc).pc = pc
        /\ Answered(pc).held = x.held /\ Answered(pc).got = x.got
        /\ Answered(pc).late = x.late /\ Answered(pc).pc = pc
  BY <1>1 DEF RequestState
<1>5. ASSUME NEW pc \in Counts \cup {"none", "writing", "done"}, pc # "charge", x.pc # "done",
             (pc \in Counted) = (x.pc \in Counted), (pc \in Counts) = (x.pc \in Counts),
             request' = [request EXCEPT ![r] = To(pc)] \/ request' = [request EXCEPT ![r] = Answered(pc)]
      PROVE  CoreInv'
  <2> HIDE DEF x, To, Answered
  <2> QED
    BY <1>3, <1>4, <1>5
<1>6. CASE View(r)
  BY <1>1, <1>5, <1>6 DEF View, Goes, Counts, Counted
<1>7. CASE \E n \in 1 .. max_body_bytes : Frame(r, n)
  <2>1. PICK n \in 1 .. max_body_bytes : Frame(r, n)
    BY <1>7
  <2>2. CASE x.got + n > max_body_bytes
    <3>1. request' = [request EXCEPT ![r] = Answered("uncharge")] /\ x.pc = "body"
      BY <2>1, <2>2 DEF Frame
    <3>2. /\ "uncharge" \in Counts /\ "uncharge" \in Counted
          /\ x.pc \in Counts /\ x.pc \in Counted
      BY <3>1 DEF Counts, Counted
    <3> HIDE DEF x, Answered
    <3> QED
      BY <1>5, <3>1, <3>2
  <2>3. CASE ~ (x.got + n > max_body_bytes)
    <3> DEFINE q == [x EXCEPT !.pc = "charge", !.frame = n, !.seen = charged]
    <3>1. request' = [request EXCEPT ![r] = q] /\ x.pc = "body"
      BY <2>1, <2>3 DEF Frame
    <3>2. n \in Nat /\ "charge" \in Counts
      BY DEF Counts
    <3>9. q \in RequestState /\ q.held = x.held /\ q.got = x.got /\ q.late = x.late
          /\ q.pc = "charge" /\ q.frame = n
      BY <1>1, <3>2 DEF RequestState
    <3>3. q.held + q.frame <= max_body_bytes
      BY <1>1, <2>3, <3>9
    <3>4. (q.pc \in Counted) = (x.pc \in Counted) /\ (q.pc \in Counts) = (x.pc \in Counts)
      BY <3>1, <3>9 DEF Counts, Counted
    <3> HIDE DEF q
    <3> QED
      BY <1>3, <3>1, <3>9, <3>3, <3>4
  <2> QED
    BY <2>2, <2>3
<1>8. CASE BudgetExhausted(r)
  <2> DEFINE q == [x EXCEPT !.pc = "uncharge", !.replies = TRUE, !.frame = 0, !.seen = 0]
  <2>1. request' = [request EXCEPT ![r] = q] /\ x.pc = "charge"
    BY <1>1, <1>8 DEF BudgetExhausted
  <2>2. q \in RequestState /\ q.held = x.held /\ q.got = x.got /\ q.late = x.late
        /\ q.pc = "uncharge"
    BY <1>1 DEF RequestState, Counts
  <2>3. (q.pc \in Counted) = (x.pc \in Counted) /\ (q.pc \in Counts) = (x.pc \in Counts)
    BY <2>1, <2>2 DEF Counts, Counted
  <2> HIDE DEF q
  <2> QED
    BY <1>3, <2>1, <2>2, <2>3
<1>9. CASE ChargeRaced(r)
  <2> DEFINE q == [x EXCEPT !.seen = charged]
  <2>1. request' = [request EXCEPT ![r] = q] /\ x.pc = "charge"
    BY <1>1, <1>9 DEF ChargeRaced
  <2>2. q \in RequestState /\ q.held = x.held /\ q.got = x.got /\ q.late = x.late
        /\ q.pc = "charge" /\ q.frame = x.frame
    BY <1>1, <2>1 DEF RequestState, Counts
  <2>3. x.held + x.frame <= max_body_bytes
    BY <2>1 DEF CoreInv, BytesInv
  <2>4. (q.pc \in Counted) = (x.pc \in Counted) /\ (q.pc \in Counts) = (x.pc \in Counts)
    BY <2>1, <2>2 DEF Counts, Counted
  <2> HIDE DEF q
  <2> QED
    BY <1>3, <2>1, <2>2, <2>3, <2>4
<1>10. CASE BodyFails(r)
  <2>1. request' = [request EXCEPT ![r] = Answered("uncharge")] /\ x.pc = "body"
    BY <1>1, <1>10 DEF BodyFails
  <2>2. /\ "uncharge" \in Counts /\ "uncharge" \in Counted
        /\ x.pc \in Counts /\ x.pc \in Counted
    BY <2>1 DEF Counts, Counted
  <2> HIDE DEF x, Answered
  <2> QED
    BY <1>5, <2>1, <2>2
<1>11. CASE BodyRead(r)
  <2>1. request' = [request EXCEPT ![r] = To("handler")] /\ x.pc = "body"
    BY <1>1, <1>11 DEF BodyRead, Goes
  <2>2. "handler" \in Counts /\ "handler" \in Counted /\ x.pc \in Counts /\ x.pc \in Counted
    BY <2>1 DEF Counts, Counted
  <2> HIDE DEF x, To
  <2> QED
    BY <1>5, <2>1, <2>2
<1>12. CASE Handled(r)
  <2>1. request' = [request EXCEPT ![r] = Answered("uncharge")] /\ x.pc = "handler"
    BY <1>1, <1>12 DEF Handled
  <2>2. /\ "uncharge" \in Counts /\ "uncharge" \in Counted
        /\ x.pc \in Counts /\ x.pc \in Counted
    BY <2>1 DEF Counts, Counted
  <2> HIDE DEF x, Answered
  <2> QED
    BY <1>5, <2>1, <2>2
<1>13. CASE Cancel(r)
  <2>1. request' = [request EXCEPT ![r] = To("uncharge")] /\ x.pc \in {"body", "handler"}
    BY <1>1, <1>13 DEF Cancel, Goes
  <2>2. "uncharge" \in Counts /\ "uncharge" \in Counted /\ x.pc \in Counts /\ x.pc \in Counted
    BY <2>1 DEF Counts, Counted
  <2> HIDE DEF x, To
  <2> QED
    BY <1>5, <2>1, <2>2
<1>14. CASE Written(r)
  BY <1>1, <1>5, <1>14 DEF Written, Goes, Counts, Counted
<1> QED
  BY <1>6, <1>7, <1>8, <1>9, <1>10, <1>11, <1>12, <1>13, <1>14

(* The calls that take or give back a permit, a count or a charge.         *)
LEMMA TakingSteps ==
  ASSUME CoreInv, NEW r \in Requests,
         \/ (\E c \in Conns : Arrive(r, c)) \/ Count(r) \/ Charge(r) \/ Uncharge(r)
         \/ Uncount(r) \/ Unpermit(r)
  PROVE  CoreInv'
<1> DEFINE x == request[r]
<1>1. /\ x \in RequestState /\ request \in [Requests -> RequestState]
      /\ x.held = x.got /\ x.held \in Nat /\ x.frame \in Nat /\ x.seen \in Nat
      /\ charged \in Nat /\ charged <= ceiling /\ ceiling \in Nat /\ max_body_bytes \in Nat
      /\ in_flight_requests \in Nat /\ in_flight \in Nat \cup {Unbounded}
      /\ Unbounded \notin Int
      /\ in_flight # Unbounded =>
           in_flight \in Nat /\ Take(in_flight) = in_flight - 1
           /\ Give(in_flight) = in_flight + 1
      /\ in_flight = Unbounded => Take(in_flight) = Unbounded /\ Give(in_flight) = Unbounded
  BY RequestTyped
<1>2. UNCHANGED reqLeaves
  BY DEF Arrive, Count, Charge, Uncharge, Uncount, Unpermit
<1>3. CASE \E c \in Conns : Arrive(r, c)
  <2>1. PICK c \in Conns : Arrive(r, c)
    BY <1>3
  <2> DEFINE q == [x EXCEPT !.conn = c, !.pc = IF Free(in_flight) THEN "permit" ELSE "done"]
  <2>2. /\ request' = [request EXCEPT ![r] = q] /\ x.pc = "none"
        /\ in_flight' = IF Free(in_flight) THEN Take(in_flight) ELSE in_flight
        /\ in_flight_requests' = in_flight_requests /\ charged' = charged
    BY <1>1, <2>1 DEF Arrive
  <2>3. /\ q \in RequestState /\ q.held = x.held /\ q.got = x.got
        /\ q.pc = IF Free(in_flight) THEN "permit" ELSE "done"
    BY <1>1 DEF RequestState, Counts
  <2>4. /\ One(x.pc \in Counts) = 0 /\ One(x.pc \in Counted) = 0 /\ One(q.pc \in Counted) = 0
        /\ One(q.pc \in Counts) = One(Free(in_flight))
        /\ q.pc \notin Counted /\ q.pc # "charge"
    BY <2>2, <2>3 DEF One, Counts, Counted
  <2> HIDE DEF q
  <2>5. in_flight = Unbounded => in_flight' = Unbounded
    BY <1>1, <2>2
  <2>6. in_flight # Unbounded =>
          /\ in_flight' = in_flight + One(x.pc \in Counts) - One(q.pc \in Counts)
          /\ in_flight' \in Nat
    BY <1>1, <2>2, <2>4 DEF Free, One
  <2>7. charged' = charged + q.held - x.held /\ charged' <= ceiling
    BY <1>1, <2>2, <2>3
  <2>8. in_flight_requests' = in_flight_requests + One(q.pc \in Counted) - One(x.pc \in Counted)
    BY <1>1, <2>2, <2>4
  <2> QED
    BY <1>1, <1>2, <2>2, <2>3, <2>4, <2>5, <2>6, <2>7, <2>8, RequestMoves
<1>4. CASE Count(r)
  <2> DEFINE q == [x EXCEPT !.pc = "view", !.late = (loop = "stop")]
  <2>2. /\ request' = [request EXCEPT ![r] = q] /\ x.pc = "permit"
        /\ in_flight_requests' = in_flight_requests + 1
        /\ in_flight' = in_flight /\ charged' = charged
    BY <1>1, <1>4 DEF Count
  <2>3. q \in RequestState /\ q.held = x.held /\ q.got = x.got
        /\ q.pc = "view" /\ q.late = (loop = "stop")
    BY <1>1 DEF RequestState, Counts
  <2>4. /\ One(x.pc \in Counts) = 1 /\ One(q.pc \in Counts) = 1
        /\ One(x.pc \in Counted) = 0 /\ One(q.pc \in Counted) = 1
    BY <2>2, <2>3 DEF One, Counts, Counted
  <2> HIDE DEF q
  <2>5. charged' = charged + q.held - x.held /\ charged' <= ceiling
    BY <1>1, <2>2, <2>3
  <2>6. in_flight_requests' = in_flight_requests + One(q.pc \in Counted) - One(x.pc \in Counted)
    BY <1>1, <2>2, <2>4
  <2>7. /\ in_flight = Unbounded => in_flight' = Unbounded
        /\ in_flight # Unbounded =>
             /\ in_flight' = in_flight + One(x.pc \in Counts) - One(q.pc \in Counts)
             /\ in_flight' \in Nat
    BY <1>1, <2>2, <2>4
  <2> QED
    BY <1>1, <1>2, <2>2, <2>3, <2>5, <2>6, <2>7, RequestMoves
<1>5. CASE Charge(r)
  <2> DEFINE q == [x EXCEPT !.pc = "body", !.held = x.held + x.frame,
                            !.got = x.got + x.frame, !.frame = 0, !.seen = 0]
  <2>1. x.pc = "charge" /\ x.seen + x.frame <= ceiling /\ charged = x.seen
    BY <1>5 DEF Charge
  <2>2. /\ request' = [request EXCEPT ![r] = q]
        /\ charged' = charged + x.frame
        /\ in_flight' = in_flight /\ in_flight_requests' = in_flight_requests
    BY <1>1, <1>5 DEF Charge
  <2>3. x.held + x.frame \in 0 .. max_body_bytes /\ x.got + x.frame \in Nat
        /\ "body" \in Counts /\ 0 \in Nat
    BY <1>1, <2>1 DEF CoreInv, BytesInv, Counts
  <2>4. q \in RequestState /\ q.held = x.held + x.frame /\ q.got = x.got + x.frame
        /\ q.pc = "body" /\ q.late = x.late
    BY <1>1, <2>3 DEF RequestState
  <2>5. /\ One(x.pc \in Counts) = 1 /\ One(q.pc \in Counts) = 1
        /\ One(x.pc \in Counted) = 1 /\ One(q.pc \in Counted) = 1 /\ x.pc \in Counted
    BY <2>1, <2>4 DEF One, Counts, Counted
  <2> HIDE DEF q
  <2>6. charged' = charged + q.held - x.held /\ charged' <= ceiling
    BY <1>1, <2>1, <2>2, <2>4
  <2>7. in_flight_requests' = in_flight_requests + One(q.pc \in Counted) - One(x.pc \in Counted)
    BY <1>1, <2>2, <2>5
  <2>8. /\ in_flight = Unbounded => in_flight' = Unbounded
        /\ in_flight # Unbounded =>
             /\ in_flight' = in_flight + One(x.pc \in Counts) - One(q.pc \in Counts)
             /\ in_flight' \in Nat
    BY <1>1, <2>2, <2>5
  <2> QED
    BY <1>1, <1>2, <2>1, <2>2, <2>4, <2>5, <2>6, <2>7, <2>8, RequestMoves
<1>6. CASE Uncharge(r)
  <2> DEFINE q == [x EXCEPT !.pc = "uncount", !.held = 0, !.got = 0]
  <2>2. /\ request' = [request EXCEPT ![r] = q] /\ x.pc = "uncharge"
        /\ charged' = charged - x.held
        /\ in_flight' = in_flight /\ in_flight_requests' = in_flight_requests
    BY <1>1, <1>6 DEF Uncharge
  <2>1. 0 \in 0 .. max_body_bytes /\ 0 \in Nat /\ "uncount" \in Counts
    BY <1>1 DEF Counts
  <2>3. q \in RequestState /\ q.held = 0 /\ q.got = 0 /\ q.pc = "uncount" /\ q.late = x.late
    BY <1>1, <2>1 DEF RequestState
  <2>4. /\ One(x.pc \in Counts) = 1 /\ One(q.pc \in Counts) = 1
        /\ One(x.pc \in Counted) = 1 /\ One(q.pc \in Counted) = 1 /\ x.pc \in Counted
    BY <2>2, <2>3 DEF One, Counts, Counted
  <2> HIDE DEF q
  <2>5. charged' = charged + q.held - x.held /\ charged' <= ceiling
    BY <1>1, <2>2, <2>3
  <2>6. in_flight_requests' = in_flight_requests + One(q.pc \in Counted) - One(x.pc \in Counted)
    BY <1>1, <2>2, <2>4
  <2>7. /\ in_flight = Unbounded => in_flight' = Unbounded
        /\ in_flight # Unbounded =>
             /\ in_flight' = in_flight + One(x.pc \in Counts) - One(q.pc \in Counts)
             /\ in_flight' \in Nat
    BY <1>1, <2>2, <2>4
  <2> QED
    BY <1>1, <1>2, <2>2, <2>3, <2>4, <2>5, <2>6, <2>7, RequestMoves
<1>7. CASE Uncount(r)
  <2> DEFINE q == [x EXCEPT !.pc = "unpermit"]
  <2>2. /\ request' = [request EXCEPT ![r] = q] /\ x.pc = "uncount"
        /\ in_flight_requests' = in_flight_requests - 1
        /\ in_flight' = in_flight /\ charged' = charged
    BY <1>1, <1>7 DEF Uncount, Goes
  <2>3. q \in RequestState /\ q.held = x.held /\ q.got = x.got /\ q.pc = "unpermit"
    BY <1>1 DEF RequestState, Counts
  <2>4. /\ One(x.pc \in Counts) = 1 /\ One(q.pc \in Counts) = 1
        /\ One(x.pc \in Counted) = 1 /\ One(q.pc \in Counted) = 0 /\ q.pc \notin Counted
    BY <2>2, <2>3 DEF One, Counts, Counted
  <2> HIDE DEF q
  <2>5. charged' = charged + q.held - x.held /\ charged' <= ceiling
    BY <1>1, <2>2, <2>3
  <2>6. in_flight_requests' = in_flight_requests + One(q.pc \in Counted) - One(x.pc \in Counted)
    BY <1>1, <2>2, <2>4
  <2>7. /\ in_flight = Unbounded => in_flight' = Unbounded
        /\ in_flight # Unbounded =>
             /\ in_flight' = in_flight + One(x.pc \in Counts) - One(q.pc \in Counts)
             /\ in_flight' \in Nat
    BY <1>1, <2>2, <2>4
  <2> QED
    BY <1>1, <1>2, <2>2, <2>3, <2>4, <2>5, <2>6, <2>7, RequestMoves
<1>8. CASE Unpermit(r)
  <2> DEFINE q == [x EXCEPT !.pc = IF x.replies THEN "writing" ELSE "done"]
  <2>2. /\ request' = [request EXCEPT ![r] = q] /\ x.pc = "unpermit"
        /\ in_flight' = Give(in_flight)
        /\ in_flight_requests' = in_flight_requests /\ charged' = charged
    BY <1>1, <1>8 DEF Unpermit, Goes
  <2>3. q \in RequestState /\ q.held = x.held /\ q.got = x.got /\ q.pc \in {"writing", "done"}
    BY <1>1 DEF RequestState, Counts
  <2>4. /\ One(x.pc \in Counts) = 1 /\ One(q.pc \in Counts) = 0
        /\ One(x.pc \in Counted) = 0 /\ One(q.pc \in Counted) = 0 /\ q.pc \notin Counted
    BY <2>2, <2>3 DEF One, Counts, Counted
  <2> HIDE DEF q
  <2>5. charged' = charged + q.held - x.held /\ charged' <= ceiling
    BY <1>1, <2>2, <2>3
  <2>6. in_flight_requests' = in_flight_requests + One(q.pc \in Counted) - One(x.pc \in Counted)
    BY <1>1, <2>2, <2>4
  <2>7. /\ in_flight = Unbounded => in_flight' = Unbounded
        /\ in_flight # Unbounded =>
             /\ in_flight' = in_flight + One(x.pc \in Counts) - One(q.pc \in Counts)
             /\ in_flight' \in Nat
    BY <1>1, <2>2, <2>4
  <2> QED
    BY <1>1, <1>2, <2>2, <2>3, <2>4, <2>5, <2>6, <2>7, RequestMoves
<1> QED
  BY <1>3, <1>4, <1>5, <1>6, <1>7, <1>8

(* The accept loop and the flag; a drain that ends on zero counts nobody.  *)
LEMMA LoopSteps ==
  ASSUME CoreInv, Shutdown \/ Check \/ AcceptIdle \/ DrainZero \/ DrainExpires
  PROVE  CoreInv'
<1> USE DEF CoreInv
<1>1. UNCHANGED <<pool, conn, request, in_flight, in_flight_requests, charged, connections,
                  handshakes, cut>>
  BY DEF Shutdown, Check, AcceptIdle, DrainZero, DrainExpires, requests
<1>2. PoolInv'
  BY <1>1 DEF PoolInv
<1>3. CoreType'
  <2>1. shutdown' \in BOOLEAN /\ loop' \in {"check", "accept", "drain", "stop", "cut"}
        /\ drained' \in {"no", "zero", "grace"}
    BY DEF CoreType, Shutdown, Check, AcceptIdle, DrainZero, DrainExpires
  <2> QED
    BY <1>1, <2>1 DEF CoreType, ceiling
<1>4. ConnInv'
  <2>1. At(Standing)' = At(Standing) /\ At(Shaking)' = At(Shaking)
    BY <1>1 DEF At, Standing, Shaking
  <2> QED
    BY <1>1, <2>1 DEF ConnInv
<1>5. In(Counts)' = In(Counts) /\ In(Counted)' = In(Counted) /\ Bytes' = Bytes
  BY <1>1 DEF In, Counts, Counted, Bytes
<1>6. CallInv'
  BY <1>1, <1>5 DEF CallInv, derived_per_core_ceiling
<1>7. BytesInv'
  BY <1>1, <1>5 DEF BytesInv
<1>8. DrainInv'
  <2>1. CASE Shutdown \/ Check \/ AcceptIdle
    <3>1. /\ drained' = drained
          /\ \/ loop' = loop
             \/ loop \in {"check", "accept"} /\ loop' \in {"check", "accept", "drain"}
      BY <2>1 DEF Shutdown, Check, AcceptIdle
    <3> QED
      BY <1>1, <1>5, <3>1 DEF DrainInv
  <2>2. CASE DrainZero
    <3>1. loop = "drain" /\ loop' = "stop" /\ in_flight_requests = 0
      BY <2>2 DEF DrainZero
    <3>2. IsFiniteSet(In(Counted)) /\ Cardinality(In(Counted)) = 0
      BY <3>1, InSized DEF CallInv
    <3>3. In(Counted) = {}
      BY <3>2, FS_EmptySet
    <3>4. "none" \notin Counted
      BY DEF Counted, Counts
    <3> QED
      BY <1>1, <1>5, <3>1, <3>3, <3>4 DEF DrainInv
  <2>3. CASE DrainExpires
    BY <1>1, <1>5, <2>3 DEF DrainInv, DrainExpires
  <2> QED
    BY <2>1, <2>2, <2>3
<1> QED
  BY <1>2, <1>3, <1>4, <1>6, <1>7, <1>8

(* The end of the runtime: everything that was held is dropped.            *)
LEMMA CutStep == ASSUME CoreInv, Cut PROVE CoreInv'
<1> USE DEF CoreInv
<1>1. /\ loop = "stop" /\ loop' = "cut" /\ pool' = pool /\ shutdown' = shutdown
      /\ drained' = drained /\ conn' = [c \in Conns |-> "gone"]
      /\ connections' = max_concurrent_connections /\ handshakes' = pool.handshakes
      /\ in_flight' = derived_per_core_ceiling /\ in_flight_requests' = 0 /\ charged' = 0
  BY DEF Cut
<1>2. /\ request' = [r \in Requests |-> [Fresh EXCEPT !.pc = "done", !.late = request[r].late]]
      /\ cut' = [r \in Requests |-> IF Live(r) THEN request[r].pc ELSE "none"]
  BY DEF Cut
<1>3. \A r \in Requests :
        /\ request'[r] \in RequestState /\ request'[r].pc = "done"
        /\ request'[r].held = 0 /\ request'[r].got = 0 /\ request'[r].late = request[r].late
  <2>1. \A r \in Requests : request[r].late \in BOOLEAN
    BY DEF CoreType, RequestState
  <2>2. 0 \in 0 .. max_body_bytes
    BY CoreSizes
  <2>3. \A b \in BOOLEAN :
          LET q == [Fresh EXCEPT !.pc = "done", !.late = b]
          IN  /\ q \in RequestState /\ q.pc = "done" /\ q.held = 0 /\ q.got = 0 /\ q.late = b
    BY <2>2 DEF Fresh, RequestState
  <2> QED
    BY <1>2, <2>1, <2>3
<1>4. DOMAIN request' = Requests
  BY <1>2
<1>5. request' \in [Requests -> RequestState]
  BY <1>2, <1>3
<1>6. PoolInv'
  BY <1>1 DEF PoolInv
<1>7. CoreType'
  <2>1. 0 <= ceiling
    BY CoreSizes
  <2> QED
    BY <1>1, <1>5, <2>1 DEF CoreType, ceiling
<1>8. ConnInv'
  <2>1. At(Standing)' = {} /\ At(Shaking)' = {}
    BY <1>1 DEF At, Standing, Shaking
  <2>2. max_concurrent_connections \in Nat /\ Cardinality({}) = 0
    BY CoreSizes, FS_EmptySet
  <2> QED
    BY <1>1, <2>1, <2>2 DEF PoolInv, ConnInv
<1>9. CallInv'
  <2>1. In(Counts)' = {} /\ In(Counted)' = {}
    BY <1>3, <1>4 DEF In, Counts, Counted
  <2>2. derived_per_core_ceiling \in Nat \cup {Unbounded} /\ Cardinality({}) = 0
        /\ derived_per_core_ceiling' = derived_per_core_ceiling
    BY CoreSizes, FS_EmptySet DEF derived_per_core_ceiling
  <2> QED
    BY <1>1, <2>1, <2>2 DEF CallInv
<1>10. BytesInv'
  <2>1. Bytes' = {}
    BY <1>3, <1>4, CoreSizes DEF Bytes
  <2> QED
    BY <1>1, <1>3, <2>1, FS_EmptySet DEF BytesInv
<1>11. DrainInv'
  <2>1. \A r \in Requests : request[r].pc \in Counts \cup {"none", "writing", "done"}
    BY DEF CoreType, RequestState
  <2>2. cut' \in [Requests -> Counts \cup {"none", "writing"}]
    BY <1>2, <2>1 DEF Live
  <2>3. \A r \in Requests : cut'[r] \in Counted => r \in In(Counted)
    BY <1>2 DEF Live, In, Counted, Counts, CoreType
  <2>4. In(Counted)' = {}
    BY <1>3, <1>4 DEF In, Counts, Counted
  <2>5. drained' = "zero" => \A r \in Requests : cut'[r] \in Counted => request'[r].late = TRUE
    BY <1>1, <1>3, <2>3 DEF DrainInv
  <2> QED
    BY <1>1, <1>3, <2>2, <2>4, <2>5 DEF DrainInv
<1> QED
  BY <1>6, <1>7, <1>8, <1>9, <1>10, <1>11

LEMMA StepCoreInv == CoreInv /\ [CoreNext]_coreVars => CoreInv'
<1> SUFFICES ASSUME CoreInv, [CoreNext]_coreVars PROVE CoreInv'
  OBVIOUS
<1>1. CASE UNCHANGED coreVars
  <2>1. ConnInv'
    BY <1>1 DEF CoreInv, ConnInv, coreVars, At
  <2> QED
    BY <1>1, <2>1, ConnRest DEF coreVars, requests, CoreInv, CoreType
<1>2. CASE Shutdown \/ Check \/ AcceptIdle \/ DrainZero \/ DrainExpires
  BY <1>2, LoopSteps
<1>3. CASE Cut
  BY <1>3, CutStep
<1>4. ASSUME NEW c \in Conns,
             \/ Accept(c) \/ AcquireHandshake(c) \/ WaitExpires(c) \/ Sign(c) \/ TlsDone(c)
             \/ TlsFails(c) \/ Age(c) \/ ConnEnds(c)
      PROVE  CoreInv'
  BY <1>4, ConnSteps
<1>5. ASSUME NEW r \in Requests,
             \/ View(r) \/ (\E n \in 1 .. max_body_bytes : Frame(r, n)) \/ BudgetExhausted(r)
             \/ ChargeRaced(r) \/ BodyFails(r) \/ BodyRead(r) \/ Handled(r) \/ Cancel(r)
             \/ Written(r)
      PROVE  CoreInv'
  BY <1>5, QuietSteps
<1>6. ASSUME NEW r \in Requests,
             \/ (\E c \in Conns : Arrive(r, c)) \/ Count(r) \/ Charge(r) \/ Uncharge(r)
             \/ Uncount(r) \/ Unpermit(r)
      PROVE  CoreInv'
  BY <1>6, TakingSteps
<1> QED
  BY <1>1, <1>2, <1>3, <1>4, <1>5, <1>6 DEF CoreNext, Loop

(* What the sizes say of what is left.                                     *)
LEMMA CoreInvKeeps == CoreInv => CoreBoundsKept
<1> SUFFICES ASSUME CoreInv PROVE CoreBoundsKept
  OBVIOUS
<1> USE DEF CoreInv
<1>1. DOMAIN conn = Conns /\ DOMAIN request = Requests
  BY DEF CoreType
<1>2. /\ {c \in DOMAIN conn : conn[c] \in {"wait", "tls", "sign", "open", "closing"}} = At(Standing)
      /\ {c \in DOMAIN conn : conn[c] \in {"tls", "sign"}} = At(Shaking)
      /\ {c \in DOMAIN conn : conn[c] = "sign"} = At({"sign"})
  BY <1>1 DEF At, Standing, Shaking
<1>3. /\ Cardinality(At(Standing)) \in Nat /\ Cardinality(At(Shaking)) \in Nat
      /\ Cardinality(In(Counts)) \in Nat /\ Cardinality(In(Counted)) \in Nat
      /\ Cardinality(At({"sign"})) \in Nat
  BY AtSized, InSized
<1>4. Cardinality(Bytes) \in Nat
  BY BytesFinite
<1>5. Cardinality(In(Counted)) <= Cardinality(Requests)
  <2>1. In(Counted) \subseteq Requests
    BY <1>1 DEF In
  <2> QED
    BY <2>1, CoreSizes, FS_Subset
<1>6. Cardinality(At({"sign"})) <= Cardinality(At(Shaking))
  <2>1. At({"sign"}) \subseteq At(Shaking) /\ IsFiniteSet(At(Shaking))
    BY AtSized DEF At, Shaking
  <2> QED
    BY <2>1, FS_Subset
<1>7. /\ connections \in Nat /\ connections = max_concurrent_connections - Cardinality(At(Standing))
      /\ connections <= max_concurrent_connections
  BY <1>3, CoreSizes DEF ConnInv
<1>8. \/ handshakes = Unbounded /\ pool.handshakes = Unbounded
      \/ /\ handshakes \in Nat /\ handshakes \in 0 .. pool.handshakes
         /\ handshakes = pool.handshakes - Cardinality(At(Shaking))
         /\ pool.handshakes \in Nat /\ Cardinality(At(Shaking)) <= pool.handshakes
  BY <1>3, CoreSizes DEF ConnInv, PoolInv
<1>9. \/ in_flight = Unbounded
      \/ /\ in_flight \in 0 .. derived_per_core_ceiling
         /\ in_flight = derived_per_core_ceiling - Cardinality(In(Counts))
  BY <1>3, CoreSizes DEF CallInv
<1>10. in_flight_requests = Cardinality(In(Counted)) /\ charged = Cardinality(Bytes)
       /\ charged \in 0 .. ceiling
  BY <1>4, CoreSizes DEF CallInv, BytesInv, CoreType
<1>11. in_flight_requests \in 0 .. Cardinality(DOMAIN request)
  <2>1. Cardinality(Requests) \in Nat
    BY CoreSizes, FS_CardinalityType
  <2> QED
    BY <1>1, <1>3, <1>5, <1>10, <2>1
<1>12. \A r \in DOMAIN request :
         /\ request[r].pc \in Counts \cup {"none", "writing", "done"}
         /\ request[r].held \in 0 .. max_body_bytes
         /\ request[r].conn \in DOMAIN conn \cup {"none"}
  BY <1>1 DEF CoreType, RequestState
<1>13. CoreTypeOK
  <2>1. pool.workers \in Nat \ {0} /\ pool.may_block \in BOOLEAN
    BY DEF PoolInv
  <2>2. connections \in 0 .. max_concurrent_connections
    BY <1>7, CoreSizes
  <2>3. \A c \in DOMAIN conn :
          conn[c] \in {"none", "wait", "tls", "sign", "open", "closing", "gone"}
    BY DEF CoreType
  <2> QED
    BY <1>8, <1>9, <1>10, <1>11, <1>12, <2>1, <2>2, <2>3 DEF CoreTypeOK, CoreType
<1>14. NothingLeaks
  BY <1>2, <1>7, <1>8, <1>9, <1>10, Zenon DEF NothingLeaks, Counted
<1>15. WorkerLeft
  <2>1. pool.may_block \in BOOLEAN /\ pool.workers \in Nat
    BY DEF PoolInv
  <2>2. CASE pool.may_block = TRUE
    <3>1. pool.handshakes \in Nat /\ pool.handshakes < pool.workers
      BY <2>2 DEF PoolInv
    <3>2. Cardinality(At(Shaking)) <= pool.handshakes
      BY <1>8, <3>1, CoreSizes
    <3>3. Cardinality(At({"sign"})) < pool.workers
      BY <1>3, <1>6, <2>1, <3>1, <3>2
    <3> QED
      BY <1>2, <3>3 DEF WorkerLeft
  <2> QED
    BY <2>1, <2>2 DEF WorkerLeft
<1>16. CleanDrain
  BY <1>1 DEF CleanDrain, DrainInv, Counted, Counts
<1> QED
  BY <1>13, <1>14, <1>15, <1>16 DEF CoreBoundsKept

(***************************************************************************)
(* For any number of connections, requests, permits, bytes and workers of  *)
(* a core: every semaphore, counter and charge (serve_connection,          *)
(* InFlightGuard, BodyByteBudget) has given out exactly what the live      *)
(* connections and requests hold, on every path out; a drain that saw zero *)
(* cuts no request being served then; and blocking handshake signatures    *)
(* leave the core a worker (CorePool::for_core).                           *)
(***************************************************************************)
THEOREM CoreBoundsKeptHolds == CoreSpec => []CoreBoundsKept
<1>1. CoreSpec => []CoreInv
  BY InitCoreInv, StepCoreInv, PTL DEF CoreSpec
<1> QED
  BY <1>1, CoreInvKeeps, PTL

-----------------------------------------------------------------------------
(* The audit stream. *)
ProducerState == [pc : {"idle", "send", "refund", "drop"}, record : Records]

StreamState ==
  [pc : {"recv", "took", "report", "tell", "write", "ack", "absent"},
   message : Records \cup {"flush", "none"}, report : Nat]

DrainState ==
  [pc : {"idle", "waiting", "check", "Drained", "OutcomeUnknown"}, sent : Nat, drops : Nat]

(* A producer with a record in hand, with a slot, and with a slot for an   *)
(* unattributed record.                                                    *)
Handling == [pc : {"send", "refund", "drop"}, record : Records]

Reserving == [pc : {"send", "refund"}, record : Records]

Unattributed == [pc : {"send"}, record : {"anon"}]

With(S) == {p \in Producers : producer[p] \in S}

AuditType ==
  /\ producer \in [Producers -> ProducerState]
  /\ chan \in Seq(Records \cup {"flush"}) /\ Len(chan) <= STDERR_AUDIT_QUEUE_DEPTH
  /\ stream \in StreamState /\ drain \in DrainState
  /\ queued \in Nat /\ queued <= STDERR_AUDIT_QUEUE_DEPTH
  /\ dropped \in Nat /\ failed \in BOOLEAN /\ acked \in BOOLEAN
  /\ failures \in Nat /\ failures <= MaxFailures
  /\ offered \in Nat /\ offered <= MaxRecords
  /\ sent \in Nat /\ written \in Nat /\ told \in Nat /\ lost \in Nat

(* What the writer has in hand at each of its steps. *)
HandInv ==
  /\ stream.pc \in {"recv", "absent"} => stream.message = "none"
  /\ stream.pc \in {"took", "write"} => stream.message \in Records
  /\ stream.pc = "ack" => stream.message = "flush"
  /\ stream.pc # "tell" => stream.report = 0

CountsInv ==
  /\ offered = Cardinality(With(Handling))
               + Cardinality(Places(Records)) + Holding
               + written + lost + dropped + stream.report + told
  /\ queued = Cardinality(With(Reserving)) + Cardinality(Places(Records))
              + One(stream.pc = "took")
  /\ sent = written + lost + Holding + Cardinality(Places(Records))

(* A slot an unattributed record has reserved counts before it is sent.    *)
ShareInv ==
  Cardinality(With(Unattributed)) + Cardinality(Places({"anon"}))
    <= STDERR_AUDIT_UNATTRIBUTED_CEILING

(* The flush stands behind the records it speaks for, in the channel, in   *)
(* the writer's hand and when it is acknowledged.                          *)
BehindInv ==
  /\ \A i \in Places({"flush"}) : written + lost + Holding + i - 1 >= drain.sent
  /\ stream.message = "flush" \/ acked = TRUE => written + lost >= drain.sent
  /\ failed = FALSE => lost = 0

(* So it does behind the drops, or their report has failed.                *)
DropsInv ==
  /\ told + dropped + stream.report >= drain.drops
  /\ stream.pc = "tell" /\ stream.message = "flush" => told + stream.report >= drain.drops
  /\ stream.pc = "ack" \/ acked = TRUE => told >= drain.drops \/ failed = TRUE

DrainsInv ==
  /\ drain.pc = "idle" => Places({"flush"}) = {} /\ stream.message # "flush" /\ acked = FALSE
  /\ drain.pc = "check" => acked = TRUE
  /\ drain.pc = "Drained" => written >= drain.sent /\ told >= drain.drops

AuditInv ==
  AuditType /\ HandInv /\ CountsInv /\ ShareInv /\ BehindInv /\ DropsInv /\ DrainsInv

-----------------------------------------------------------------------------
LEMMA WithSized ==
  ASSUME NEW S
  PROVE  IsFiniteSet(With(S)) /\ Cardinality(With(S)) \in Nat
<1>1. With(S) \subseteq Producers /\ IsFiniteSet(Producers)
  BY AuditAssumption DEF With, AuditAssumption
<1> QED
  BY <1>1, FS_Subset, FS_CardinalityType

(* One producer moves. *)
LEMMA WithMoves ==
  ASSUME AuditType, NEW p \in Producers, NEW q, producer' = [producer EXCEPT ![p] = q], NEW S
  PROVE  Cardinality(With(S)') = Cardinality(With(S)) + One(q \in S) - One(producer[p] \in S)
<1>1. IsFiniteSet(With(S)) /\ Cardinality(With(S)) \in Nat
  BY WithSized
<1>2. \A s \in Producers : producer'[s] = IF s = p THEN q ELSE producer[s]
  BY DEF AuditType
<1>3. CASE q \in S /\ producer[p] \in S
  <2>1. With(S)' = With(S)
    BY <1>2, <1>3 DEF With
  <2> QED
    BY <1>1, <1>3, <2>1 DEF One
<1>4. CASE q \in S /\ producer[p] \notin S
  <2>1. With(S)' = With(S) \cup {p} /\ p \notin With(S)
    BY <1>2, <1>4 DEF With
  <2> QED
    BY <1>1, <1>4, <2>1, OneMore DEF One
<1>5. CASE q \notin S /\ producer[p] \in S
  <2>1. With(S)' = With(S) \ {p} /\ p \in With(S)
    BY <1>2, <1>5 DEF With
  <2> QED
    BY <1>1, <1>5, <2>1, OneLess DEF One
<1>6. CASE q \notin S /\ producer[p] \notin S
  <2>1. With(S)' = With(S)
    BY <1>2, <1>6 DEF With
  <2> QED
    BY <1>1, <1>6, <2>1 DEF One
<1> QED
  BY <1>3, <1>4, <1>5, <1>6

(* The channel has places for no more than its length, and takes a message *)
(* at its end and gives one from its head.                                 *)
LEMMA PlacesSized ==
  ASSUME AuditType, NEW kinds
  PROVE  IsFiniteSet(Places(kinds)) /\ Cardinality(Places(kinds)) \in Nat
<1>1. Len(chan) \in Nat
  BY DEF AuditType
<1>2. IsFiniteSet(1 .. Len(chan))
  BY <1>1, FS_Interval
<1>3. Places(kinds) \subseteq 1 .. Len(chan)
  BY DEF Places
<1> QED
  BY <1>2, <1>3, FS_Subset, FS_CardinalityType

LEMMA PlacesAppend ==
  ASSUME AuditType, NEW m, chan' = Append(chan, m), NEW kinds
  PROVE  /\ Cardinality(Places(kinds)') = Cardinality(Places(kinds)) + One(m \in kinds)
         /\ \A i \in Places(kinds)' : i \in Places(kinds) \/ (i = Len(chan) + 1 /\ m \in kinds)
<1>1. chan \in Seq(Records \cup {"flush"}) /\ Len(chan) \in Nat
  BY DEF AuditType
<1>2. Len(chan') = Len(chan) + 1
  BY <1>1
<1>3. \A i \in 1 .. Len(chan) : chan'[i] = chan[i]
  BY <1>1
<1>4. chan'[Len(chan) + 1] = m
  BY <1>1
<1>5. IsFiniteSet(Places(kinds)) /\ Cardinality(Places(kinds)) \in Nat
  BY PlacesSized
<1>6. CASE m \in kinds
  <2>1. Places(kinds)' = Places(kinds) \cup {Len(chan) + 1} /\ Len(chan) + 1 \notin Places(kinds)
    BY <1>1, <1>2, <1>3, <1>4, <1>6 DEF Places
  <2> QED
    BY <1>5, <1>6, <2>1, OneMore DEF One
<1>7. CASE m \notin kinds
  <2>1. Places(kinds)' = Places(kinds)
    BY <1>1, <1>2, <1>3, <1>4, <1>7 DEF Places
  <2> QED
    BY <1>5, <1>7, <2>1 DEF One
<1> QED
  BY <1>6, <1>7

LEMMA PlacesTail ==
  ASSUME AuditType, chan # <<>>, chan' = Tail(chan), NEW kinds
  PROVE  /\ Cardinality(Places(kinds)') = Cardinality(Places(kinds)) - One(Head(chan) \in kinds)
         /\ \A i \in Places(kinds)' : i + 1 \in Places(kinds)
         /\ Head(chan) \in kinds => 1 \in Places(kinds)
<1>1. chan \in Seq(Records \cup {"flush"}) /\ Len(chan) \in Nat /\ Len(chan) > 0
  BY DEF AuditType
<1>2. Len(chan') = Len(chan) - 1
  BY <1>1
<1>3. \A i \in 1 .. Len(chan) - 1 : chan'[i] = chan[i + 1]
  BY <1>1
<1>4. Head(chan) = chan[1]
  BY <1>1
<1>5. IsFiniteSet(Places(kinds)) /\ Cardinality(Places(kinds)) \in Nat
  BY PlacesSized
<1> DEFINE Q == Places(kinds)'
           R == Places(kinds) \ {1}
           f == [j \in R |-> j - 1]
<1>6. \A i : i \in Q <=> i \in 1 .. Len(chan) - 1 /\ chan[i + 1] \in kinds
  BY <1>1, <1>2, <1>3 DEF Places
<1>7. \A i : i \in Places(kinds) <=> i \in 1 .. Len(chan) /\ chan[i] \in kinds
  BY DEF Places
<1>8. \A i \in Q : i \in Int /\ i + 1 \in R
  BY <1>1, <1>6, <1>7
<1>9. \A j \in R : j - 1 \in Q /\ j \in Int /\ j - 1 + 1 = j
  BY <1>1, <1>6, <1>7
<1> HIDE DEF Q, R
<1>10. f \in Bijection(R, Q)
  <2>1. f \in [R -> Q]
    BY <1>9
  <2>2. \A i, j \in R : f[i] = f[j] => i = j
    BY <1>9
  <2>3. \A i \in Q : \E j \in R : f[j] = i
    <3> TAKE i \in Q
    <3>1. i + 1 \in R /\ f[i + 1] = i
      BY <1>8
    <3> QED
      BY <3>1
  <2> HIDE DEF f
  <2> QED
    BY <2>1, <2>2, <2>3, Zenon DEF Bijection, Injection, Surjection, IsInjective
<1>11. ExistsBijection(R, Q)
  BY <1>10 DEF ExistsBijection
<1>12. IsFiniteSet(R)
  BY <1>5, FS_Subset DEF R
<1>13. Cardinality(Q) = Cardinality(R)
  BY <1>11, <1>12, FS_Bijection
<1>14. Cardinality(R) = Cardinality(Places(kinds)) - One(Head(chan) \in kinds)
  <2>1. CASE Head(chan) \in kinds
    <3>1. 1 \in Places(kinds)
      BY <1>1, <1>4, <1>7, <2>1
    <3> QED
      BY <1>5, <2>1, <3>1, OneLess DEF R, One
  <2>2. CASE Head(chan) \notin kinds
    <3>1. R = Places(kinds)
      BY <1>4, <1>7, <2>2 DEF R
    <3> QED
      BY <1>5, <2>2, <3>1 DEF One
  <2> QED
    BY <2>1, <2>2
<1>15. Head(chan) \in kinds => 1 \in Places(kinds)
  BY <1>1, <1>4, <1>7
<1>16. \A i \in Q : i + 1 \in Places(kinds)
  BY <1>8 DEF R
<1> QED
  BY <1>13, <1>14, <1>15, <1>16 DEF Q

-----------------------------------------------------------------------------
LEMMA InitAuditInv == AuditInit => AuditInv
<1> SUFFICES ASSUME AuditInit PROVE AuditInv
  OBVIOUS
<1>1. PICK started \in Starts :
        /\ failed = ~ started
        /\ stream = [pc |-> IF started THEN "recv" ELSE "absent", message |-> "none", report |-> 0]
  BY DEF AuditInit
<1>2. /\ stream \in StreamState /\ stream.pc \in {"recv", "absent"} /\ stream.message = "none"
      /\ stream.report = 0 /\ failed \in BOOLEAN
  BY <1>1, AuditAssumption DEF StreamState, AuditAssumption
<1>3. producer \in [Producers -> ProducerState]
  BY DEF AuditInit, ProducerState, Records
<1>4. drain \in DrainState /\ drain.pc = "idle" /\ drain.sent = 0 /\ drain.drops = 0
  BY DEF AuditInit, DrainState
<1>5. chan \in Seq(Records \cup {"flush"}) /\ Len(chan) = 0
  BY DEF AuditInit
<1>6. AuditType
  <2>1. /\ STDERR_AUDIT_QUEUE_DEPTH \in Nat /\ 0 <= STDERR_AUDIT_QUEUE_DEPTH
        /\ 0 <= MaxFailures /\ 0 <= MaxRecords
    BY AuditAssumption DEF AuditAssumption
  <2>2. /\ queued = 0 /\ dropped = 0 /\ acked = FALSE /\ failures = 0
        /\ offered = 0 /\ sent = 0 /\ written = 0 /\ told = 0 /\ lost = 0
    BY DEF AuditInit
  <2> QED
    BY <1>2, <1>3, <1>4, <1>5, <2>1, <2>2 DEF AuditType
<1>7. \A kinds : Places(kinds) = {}
  BY <1>5 DEF Places
<1>8. With(Handling) = {} /\ With(Reserving) = {}
      /\ With(Unattributed) = {}
  BY DEF With, AuditInit, Handling, Reserving, Unattributed
<1>9. Cardinality({}) = 0 /\ Holding = 0
  BY <1>2, FS_EmptySet DEF Holding, Records
<1>10. Places(Records) = {} /\ Places({"anon"}) = {} /\ Places({"flush"}) = {}
  BY <1>7
<1>11. HandInv
  BY <1>2 DEF HandInv
<1>12. CountsInv
  <2>1. One(stream.pc = "took") = 0
    BY <1>2 DEF One
  <2>2. /\ queued = 0 /\ dropped = 0 /\ offered = 0 /\ sent = 0 /\ written = 0 /\ told = 0
        /\ lost = 0
    BY DEF AuditInit
  <2> QED
    BY <1>2, <1>8, <1>9, <1>10, <2>1, <2>2 DEF CountsInv
<1>13. ShareInv
  BY <1>8, <1>9, <1>10, AuditAssumption DEF ShareInv, AuditAssumption
<1>14. BehindInv /\ DropsInv /\ DrainsInv
  BY <1>2, <1>4, <1>10 DEF BehindInv, DropsInv, DrainsInv, AuditInit
<1> QED
  BY <1>6, <1>11, <1>12, <1>13, <1>14 DEF AuditInv

(* The sizes as the steps find them. *)
LEMMA AuditSizes ==
  ASSUME AuditInv
  PROVE  /\ Cardinality(With(Handling)) \in Nat
         /\ Cardinality(With(Reserving)) \in Nat
         /\ Cardinality(With(Unattributed)) \in Nat
         /\ Cardinality(Places(Records)) \in Nat /\ Cardinality(Places({"anon"})) \in Nat
         /\ Cardinality(With(Unattributed)) <= Cardinality(With(Reserving))
         /\ Cardinality(Places({"anon"})) <= Cardinality(Places(Records))
         /\ Holding \in {0, 1} /\ One(stream.pc = "took") \in {0, 1}
         /\ stream.report \in Nat /\ drain.sent \in Nat /\ drain.drops \in Nat
         /\ STDERR_AUDIT_QUEUE_DEPTH \in Nat
         /\ STDERR_AUDIT_UNATTRIBUTED_CEILING \in 0 .. STDERR_AUDIT_QUEUE_DEPTH
         /\ MaxRecords \in Nat /\ MaxFailures \in Nat
<1>1. AuditType
  BY DEF AuditInv
<1>2. With(Unattributed) \subseteq With(Reserving)
  BY DEF With, Records, Unattributed, Reserving
<1>3. Places({"anon"}) \subseteq Places(Records)
  BY DEF Places, Records
<1>4. Cardinality(With(Unattributed)) <= Cardinality(With(Reserving))
  BY <1>2, WithSized, FS_Subset
<1>5. Cardinality(Places({"anon"})) <= Cardinality(Places(Records))
  BY <1>1, <1>3, PlacesSized, FS_Subset
<1>6. Holding \in {0, 1} /\ One(stream.pc = "took") \in {0, 1}
  BY DEF Holding, One
<1>7. stream.report \in Nat /\ drain.sent \in Nat /\ drain.drops \in Nat
  BY <1>1 DEF AuditType, StreamState, DrainState
<1> QED
  BY <1>1, <1>4, <1>5, <1>6, <1>7, WithSized, PlacesSized, AuditAssumption DEF AuditAssumption

LEMMA OneFits ==
  ASSUME NEW x \in Int, NEW y \in Int, NEW z \in Int, NEW m \in Int, NEW n \in Int,
         x <= y + 1, y + z <= m, m < n
  PROVE  x + z <= n
OBVIOUS

(* A producer's step that sends nothing. *)
LEMMA OfferMoves ==
  ASSUME AuditInv, NEW p \in Producers, NEW q \in ProducerState,
         producer' = [producer EXCEPT ![p] = q],
         UNCHANGED <<chan, sent, stream, drain, acked, failed, failures, written, told, lost>>,
         queued' = queued + One(q \in Reserving) - One(producer[p] \in Reserving),
         queued' <= STDERR_AUDIT_QUEUE_DEPTH,
         dropped' \in Nat, dropped' >= dropped,
         offered' = offered + One(q \in Handling) - One(producer[p] \in Handling)
                            + dropped' - dropped,
         offered' <= MaxRecords,
         q \in Unattributed => queued < STDERR_AUDIT_UNATTRIBUTED_CEILING
  PROVE  AuditInv'
<1>1. AuditType /\ HandInv /\ CountsInv /\ ShareInv /\ BehindInv /\ DropsInv /\ DrainsInv
  BY DEF AuditInv
<1> DEFINE a == Cardinality(With(Handling))
           b == Cardinality(With(Reserving))
           d == Cardinality(With(Unattributed))
           e == Cardinality(Places(Records))
           g == Cardinality(Places({"anon"}))
<1>2. /\ a \in Nat /\ b \in Nat /\ d \in Nat /\ e \in Nat /\ g \in Nat /\ d <= b /\ g <= e
      /\ Holding \in {0, 1} /\ One(stream.pc = "took") \in {0, 1}
      /\ stream.report \in Nat /\ drain.sent \in Nat /\ drain.drops \in Nat
      /\ STDERR_AUDIT_QUEUE_DEPTH \in Nat
      /\ STDERR_AUDIT_UNATTRIBUTED_CEILING \in 0 .. STDERR_AUDIT_QUEUE_DEPTH
  BY AuditSizes
<1>3. /\ queued \in Nat /\ dropped \in Nat /\ offered \in Nat /\ sent \in Nat
      /\ written \in Nat /\ told \in Nat /\ lost \in Nat
  BY <1>1 DEF AuditType
<1>4. /\ a' = a + One(q \in Handling) - One(producer[p] \in Handling)
      /\ b' = b + One(q \in Reserving) - One(producer[p] \in Reserving)
      /\ d' = d + One(q \in Unattributed) - One(producer[p] \in Unattributed)
  BY <1>1, WithMoves
<1>5. /\ One(q \in Handling) \in {0, 1} /\ One(producer[p] \in Handling) \in {0, 1}
      /\ One(q \in Reserving) \in {0, 1} /\ One(producer[p] \in Reserving) \in {0, 1}
      /\ One(q \in Unattributed) \in {0, 1} /\ One(producer[p] \in Unattributed) \in {0, 1}
  BY DEF One
<1>6. a' \in Nat /\ b' \in Nat
  <2>1. IsFiniteSet(Producers)
    BY AuditAssumption DEF AuditAssumption
  <2>2. With(Handling)' \subseteq Producers /\ With(Reserving)' \subseteq Producers
    BY DEF With
  <2> QED
    BY <2>1, <2>2, FS_Subset, FS_CardinalityType
<1>7. /\ e' = e /\ g' = g /\ Places({"flush"})' = Places({"flush"}) /\ Holding' = Holding
      /\ One(stream.pc = "took")' = One(stream.pc = "took")
  BY DEF Places, Holding, Records, One
<1> HIDE DEF a, b, d, e, g
<1>8. /\ offered = a + e + Holding + written + lost + dropped + stream.report + told
      /\ queued = b + e + One(stream.pc = "took")
      /\ sent = written + lost + Holding + e
  BY <1>1 DEF CountsInv, a, b, e
<1>9. /\ offered' = a' + e + Holding + written + lost + dropped' + stream.report + told
      /\ queued' = b' + e + One(stream.pc = "took")
  BY <1>2, <1>3, <1>4, <1>5, <1>6, <1>8
<1>10. CountsInv'
  BY <1>7, <1>8, <1>9 DEF CountsInv, a, b, e
<1>11. AuditType'
  <2>1. producer' \in [Producers -> ProducerState]
    BY <1>1 DEF AuditType
  <2>2. queued' \in Nat /\ offered' \in Nat
    BY <1>2, <1>3, <1>6, <1>9
  <2> QED
    BY <1>1, <2>1, <2>2 DEF AuditType
<1>12. ShareInv'
  <2>1. d + g <= STDERR_AUDIT_UNATTRIBUTED_CEILING
    BY <1>1 DEF ShareInv, d, g
  <2>2. d' + g <= STDERR_AUDIT_UNATTRIBUTED_CEILING
    <3>1. CASE q \in Unattributed
      <4>1. queued < STDERR_AUDIT_UNATTRIBUTED_CEILING
        BY <3>1
      <4>2. d' <= d + 1 /\ d' \in Int
        BY <1>2, <1>4, <1>5
      <4>3. d + g <= queued
        BY <1>2, <1>3, <1>8
      <4>4. STDERR_AUDIT_UNATTRIBUTED_CEILING \in Int
        BY <1>2
      <4>5. d \in Int /\ g \in Int /\ queued \in Int
        BY <1>2, <1>3
      <4> QED
        BY <4>1, <4>2, <4>3, <4>4, <4>5, OneFits
    <3>2. CASE q \notin Unattributed
      <4>1. One(q \in Unattributed) = 0
        BY <3>2 DEF One
      <4> QED
        BY <1>2, <1>4, <1>5, <2>1, <4>1
    <3> QED
      BY <3>1, <3>2
  <2> QED
    BY <1>7, <2>2 DEF ShareInv, d, g
<1>13. HandInv'
  BY <1>1 DEF HandInv
<1>14. BehindInv'
  BY <1>1, <1>7 DEF BehindInv
<1>15. DropsInv'
  <2>1. told + dropped' + stream.report >= drain.drops
    BY <1>1, <1>2, <1>3 DEF DropsInv
  <2> QED
    BY <1>1, <2>1 DEF DropsInv
<1>16. DrainsInv'
  BY <1>1, <1>7 DEF DrainsInv
<1> QED
  BY <1>10, <1>11, <1>12, <1>13, <1>14, <1>15, <1>16 DEF AuditInv

LEMMA OfferSteps ==
  ASSUME AuditInv, NEW p \in Producers,
         \/ \E record \in Records : Reserve(p, record)
         \/ Refund(p) \/ CountDrop(p) \/ (TrySend(p) /\ UNCHANGED <<chan, sent>>)
  PROVE  AuditInv'
<1> DEFINE x == producer[p]
<1>1. /\ x \in ProducerState /\ producer \in [Producers -> ProducerState]
      /\ queued \in Nat /\ queued <= STDERR_AUDIT_QUEUE_DEPTH
      /\ dropped \in Nat /\ offered \in Nat /\ offered <= MaxRecords
      /\ x.record \in Records
  BY DEF AuditInv, AuditType, ProducerState
<1>2. /\ STDERR_AUDIT_QUEUE_DEPTH \in Nat /\ MaxRecords \in Nat
      /\ STDERR_AUDIT_UNATTRIBUTED_CEILING \in 0 .. STDERR_AUDIT_QUEUE_DEPTH
  BY AuditSizes
<1>3. \A y \in ProducerState :
        /\ y \in Handling <=> y.pc # "idle"
        /\ y \in Reserving <=> y.pc \in {"send", "refund"}
        /\ y \in Unattributed <=> y.pc = "send" /\ y.record = "anon"
  BY DEF ProducerState, Handling, Reserving, Unattributed, Records
<1>4. ASSUME NEW record \in Records, Reserve(p, record) PROVE AuditInv'
  <2>1. /\ x.pc = "idle" /\ offered < MaxRecords /\ offered' = offered + 1 /\ dropped' = dropped
        /\ UNCHANGED <<chan, sent, stream, drain, acked, failed, failures, written, told, lost>>
    BY <1>4 DEF Reserve
  <2>2. CASE /\ queued < admission_ceiling(record) /\ queued' = queued + 1
             /\ producer' = [producer EXCEPT ![p] = [pc |-> "send", record |-> record]]
    <3> DEFINE q == [pc |-> "send", record |-> record]
    <3>1. q \in ProducerState /\ q.pc = "send" /\ q.record = record
      BY DEF ProducerState
    <3>2. /\ One(q \in Handling) = 1 /\ One(x \in Handling) = 0
          /\ One(q \in Reserving) = 1 /\ One(x \in Reserving) = 0
      BY <1>1, <1>3, <2>1, <3>1 DEF One
    <3>3. q \in Unattributed => queued < STDERR_AUDIT_UNATTRIBUTED_CEILING
      BY <1>3, <2>2, <3>1 DEF admission_ceiling
    <3>4. queued < STDERR_AUDIT_QUEUE_DEPTH
      BY <1>1, <1>2, <2>2 DEF admission_ceiling
    <3>5. producer' = [producer EXCEPT ![p] = q]
      BY <2>2
    <3> HIDE DEF q
    <3>6. /\ queued' = queued + One(q \in Reserving) - One(x \in Reserving)
          /\ queued' <= STDERR_AUDIT_QUEUE_DEPTH
          /\ offered' = offered + One(q \in Handling) - One(x \in Handling) + dropped' - dropped
          /\ offered' <= MaxRecords /\ dropped' \in Nat /\ dropped' >= dropped
      BY <1>1, <1>2, <2>1, <2>2, <3>2, <3>4
    <3> QED
      BY <2>1, <3>1, <3>3, <3>5, <3>6, OfferMoves
  <2>3. CASE /\ queued' = queued
             /\ producer' = [producer EXCEPT ![p] = [pc |-> "drop", record |-> record]]
    <3> DEFINE q == [pc |-> "drop", record |-> record]
    <3>1. q \in ProducerState /\ q.pc = "drop" /\ q.record = record
      BY DEF ProducerState
    <3>2. /\ One(q \in Handling) = 1 /\ One(x \in Handling) = 0
          /\ One(q \in Reserving) = 0 /\ One(x \in Reserving) = 0
          /\ q \notin Unattributed
      BY <1>1, <1>3, <2>1, <3>1 DEF One
    <3>5. producer' = [producer EXCEPT ![p] = q]
      BY <2>3
    <3> HIDE DEF q
    <3>6. /\ queued' = queued + One(q \in Reserving) - One(x \in Reserving)
          /\ queued' <= STDERR_AUDIT_QUEUE_DEPTH
          /\ offered' = offered + One(q \in Handling) - One(x \in Handling) + dropped' - dropped
          /\ offered' <= MaxRecords /\ dropped' \in Nat /\ dropped' >= dropped
      BY <1>1, <1>2, <2>1, <2>3, <3>2
    <3> QED
      BY <2>1, <3>1, <3>2, <3>5, <3>6, OfferMoves
  <2> QED
    BY <1>4, <2>2, <2>3 DEF Reserve
<1> DEFINE To(pc) == [x EXCEPT !.pc = pc]
<1>5. \A pc \in {"idle", "refund", "drop"} :
        To(pc) \in ProducerState /\ To(pc).pc = pc /\ To(pc).record = x.record
  BY <1>1 DEF ProducerState
<1>6. CASE Refund(p)
  <2> DEFINE q == To("drop")
  <2>1. /\ x.pc = "refund" /\ queued' = queued - 1 /\ producer' = [producer EXCEPT ![p] = q]
        /\ offered' = offered /\ dropped' = dropped
        /\ UNCHANGED <<chan, sent, stream, drain, acked, failed, failures, written, told, lost>>
    BY <1>1, <1>6 DEF Refund, Moves
  <2>2. q \in ProducerState /\ q.pc = "drop"
    BY <1>5
  <2>3. /\ One(q \in Handling) = 1 /\ One(x \in Handling) = 1
        /\ One(q \in Reserving) = 0 /\ One(x \in Reserving) = 1
        /\ q \notin Unattributed
    BY <1>1, <1>3, <2>1, <2>2 DEF One
  <2> HIDE DEF q
  <2>4. /\ queued' = queued + One(q \in Reserving) - One(x \in Reserving)
        /\ queued' <= STDERR_AUDIT_QUEUE_DEPTH
        /\ offered' = offered + One(q \in Handling) - One(x \in Handling) + dropped' - dropped
        /\ offered' <= MaxRecords /\ dropped' \in Nat /\ dropped' >= dropped
    BY <1>1, <1>2, <2>1, <2>3
  <2> QED
    BY <2>1, <2>2, <2>3, <2>4, OfferMoves
<1>7. CASE CountDrop(p)
  <2> DEFINE q == To("idle")
  <2>1. /\ x.pc = "drop" /\ queued' = queued /\ producer' = [producer EXCEPT ![p] = q]
        /\ offered' = offered /\ dropped' = dropped + 1
        /\ UNCHANGED <<chan, sent, stream, drain, acked, failed, failures, written, told, lost>>
    BY <1>1, <1>7 DEF CountDrop, Moves
  <2>2. q \in ProducerState /\ q.pc = "idle"
    BY <1>5
  <2>3. /\ One(q \in Handling) = 0 /\ One(x \in Handling) = 1
        /\ One(q \in Reserving) = 0 /\ One(x \in Reserving) = 0
        /\ q \notin Unattributed
    BY <1>1, <1>3, <2>1, <2>2 DEF One
  <2> HIDE DEF q
  <2>4. /\ queued' = queued + One(q \in Reserving) - One(x \in Reserving)
        /\ queued' <= STDERR_AUDIT_QUEUE_DEPTH
        /\ offered' = offered + One(q \in Handling) - One(x \in Handling) + dropped' - dropped
        /\ offered' <= MaxRecords /\ dropped' \in Nat /\ dropped' >= dropped
    BY <1>1, <1>2, <2>1, <2>3
  <2> QED
    BY <2>1, <2>2, <2>3, <2>4, OfferMoves
<1>8. CASE TrySend(p) /\ UNCHANGED <<chan, sent>>
  <2> DEFINE q == To("refund")
  <2>1. chan' # Append(chan, x.record)
    <3>1. chan \in Seq(Records \cup {"flush"}) /\ x.record \in Records \cup {"flush"}
      BY <1>1 DEF AuditInv, AuditType
    <3>2. Len(Append(chan, x.record)) = Len(chan) + 1 /\ Len(chan) \in Nat
      BY <3>1
    <3> QED
      BY <1>8, <3>2
  <2>2. /\ x.pc = "send" /\ queued' = queued /\ producer' = [producer EXCEPT ![p] = q]
        /\ offered' = offered /\ dropped' = dropped
        /\ UNCHANGED <<chan, sent, stream, drain, acked, failed, failures, written, told, lost>>
    BY <1>1, <1>8, <2>1 DEF TrySend, Moves
  <2>3. q \in ProducerState /\ q.pc = "refund"
    BY <1>5
  <2>4. /\ One(q \in Handling) = 1 /\ One(x \in Handling) = 1
        /\ One(q \in Reserving) = 1 /\ One(x \in Reserving) = 1
        /\ q \notin Unattributed
    BY <1>1, <1>3, <2>2, <2>3 DEF One
  <2> HIDE DEF q
  <2>5. /\ queued' = queued + One(q \in Reserving) - One(x \in Reserving)
        /\ queued' <= STDERR_AUDIT_QUEUE_DEPTH
        /\ offered' = offered + One(q \in Handling) - One(x \in Handling) + dropped' - dropped
        /\ offered' <= MaxRecords /\ dropped' \in Nat /\ dropped' >= dropped
    BY <1>1, <1>2, <2>2, <2>4
  <2> QED
    BY <2>2, <2>3, <2>4, <2>5, OfferMoves
<1> QED
  BY <1>4, <1>6, <1>7, <1>8

(* A record is sent: its slot goes from the producer to the channel.       *)
LEMMA SendStep ==
  ASSUME AuditInv, NEW p \in Producers, TrySend(p), chan' = Append(chan, producer[p].record),
         sent' = sent + 1, Len(chan) < STDERR_AUDIT_QUEUE_DEPTH, Moves(p, "idle")
  PROVE  AuditInv'
<1>1. AuditType /\ HandInv /\ CountsInv /\ ShareInv /\ BehindInv /\ DropsInv /\ DrainsInv
  BY DEF AuditInv
<1> DEFINE x == producer[p]
           q == [x EXCEPT !.pc = "idle"]
           a == Cardinality(With(Handling))
           b == Cardinality(With(Reserving))
           d == Cardinality(With(Unattributed))
           e == Cardinality(Places(Records))
           g == Cardinality(Places({"anon"}))
<1>2. /\ a \in Nat /\ b \in Nat /\ d \in Nat /\ e \in Nat /\ g \in Nat
      /\ Holding \in {0, 1} /\ One(stream.pc = "took") \in {0, 1}
      /\ stream.report \in Nat /\ drain.sent \in Nat /\ drain.drops \in Nat
      /\ STDERR_AUDIT_QUEUE_DEPTH \in Nat
      /\ STDERR_AUDIT_UNATTRIBUTED_CEILING \in 0 .. STDERR_AUDIT_QUEUE_DEPTH
  BY AuditSizes
<1>3. /\ queued \in Nat /\ dropped \in Nat /\ offered \in Nat /\ sent \in Nat
      /\ written \in Nat /\ told \in Nat /\ lost \in Nat
  BY <1>1 DEF AuditType
<1>4. x \in ProducerState /\ x.pc = "send" /\ x.record \in Records
  BY <1>1 DEF AuditType, ProducerState, TrySend
<1>5. q \in ProducerState /\ q.pc = "idle" /\ producer' = [producer EXCEPT ![p] = q]
  BY <1>1, <1>4 DEF ProducerState, Moves, AuditType
<1>6. /\ One(q \in Handling) = 0 /\ One(x \in Handling) = 1
      /\ One(q \in Reserving) = 0 /\ One(x \in Reserving) = 1
      /\ One(q \in Unattributed) = 0 /\ One(x \in Unattributed) = One(x.record \in {"anon"})
      /\ One(x.record \in Records) = 1 /\ One(x.record \in {"anon"}) \in {0, 1}
  BY <1>4, <1>5 DEF One, ProducerState, Handling, Reserving, Unattributed, Records
<1>7. /\ a' = a + One(q \in Handling) - One(x \in Handling)
      /\ b' = b + One(q \in Reserving) - One(x \in Reserving)
      /\ d' = d + One(q \in Unattributed) - One(x \in Unattributed)
  <2> HIDE DEF q
  <2> QED
    BY <1>1, <1>5, WithMoves
<1>8. /\ e' = e + One(x.record \in Records) /\ g' = g + One(x.record \in {"anon"})
  BY <1>1, PlacesAppend
<1>9. /\ queued' = queued /\ dropped' = dropped /\ failed' = failed /\ stream' = stream
      /\ drain' = drain /\ acked' = acked /\ failures' = failures /\ offered' = offered
      /\ written' = written /\ told' = told /\ lost' = lost
  BY DEF TrySend
<1>10. Holding' = Holding /\ One(stream.pc = "took")' = One(stream.pc = "took")
  BY <1>9 DEF Holding, One, Records
<1>11. Places({"flush"})' \subseteq Places({"flush"})
  <2>1. x.record \notin {"flush"}
    BY <1>4 DEF Records
  <2> QED
    BY <1>1, <2>1, PlacesAppend
<1> HIDE DEF x, q, a, b, d, e, g
<1>12. /\ a' = a - 1 /\ b' = b - 1 /\ e' = e + 1
  <2>1. a' = a + 0 - 1 /\ b' = b + 0 - 1 /\ e' = e + 1
    BY <1>6, <1>7, <1>8, Zenon
  <2> QED
    BY <1>2, <2>1
<1>13. d' + g' = d + g
  <2> DEFINE k == One(x.record \in {"anon"})
  <2>1. k \in {0, 1} /\ g' = g + k
    BY <1>6, <1>8
  <2>2. One(q \in Unattributed) = 0 /\ One(x \in Unattributed) = k
    BY <1>6
  <2>3. d' = d + 0 - k
    BY <1>7, <2>2
  <2> HIDE DEF k
  <2> QED
    BY <1>2, <2>1, <2>3
<1>14. CountsInv'
  <2>1. /\ offered = a + e + Holding + written + lost + dropped + stream.report + told
        /\ queued = b + e + One(stream.pc = "took")
        /\ sent = written + lost + Holding + e
    BY <1>1 DEF CountsInv, a, b, e
  <2>2. /\ offered = a' + e' + Holding + written + lost + dropped + stream.report + told
        /\ queued = b' + e' + One(stream.pc = "took")
        /\ sent + 1 = written + lost + Holding + e'
    BY <1>2, <1>3, <1>12, <2>1
  <2> QED
    BY <1>9, <1>10, <2>2 DEF CountsInv, a, b, e
<1>15. AuditType'
  <2>1. producer' \in [Producers -> ProducerState]
    BY <1>1, <1>5 DEF AuditType
  <2>2. /\ chan' \in Seq(Records \cup {"flush"}) /\ Len(chan') = Len(chan) + 1
        /\ Len(chan) \in Nat
    BY <1>1, <1>4 DEF AuditType, x
  <2>3. Len(chan') <= STDERR_AUDIT_QUEUE_DEPTH
    BY <1>2, <2>2
  <2> QED
    BY <1>1, <1>3, <1>9, <2>1, <2>2, <2>3 DEF AuditType
<1>16. ShareInv'
  BY <1>1, <1>13 DEF ShareInv, d, g
<1>17. HandInv' /\ DropsInv'
  BY <1>1, <1>9 DEF HandInv, DropsInv
<1>18. BehindInv'
  BY <1>1, <1>9, <1>10, <1>11 DEF BehindInv
<1>19. DrainsInv'
  BY <1>1, <1>9, <1>11 DEF DrainsInv
<1> QED
  BY <1>14, <1>15, <1>16, <1>17, <1>18, <1>19 DEF AuditInv

(* The writer takes the head of the channel into its hand.                 *)
LEMMA RecvStep == ASSUME AuditInv, Recv PROVE AuditInv'
<1>1. AuditType /\ HandInv /\ CountsInv /\ ShareInv /\ BehindInv /\ DropsInv /\ DrainsInv
  BY DEF AuditInv
<1> DEFINE m == Head(chan)
           a == Cardinality(With(Handling))
           b == Cardinality(With(Reserving))
           d == Cardinality(With(Unattributed))
           e == Cardinality(Places(Records))
           g == Cardinality(Places({"anon"}))
<1>2. /\ a \in Nat /\ b \in Nat /\ d \in Nat /\ e \in Nat /\ g \in Nat
      /\ stream.report \in Nat /\ drain.sent \in Nat /\ drain.drops \in Nat
      /\ STDERR_AUDIT_QUEUE_DEPTH \in Nat
      /\ STDERR_AUDIT_UNATTRIBUTED_CEILING \in 0 .. STDERR_AUDIT_QUEUE_DEPTH
  BY AuditSizes
<1>3. /\ queued \in Nat /\ dropped \in Nat /\ offered \in Nat /\ sent \in Nat
      /\ written \in Nat /\ told \in Nat /\ lost \in Nat
  BY <1>1 DEF AuditType
<1>4. /\ chan \in Seq(Records \cup {"flush"}) /\ chan # <<>> /\ chan' = Tail(chan)
      /\ stream.pc = "recv" /\ stream \in StreamState
      /\ stream' = [stream EXCEPT !.message = m,
                      !.pc = IF m = "flush" THEN "report" ELSE "took"]
  BY <1>1 DEF Recv, AuditType
<1>5. m \in Records \cup {"flush"}
  BY <1>4
<1>6. /\ stream' \in StreamState /\ stream'.message = m /\ stream'.report = stream.report
      /\ stream'.pc = IF m = "flush" THEN "report" ELSE "took"
  BY <1>4, <1>5 DEF StreamState
<1>7. stream.message = "none" /\ Holding = 0 /\ stream.report = 0 /\ One(stream.pc = "took") = 0
  BY <1>1, <1>4 DEF HandInv, Holding, Records, One
<1>8. /\ producer' = producer /\ queued' = queued /\ offered' = offered /\ sent' = sent
      /\ dropped' = dropped /\ failed' = failed /\ drain' = drain /\ acked' = acked
      /\ failures' = failures /\ written' = written /\ told' = told /\ lost' = lost
  BY DEF Recv, producing
<1>9. a' = a /\ b' = b /\ d' = d
  BY <1>8 DEF With, Handling, Reserving, Unattributed, Records
<1>10. /\ e' = e - One(m \in Records) /\ g' = g - One(m \in {"anon"})
  BY <1>1, <1>4, PlacesTail
<1>11. /\ \A i \in Places({"flush"})' : i + 1 \in Places({"flush"})
       /\ m \in {"flush"} => 1 \in Places({"flush"})
  BY <1>1, <1>4, PlacesTail
<1>12. Places({"flush"})' \subseteq Int
  BY DEF Places
<1>13. /\ One(m \in Records) \in {0, 1} /\ One(m \in {"anon"}) \in {0, 1}
       /\ Holding' = One(m \in Records) /\ One(stream.pc = "took")' = One(m \in Records)
  BY <1>5, <1>6 DEF One, Holding, Records
<1> HIDE DEF m, a, b, d, e, g
<1>14. CountsInv'
  <2>1. /\ offered = a + e + Holding + written + lost + dropped + stream.report + told
        /\ queued = b + e + One(stream.pc = "took")
        /\ sent = written + lost + Holding + e
    BY <1>1 DEF CountsInv, a, b, e
  <2>2. /\ offered = a + e' + One(m \in Records) + written + lost + dropped + stream.report + told
        /\ queued = b + e' + One(m \in Records)
        /\ sent = written + lost + One(m \in Records) + e'
    BY <1>2, <1>3, <1>7, <1>10, <1>13, <2>1
  <2> QED
    BY <1>6, <1>8, <1>9, <1>13, <2>2 DEF CountsInv, a, b, e
<1>15. AuditType'
  <2>1. chan' \in Seq(Records \cup {"flush"}) /\ Len(chan') <= STDERR_AUDIT_QUEUE_DEPTH
    <3>1. Len(chan') = Len(chan) - 1 /\ Len(chan) \in Nat /\ chan' \in Seq(Records \cup {"flush"})
      BY <1>4
    <3> QED
      BY <1>1, <1>2, <3>1 DEF AuditType
  <2> QED
    BY <1>1, <1>6, <1>8, <2>1 DEF AuditType
<1>16. ShareInv'
  <2>1. d + g <= STDERR_AUDIT_UNATTRIBUTED_CEILING
    BY <1>1 DEF ShareInv, d, g
  <2>2. d + g' <= STDERR_AUDIT_UNATTRIBUTED_CEILING
    BY <1>2, <1>10, <1>13, <2>1
  <2> QED
    BY <1>9, <2>2 DEF ShareInv, d, g
<1>17. HandInv'
  BY <1>5, <1>6, <1>7 DEF HandInv
<1>18. DropsInv'
  BY <1>1, <1>6, <1>7, <1>8 DEF DropsInv
<1>19. DrainsInv'
  <2>1. drain.pc = "idle" => Places({"flush"})' = {} /\ m # "flush"
    BY <1>1, <1>11 DEF DrainsInv
  <2> QED
    BY <1>1, <1>6, <1>8, <2>1 DEF DrainsInv
<1>20. BehindInv'
  <2>1. \A i \in Places({"flush"}) : written + lost + 0 + i - 1 >= drain.sent
    BY <1>1, <1>7 DEF BehindInv
  <2>2. m = "flush" => written + lost >= drain.sent
    BY <1>2, <1>3, <1>11, <2>1
  <2>3. ASSUME NEW i \in Places({"flush"})'
        PROVE  written + lost + One(m \in Records) + i - 1 >= drain.sent
    <3>1. i \in Int /\ i >= 1
      BY DEF Places
    <3>2. CASE m = "flush"
      BY <1>2, <1>3, <1>13, <2>2, <3>1, <3>2
    <3>3. CASE m # "flush"
      <4>1. One(m \in Records) = 1
        BY <1>5, <3>3 DEF One, m
      <4>2. written + lost + 0 + (i + 1) - 1 >= drain.sent
        BY <1>11, <2>1
      <4> QED
        BY <1>2, <1>3, <3>1, <4>1, <4>2
    <3> QED
      BY <3>2, <3>3
  <2>4. (stream'.message = "flush" \/ acked = TRUE) => written + lost >= drain.sent
    BY <1>1, <1>6, <2>2 DEF BehindInv
  <2>5. failed = FALSE => lost = 0
    BY <1>1 DEF BehindInv
  <2> QED
    BY <1>8, <1>13, <2>3, <2>4, <2>5 DEF BehindInv
<1> QED
  BY <1>14, <1>15, <1>16, <1>17, <1>18, <1>19, <1>20 DEF AuditInv

(* The writer's other steps and the drain's move neither a producer nor    *)
(* the channel: what they must keep are the writer's own sums.             *)
LEMMA HandMoves ==
  ASSUME AuditInv, UNCHANGED <<producer, chan, offered, sent>>,
         stream' \in StreamState, HandInv', drain' \in DrainState, acked' \in BOOLEAN,
         failed' \in BOOLEAN, failures' \in Nat, failures' <= MaxFailures,
         queued' \in Nat, dropped' \in Nat, written' \in Nat, told' \in Nat, lost' \in Nat,
         queued' = queued + One(stream'.pc = "took") - One(stream.pc = "took"),
         queued' <= queued,
         Holding' + written' + lost' = Holding + written + lost,
         dropped' + stream'.report + told' = dropped + stream.report + told
  PROVE  AuditType' /\ CountsInv' /\ ShareInv'
<1>1. AuditType /\ HandInv /\ CountsInv /\ ShareInv
  BY DEF AuditInv
<1> DEFINE a == Cardinality(With(Handling))
           b == Cardinality(With(Reserving))
           e == Cardinality(Places(Records))
<1>2. /\ a \in Nat /\ b \in Nat /\ e \in Nat /\ Holding \in {0, 1} /\ stream.report \in Nat
      /\ One(stream.pc = "took") \in {0, 1} /\ STDERR_AUDIT_QUEUE_DEPTH \in Nat
  BY AuditSizes
<1>3. /\ queued \in Nat /\ dropped \in Nat /\ offered \in Nat /\ sent \in Nat
      /\ written \in Nat /\ told \in Nat /\ lost \in Nat
      /\ queued <= STDERR_AUDIT_QUEUE_DEPTH
  BY <1>1 DEF AuditType
<1>4. /\ a' = a /\ b' = b /\ e' = e
      /\ With(Unattributed)' = With(Unattributed) /\ Places({"anon"})' = Places({"anon"})
  BY DEF With, Handling, Reserving, Unattributed, Records, Places
<1>5. Holding' \in {0, 1} /\ stream'.report \in Nat /\ One(stream'.pc = "took") \in {0, 1}
  BY DEF Holding, One, StreamState
<1> HIDE DEF a, b, e
<1>6. /\ offered = a + e + Holding + written + lost + dropped + stream.report + told
      /\ queued = b + e + One(stream.pc = "took")
      /\ sent = written + lost + Holding + e
  BY <1>1 DEF CountsInv, a, b, e
<1>7. /\ offered = a + e + Holding' + written' + lost' + dropped' + stream'.report + told'
      /\ sent = written' + lost' + Holding' + e
  <2> DEFINE u == Holding + written + lost
             v == dropped + stream.report + told
  <2>1. offered = a + e + u + v /\ sent = u + e
    BY <1>2, <1>3, <1>6
  <2>2. u = Holding' + written' + lost' /\ v = dropped' + stream'.report + told'
    OBVIOUS
  <2> HIDE DEF u, v
  <2>3. written' \in Int /\ lost' \in Int /\ dropped' \in Int /\ told' \in Int
    OBVIOUS
  <2> QED
    BY <1>2, <1>5, <2>1, <2>2, <2>3
<1>8. queued' = b + e + One(stream'.pc = "took")
  BY <1>2, <1>3, <1>5, <1>6
<1>9. One(stream.pc = "took")' = One(stream'.pc = "took")
  BY DEF One
<1>10. CountsInv'
  BY <1>4, <1>7, <1>8, <1>9 DEF CountsInv, a, b, e
<1>11. ShareInv'
  BY <1>1, <1>4 DEF ShareInv
<1>12. AuditType'
  <2>1. queued' <= STDERR_AUDIT_QUEUE_DEPTH
    BY <1>2, <1>3
  <2> QED
    BY <1>1, <2>1 DEF AuditType
<1> QED
  BY <1>10, <1>11, <1>12

(* What those steps start from. *)
LEMMA HandTyped ==
  ASSUME AuditInv
  PROVE  /\ stream \in StreamState /\ drain \in DrainState
         /\ stream.pc \in {"recv", "took", "report", "tell", "write", "ack", "absent"}
         /\ stream.message \in Records \cup {"flush", "none"}
         /\ stream.report \in Nat /\ drain.sent \in Nat /\ drain.drops \in Nat
         /\ acked \in BOOLEAN /\ failed \in BOOLEAN /\ failures \in Nat
         /\ failures <= MaxFailures /\ MaxFailures \in Nat
         /\ queued \in Nat /\ dropped \in Nat /\ written \in Nat /\ told \in Nat /\ lost \in Nat
         /\ sent \in Nat
         /\ HandInv /\ BehindInv /\ DropsInv /\ DrainsInv
         /\ \A i \in Places({"flush"}) : i \in Int /\ i >= 1
         /\ One(stream.pc = "took") \in {0, 1} /\ Holding \in {0, 1}
<1>1. AuditType /\ HandInv /\ BehindInv /\ DropsInv /\ DrainsInv
  BY DEF AuditInv
<1>2. \A i \in Places({"flush"}) : i \in Int /\ i >= 1
  BY DEF Places
<1>3. stream \in StreamState /\ drain \in DrainState
  BY <1>1 DEF AuditType
<1>4. /\ stream.pc \in {"recv", "took", "report", "tell", "write", "ack", "absent"}
      /\ stream.message \in Records \cup {"flush", "none"}
  BY <1>3 DEF StreamState
<1>5. /\ acked \in BOOLEAN /\ failed \in BOOLEAN /\ failures \in Nat /\ failures <= MaxFailures
      /\ queued \in Nat /\ dropped \in Nat /\ written \in Nat /\ told \in Nat /\ lost \in Nat
      /\ sent \in Nat
  BY <1>1 DEF AuditType
<1>6. /\ stream.report \in Nat /\ drain.sent \in Nat /\ drain.drops \in Nat /\ MaxFailures \in Nat
      /\ One(stream.pc = "took") \in {0, 1} /\ Holding \in {0, 1}
  BY AuditSizes
<1> QED
  BY <1>1, <1>2, <1>3, <1>4, <1>5, <1>6

(* The writer, one lemma for each of its steps. *)
LEMMA AfterReportIs ==
  /\ AfterReport("flush") = "ack" /\ AfterReport("none") = "recv"
  /\ \A m \in Records : AfterReport(m) = "write"
  /\ \A m \in Records \cup {"flush", "none"} :
       /\ AfterReport(m) \in {"ack", "recv", "write"}
       /\ (AfterReport(m) = "ack") = (m = "flush")
       /\ (AfterReport(m) = "recv") = (m = "none")
       /\ (AfterReport(m) = "write") = (m \in Records)
BY DEF AfterReport, Records

LEMMA TimeoutStep == ASSUME AuditInv, Timeout PROVE AuditInv'
<1>1. /\ stream \in StreamState /\ drain \in DrainState
      /\ stream.message \in Records \cup {"flush", "none"}
      /\ stream.report \in Nat /\ drain.sent \in Nat /\ drain.drops \in Nat
      /\ acked \in BOOLEAN /\ failed \in BOOLEAN /\ failures \in Nat
      /\ failures <= MaxFailures /\ MaxFailures \in Nat
      /\ queued \in Nat /\ dropped \in Nat /\ written \in Nat /\ told \in Nat /\ lost \in Nat
      /\ HandInv /\ BehindInv /\ DropsInv /\ DrainsInv
      /\ \A i \in Places({"flush"}) : i \in Int /\ i >= 1
      /\ One(stream.pc = "took") \in {0, 1} /\ Holding \in {0, 1}
  BY HandTyped
<1>2. /\ stream.pc = "recv" /\ stream' = [stream EXCEPT !.message = "none", !.pc = "report"]
      /\ producer' = producer /\ chan' = chan /\ offered' = offered /\ sent' = sent
      /\ drain' = drain /\ acked' = acked
      /\ queued' = queued /\ dropped' = dropped /\ failed' = failed /\ failures' = failures
      /\ written' = written /\ told' = told /\ lost' = lost
  BY DEF Timeout, producing
<1>3. /\ stream' \in StreamState /\ stream'.pc = "report" /\ stream'.message = "none"
      /\ stream'.report = stream.report
  BY <1>1, <1>2, AfterReportIs DEF StreamState
<1>4. Places({"flush"})' = Places({"flush"})
  BY <1>2 DEF Places
<1>5. HandInv'
  BY <1>1, <1>2, <1>3 DEF HandInv
<1>6. Holding' + written' + lost' = Holding + written + lost
  <2>1. stream.message = "none" /\ stream.report = 0
    BY <1>1, <1>2 DEF HandInv
  <2>2. Holding' = Holding
    BY <1>2, <1>3, <2>1 DEF Holding, Records
  <2> QED
    BY <1>2, <2>2
<1>7. /\ dropped' + stream'.report + told' = dropped + stream.report + told
      /\ dropped' \in Nat /\ told' \in Nat /\ written' \in Nat /\ lost' \in Nat
      /\ failures' \in Nat /\ failures' <= MaxFailures /\ failed' \in BOOLEAN
  BY <1>1, <1>2, <1>3, <1>5 DEF HandInv
<1>8. /\ queued' = queued + One(stream'.pc = "took") - One(stream.pc = "took")
      /\ queued' \in Nat /\ queued' <= queued
  BY <1>1, <1>2, <1>3 DEF One
<1>9. AuditType' /\ CountsInv' /\ ShareInv'
  BY <1>1, <1>2, <1>3, <1>5, <1>6, <1>7, <1>8, HandMoves
<1>10. BehindInv'
  <2>1. stream.message = "none" /\ stream.report = 0
    BY <1>1, <1>2 DEF HandInv
  <2>2. Holding' = Holding
    BY <1>2, <1>3, <2>1 DEF Holding, Records
  <2> QED
    BY <1>1, <1>2, <1>3, <1>4, <2>1, <2>2 DEF BehindInv
<1>11. DropsInv'
  BY <1>1, <1>2, <1>3 DEF DropsInv
<1>12. DrainsInv'
  BY <1>1, <1>2, <1>3, <1>4 DEF DrainsInv
<1> QED
  BY <1>5, <1>9, <1>10, <1>11, <1>12 DEF AuditInv

LEMMA TookStep == ASSUME AuditInv, Took PROVE AuditInv'
<1>1. /\ stream \in StreamState /\ drain \in DrainState
      /\ stream.message \in Records \cup {"flush", "none"}
      /\ stream.report \in Nat /\ drain.sent \in Nat /\ drain.drops \in Nat
      /\ acked \in BOOLEAN /\ failed \in BOOLEAN /\ failures \in Nat
      /\ failures <= MaxFailures /\ MaxFailures \in Nat
      /\ queued \in Nat /\ dropped \in Nat /\ written \in Nat /\ told \in Nat /\ lost \in Nat
      /\ HandInv /\ BehindInv /\ DropsInv /\ DrainsInv
      /\ \A i \in Places({"flush"}) : i \in Int /\ i >= 1
      /\ One(stream.pc = "took") \in {0, 1} /\ Holding \in {0, 1}
  BY HandTyped
<1>2. /\ stream.pc = "took" /\ stream' = [stream EXCEPT !.pc = "report"]
      /\ producer' = producer /\ chan' = chan /\ offered' = offered /\ sent' = sent
      /\ drain' = drain /\ acked' = acked
      /\ queued' = (IF queued = 0 THEN 0 ELSE queued - 1)
      /\ dropped' = dropped /\ failed' = failed /\ failures' = failures
      /\ written' = written /\ told' = told /\ lost' = lost
  BY DEF Took
<1>3. /\ stream' \in StreamState /\ stream'.pc = "report" /\ stream'.message = stream.message
      /\ stream'.report = stream.report
  BY <1>1, <1>2, AfterReportIs DEF StreamState
<1>4. Places({"flush"})' = Places({"flush"})
  BY <1>2 DEF Places
<1>5. HandInv'
  BY <1>1, <1>2, <1>3 DEF HandInv
<1>6. Holding' + written' + lost' = Holding + written + lost
  <2>1. Holding' = Holding
    BY <1>2, <1>3 DEF Holding, Records
  <2> QED
    BY <1>2, <2>1
<1>7. /\ dropped' + stream'.report + told' = dropped + stream.report + told
      /\ dropped' \in Nat /\ told' \in Nat /\ written' \in Nat /\ lost' \in Nat
      /\ failures' \in Nat /\ failures' <= MaxFailures /\ failed' \in BOOLEAN
  BY <1>1, <1>2, <1>3, <1>5 DEF HandInv
<1>8. /\ queued' = queued + One(stream'.pc = "took") - One(stream.pc = "took")
      /\ queued' \in Nat /\ queued' <= queued
  <2>1. queued > 0
    <3>1. queued = Cardinality(With(Reserving)) + Cardinality(Places(Records)) + 1
      BY <1>2 DEF AuditInv, CountsInv, One
    <3> QED
      BY <3>1, AuditSizes
  <2>2. One(stream'.pc = "took") = 0 /\ One(stream.pc = "took") = 1
    BY <1>2, <1>3 DEF One
  <2> QED
    BY <1>1, <1>2, <2>1, <2>2
<1>9. AuditType' /\ CountsInv' /\ ShareInv'
  BY <1>1, <1>2, <1>3, <1>5, <1>6, <1>7, <1>8, HandMoves
<1>10. BehindInv'
  <2>1. Holding' = Holding
    BY <1>2, <1>3 DEF Holding, Records
  <2> QED
    BY <1>1, <1>2, <1>3, <1>4, <2>1 DEF BehindInv
<1>11. DropsInv'
  BY <1>1, <1>2, <1>3 DEF DropsInv
<1>12. DrainsInv'
  BY <1>1, <1>2, <1>3, <1>4 DEF DrainsInv
<1> QED
  BY <1>5, <1>9, <1>10, <1>11, <1>12 DEF AuditInv

LEMMA SwapStep == ASSUME AuditInv, Swap PROVE AuditInv'
<1>1. /\ stream \in StreamState /\ drain \in DrainState
      /\ stream.message \in Records \cup {"flush", "none"}
      /\ stream.report \in Nat /\ drain.sent \in Nat /\ drain.drops \in Nat
      /\ acked \in BOOLEAN /\ failed \in BOOLEAN /\ failures \in Nat
      /\ failures <= MaxFailures /\ MaxFailures \in Nat
      /\ queued \in Nat /\ dropped \in Nat /\ written \in Nat /\ told \in Nat /\ lost \in Nat
      /\ HandInv /\ BehindInv /\ DropsInv /\ DrainsInv
      /\ \A i \in Places({"flush"}) : i \in Int /\ i >= 1
      /\ One(stream.pc = "took") \in {0, 1} /\ Holding \in {0, 1}
  BY HandTyped
<1>2. /\ stream.pc = "report"
      /\ stream' = [stream EXCEPT !.report = dropped,
                      !.pc = IF dropped = 0 THEN AfterReport(stream.message) ELSE "tell"]
      /\ producer' = producer /\ chan' = chan /\ offered' = offered /\ sent' = sent
      /\ drain' = drain /\ acked' = acked
      /\ queued' = queued /\ dropped' = 0 /\ failed' = failed /\ failures' = failures
      /\ written' = written /\ told' = told /\ lost' = lost
  BY DEF Swap, producing
<1>3. /\ stream' \in StreamState /\ stream'.message = stream.message
      /\ stream'.report = dropped
      /\ stream'.pc = IF dropped = 0 THEN AfterReport(stream.message) ELSE "tell"
  BY <1>1, <1>2, AfterReportIs DEF StreamState
<1>4. Places({"flush"})' = Places({"flush"})
  BY <1>2 DEF Places
<1>5. HandInv'
  BY <1>1, <1>2, <1>3, AfterReportIs DEF HandInv
<1>6. Holding' + written' + lost' = Holding + written + lost
  <2>1. Holding' = Holding
    BY <1>2, <1>3 DEF Holding, Records
  <2> QED
    BY <1>2, <2>1
<1>7. /\ dropped' + stream'.report + told' = dropped + stream.report + told
      /\ dropped' \in Nat /\ told' \in Nat /\ written' \in Nat /\ lost' \in Nat
      /\ failures' \in Nat /\ failures' <= MaxFailures /\ failed' \in BOOLEAN
  BY <1>1, <1>2, <1>3, <1>5 DEF HandInv
<1>8. /\ queued' = queued + One(stream'.pc = "took") - One(stream.pc = "took")
      /\ queued' \in Nat /\ queued' <= queued
  BY <1>1, <1>2, <1>3, AfterReportIs DEF One
<1>9. AuditType' /\ CountsInv' /\ ShareInv'
  BY <1>1, <1>2, <1>3, <1>5, <1>6, <1>7, <1>8, HandMoves
<1>10. BehindInv'
  <2>1. Holding' = Holding
    BY <1>2, <1>3 DEF Holding, Records
  <2> QED
    BY <1>1, <1>2, <1>3, <1>4, <2>1 DEF BehindInv
<1>11. DropsInv'
  <2>1. stream.report = 0
    BY <1>1, <1>2 DEF HandInv
  <2>2. told + dropped >= drain.drops
    BY <1>1, <2>1 DEF DropsInv
  <2>3. stream'.pc = "ack" => dropped = 0
    BY <1>3
  <2> QED
    BY <1>1, <1>2, <1>3, <2>2, <2>3 DEF DropsInv
<1>12. DrainsInv'
  BY <1>1, <1>2, <1>3, <1>4 DEF DrainsInv
<1> QED
  BY <1>5, <1>9, <1>10, <1>11, <1>12 DEF AuditInv

LEMMA ToldStep == ASSUME AuditInv, Told PROVE AuditInv'
<1>1. /\ stream \in StreamState /\ drain \in DrainState
      /\ stream.message \in Records \cup {"flush", "none"}
      /\ stream.report \in Nat /\ drain.sent \in Nat /\ drain.drops \in Nat
      /\ acked \in BOOLEAN /\ failed \in BOOLEAN /\ failures \in Nat
      /\ failures <= MaxFailures /\ MaxFailures \in Nat
      /\ queued \in Nat /\ dropped \in Nat /\ written \in Nat /\ told \in Nat /\ lost \in Nat
      /\ HandInv /\ BehindInv /\ DropsInv /\ DrainsInv
      /\ \A i \in Places({"flush"}) : i \in Int /\ i >= 1
      /\ One(stream.pc = "took") \in {0, 1} /\ Holding \in {0, 1}
  BY HandTyped
<1>2. /\ stream.pc = "tell" /\ told' = told + stream.report
      /\ stream' = [stream EXCEPT !.report = 0, !.pc = AfterReport(stream.message)]
      /\ producer' = producer /\ chan' = chan /\ offered' = offered /\ sent' = sent
      /\ drain' = drain /\ acked' = acked
      /\ queued' = queued /\ dropped' = dropped /\ failed' = failed /\ failures' = failures
      /\ written' = written /\ lost' = lost
  BY DEF Told, producing
<1>3. /\ stream' \in StreamState /\ stream'.message = stream.message
      /\ stream'.report = 0 /\ stream'.pc = AfterReport(stream.message)
  BY <1>1, <1>2, AfterReportIs DEF StreamState
<1>4. Places({"flush"})' = Places({"flush"})
  BY <1>2 DEF Places
<1>5. HandInv'
  BY <1>1, <1>2, <1>3, AfterReportIs DEF HandInv
<1>6. Holding' + written' + lost' = Holding + written + lost
  <2>1. Holding' = Holding
    BY <1>2, <1>3 DEF Holding, Records
  <2> QED
    BY <1>2, <2>1
<1>7. /\ dropped' + stream'.report + told' = dropped + stream.report + told
      /\ dropped' \in Nat /\ told' \in Nat /\ written' \in Nat /\ lost' \in Nat
      /\ failures' \in Nat /\ failures' <= MaxFailures /\ failed' \in BOOLEAN
  BY <1>1, <1>2, <1>3, <1>5 DEF HandInv
<1>8. /\ queued' = queued + One(stream'.pc = "took") - One(stream.pc = "took")
      /\ queued' \in Nat /\ queued' <= queued
  BY <1>1, <1>2, <1>3, AfterReportIs DEF One
<1>9. AuditType' /\ CountsInv' /\ ShareInv'
  BY <1>1, <1>2, <1>3, <1>5, <1>6, <1>7, <1>8, HandMoves
<1>10. BehindInv'
  <2>1. Holding' = Holding
    BY <1>2, <1>3 DEF Holding, Records
  <2> QED
    BY <1>1, <1>2, <1>3, <1>4, <2>1 DEF BehindInv
<1>11. DropsInv'
  <2>1. stream'.pc = "ack" => stream.message = "flush"
    BY <1>1, <1>3, AfterReportIs
  <2>2. told' >= told /\ told' + dropped + 0 >= drain.drops
    BY <1>1, <1>2 DEF DropsInv
  <2>3. stream.message = "flush" => told' >= drain.drops
    BY <1>1, <1>2 DEF DropsInv
  <2>4. acked = TRUE => told' >= drain.drops \/ failed = TRUE
    BY <1>1, <1>2, <2>2 DEF DropsInv
  <2>5. stream'.pc # "tell"
    BY <1>1, <1>3, AfterReportIs
  <2> QED
    BY <1>2, <1>3, <2>1, <2>2, <2>3, <2>4, <2>5 DEF DropsInv
<1>12. DrainsInv'
  <2>1. told' >= told
    BY <1>1, <1>2
  <2>2. drain.pc = "Drained" => told' >= drain.drops
    BY <1>1, <1>2, <2>1 DEF DrainsInv
  <2> QED
    BY <1>1, <1>2, <1>3, <1>4, <2>2 DEF DrainsInv
<1> QED
  BY <1>5, <1>9, <1>10, <1>11, <1>12 DEF AuditInv

LEMMA TellFailsStep == ASSUME AuditInv, TellFails PROVE AuditInv'
<1>1. /\ stream \in StreamState /\ drain \in DrainState
      /\ stream.message \in Records \cup {"flush", "none"}
      /\ stream.report \in Nat /\ drain.sent \in Nat /\ drain.drops \in Nat
      /\ acked \in BOOLEAN /\ failed \in BOOLEAN /\ failures \in Nat
      /\ failures <= MaxFailures /\ MaxFailures \in Nat
      /\ queued \in Nat /\ dropped \in Nat /\ written \in Nat /\ told \in Nat /\ lost \in Nat
      /\ HandInv /\ BehindInv /\ DropsInv /\ DrainsInv
      /\ \A i \in Places({"flush"}) : i \in Int /\ i >= 1
      /\ One(stream.pc = "took") \in {0, 1} /\ Holding \in {0, 1}
  BY HandTyped
<1>2. /\ stream.pc = "tell" /\ dropped' = dropped + stream.report /\ failed' = TRUE
      /\ failures < MaxFailures /\ failures' = failures + 1
      /\ stream' = [stream EXCEPT !.report = 0, !.pc = AfterReport(stream.message)]
      /\ producer' = producer /\ chan' = chan /\ offered' = offered /\ sent' = sent
      /\ drain' = drain /\ acked' = acked
      /\ queued' = queued /\ told' = told /\ written' = written /\ lost' = lost
  BY DEF TellFails, producing
<1>3. /\ stream' \in StreamState /\ stream'.message = stream.message
      /\ stream'.report = 0 /\ stream'.pc = AfterReport(stream.message)
  BY <1>1, <1>2, AfterReportIs DEF StreamState
<1>4. Places({"flush"})' = Places({"flush"})
  BY <1>2 DEF Places
<1>5. HandInv'
  BY <1>1, <1>2, <1>3, AfterReportIs DEF HandInv
<1>6. Holding' + written' + lost' = Holding + written + lost
  <2>1. Holding' = Holding
    BY <1>2, <1>3 DEF Holding, Records
  <2> QED
    BY <1>2, <2>1
<1>7. /\ dropped' + stream'.report + told' = dropped + stream.report + told
      /\ dropped' \in Nat /\ told' \in Nat /\ written' \in Nat /\ lost' \in Nat
      /\ failures' \in Nat /\ failures' <= MaxFailures /\ failed' \in BOOLEAN
  BY <1>1, <1>2, <1>3, <1>5 DEF HandInv
<1>8. /\ queued' = queued + One(stream'.pc = "took") - One(stream.pc = "took")
      /\ queued' \in Nat /\ queued' <= queued
  BY <1>1, <1>2, <1>3, AfterReportIs DEF One
<1>9. AuditType' /\ CountsInv' /\ ShareInv'
  BY <1>1, <1>2, <1>3, <1>5, <1>6, <1>7, <1>8, HandMoves
<1>10. BehindInv'
  <2>1. Holding' = Holding
    BY <1>2, <1>3 DEF Holding, Records
  <2> QED
    BY <1>1, <1>2, <1>3, <1>4, <2>1 DEF BehindInv
<1>11. DropsInv'
  <2>1. told + dropped' + 0 >= drain.drops
    BY <1>1, <1>2 DEF DropsInv
  <2>2. stream'.pc # "tell"
    BY <1>1, <1>3, AfterReportIs
  <2> QED
    BY <1>2, <1>3, <2>1, <2>2 DEF DropsInv
<1>12. DrainsInv'
  BY <1>1, <1>2, <1>3, <1>4 DEF DrainsInv
<1> QED
  BY <1>5, <1>9, <1>10, <1>11, <1>12 DEF AuditInv

LEMMA WriteStep == ASSUME AuditInv, Write PROVE AuditInv'
<1>1. /\ stream \in StreamState /\ drain \in DrainState
      /\ stream.message \in Records \cup {"flush", "none"}
      /\ stream.report \in Nat /\ drain.sent \in Nat /\ drain.drops \in Nat
      /\ acked \in BOOLEAN /\ failed \in BOOLEAN /\ failures \in Nat
      /\ failures <= MaxFailures /\ MaxFailures \in Nat
      /\ queued \in Nat /\ dropped \in Nat /\ written \in Nat /\ told \in Nat /\ lost \in Nat
      /\ HandInv /\ BehindInv /\ DropsInv /\ DrainsInv
      /\ \A i \in Places({"flush"}) : i \in Int /\ i >= 1
      /\ One(stream.pc = "took") \in {0, 1} /\ Holding \in {0, 1}
  BY HandTyped
<1>2. /\ stream.pc = "write" /\ stream' = [stream EXCEPT !.message = "none", !.pc = "recv"]
      /\ producer' = producer /\ chan' = chan /\ offered' = offered /\ sent' = sent
      /\ drain' = drain /\ acked' = acked
      /\ queued' = queued /\ dropped' = dropped /\ told' = told
      /\ \/ /\ written' = written + 1 /\ lost' = lost /\ failures' = failures
            /\ failed' = failed
         \/ /\ written' = written /\ lost' = lost + 1 /\ failed' = TRUE
            /\ failures < MaxFailures /\ failures' = failures + 1
  BY DEF Write, producing
<1>3. /\ stream' \in StreamState /\ stream'.pc = "recv" /\ stream'.message = "none"
      /\ stream'.report = stream.report
  BY <1>1, <1>2, AfterReportIs DEF StreamState
<1>4. Places({"flush"})' = Places({"flush"})
  BY <1>2 DEF Places
<1>5. HandInv'
  BY <1>1, <1>2, <1>3 DEF HandInv
<1>6. Holding' + written' + lost' = Holding + written + lost
  <2>1. Holding = 1 /\ Holding' = 0
    BY <1>1, <1>2, <1>3 DEF HandInv, Holding, Records
  <2> QED
    BY <1>1, <1>2, <2>1
<1>7. /\ dropped' + stream'.report + told' = dropped + stream.report + told
      /\ dropped' \in Nat /\ told' \in Nat /\ written' \in Nat /\ lost' \in Nat
      /\ failures' \in Nat /\ failures' <= MaxFailures /\ failed' \in BOOLEAN
  <2>1. failures' \in Nat /\ failures' <= MaxFailures
    BY <1>1, <1>2
  <2>3. failed' \in BOOLEAN
    BY <1>1, <1>2
  <2>2. written' \in Nat /\ lost' \in Nat
    BY <1>1, <1>2
  <2> QED
    BY <1>1, <1>2, <1>3, <2>1, <2>2, <2>3
<1>8. /\ queued' = queued + One(stream'.pc = "took") - One(stream.pc = "took")
      /\ queued' \in Nat /\ queued' <= queued
  BY <1>1, <1>2, <1>3 DEF One
<1>9. AuditType' /\ CountsInv' /\ ShareInv'
  BY <1>1, <1>2, <1>3, <1>5, <1>6, <1>7, <1>8, HandMoves
<1>10. BehindInv'
  <2>1. Holding = 1 /\ Holding' = 0
    BY <1>1, <1>2, <1>3 DEF HandInv, Holding, Records
  <2> DEFINE n == written + lost
             k == written' + lost'
  <2>2. n \in Nat /\ k = n + 1
    BY <1>1, <1>2
  <2>6. /\ \A i \in Places({"flush"}) : n + 1 + i - 1 >= drain.sent
        /\ acked = TRUE => n >= drain.sent
    BY <1>1, <2>1 DEF BehindInv
  <2> HIDE DEF n, k
  <2>3. \A i \in Places({"flush"}) : k + 0 + i - 1 >= drain.sent
    BY <1>1, <2>2, <2>6
  <2>4. acked = TRUE => k >= drain.sent
    BY <1>1, <2>2, <2>6
  <2>5. failed' = FALSE => lost' = 0
    BY <1>1, <1>2 DEF BehindInv
  <2> QED
    BY <1>2, <1>3, <1>4, <2>1, <2>3, <2>4, <2>5 DEF BehindInv, k
<1>11. DropsInv'
  <2>1. failed = TRUE => failed' = TRUE
    BY <1>2
  <2> QED
    BY <1>1, <1>2, <1>3, <2>1 DEF DropsInv
<1>12. DrainsInv'
  <2>1. written' >= written
    BY <1>1, <1>2
  <2>2. drain.pc = "Drained" => written' >= drain.sent
    BY <1>1, <1>7, <2>1 DEF DrainsInv
  <2> QED
    BY <1>1, <1>2, <1>3, <1>4, <2>2 DEF DrainsInv
<1> QED
  BY <1>5, <1>9, <1>10, <1>11, <1>12 DEF AuditInv

LEMMA AckStep == ASSUME AuditInv, Ack PROVE AuditInv'
<1>1. /\ stream \in StreamState /\ drain \in DrainState
      /\ stream.message \in Records \cup {"flush", "none"}
      /\ stream.report \in Nat /\ drain.sent \in Nat /\ drain.drops \in Nat
      /\ acked \in BOOLEAN /\ failed \in BOOLEAN /\ failures \in Nat
      /\ failures <= MaxFailures /\ MaxFailures \in Nat
      /\ queued \in Nat /\ dropped \in Nat /\ written \in Nat /\ told \in Nat /\ lost \in Nat
      /\ HandInv /\ BehindInv /\ DropsInv /\ DrainsInv
      /\ \A i \in Places({"flush"}) : i \in Int /\ i >= 1
      /\ One(stream.pc = "took") \in {0, 1} /\ Holding \in {0, 1}
  BY HandTyped
<1>2. /\ stream.pc = "ack" /\ stream' = [stream EXCEPT !.message = "none", !.pc = "recv"]
      /\ acked' = TRUE /\ drain' = drain
      /\ producer' = producer /\ chan' = chan /\ offered' = offered /\ sent' = sent
      /\ queued' = queued /\ dropped' = dropped /\ failed' = failed /\ failures' = failures
      /\ written' = written /\ told' = told /\ lost' = lost
  BY DEF Ack, producing
<1>3. /\ stream' \in StreamState /\ stream'.pc = "recv" /\ stream'.message = "none"
      /\ stream'.report = stream.report
  BY <1>1, <1>2, AfterReportIs DEF StreamState
<1>4. Places({"flush"})' = Places({"flush"})
  BY <1>2 DEF Places
<1>5. HandInv'
  BY <1>1, <1>2, <1>3 DEF HandInv
<1>6. Holding' + written' + lost' = Holding + written + lost
  <2>1. Holding' = Holding
    BY <1>1, <1>2, <1>3 DEF HandInv, Holding, Records
  <2> QED
    BY <1>2, <2>1
<1>7. /\ dropped' + stream'.report + told' = dropped + stream.report + told
      /\ dropped' \in Nat /\ told' \in Nat /\ written' \in Nat /\ lost' \in Nat
      /\ failures' \in Nat /\ failures' <= MaxFailures /\ failed' \in BOOLEAN
  BY <1>1, <1>2, <1>3, <1>5 DEF HandInv
<1>8. /\ queued' = queued + One(stream'.pc = "took") - One(stream.pc = "took")
      /\ queued' \in Nat /\ queued' <= queued
  BY <1>1, <1>2, <1>3 DEF One
<1>9. AuditType' /\ CountsInv' /\ ShareInv'
  BY <1>1, <1>2, <1>3, <1>5, <1>6, <1>7, <1>8, HandMoves
<1>10. BehindInv'
  <2>1. stream.message = "flush" /\ Holding' = Holding
    BY <1>1, <1>2, <1>3 DEF HandInv, Holding, Records
  <2> QED
    BY <1>1, <1>2, <1>3, <1>4, <2>1 DEF BehindInv
<1>11. DropsInv'
  BY <1>1, <1>2, <1>3 DEF DropsInv
<1>12. DrainsInv'
  <2>1. stream.message = "flush"
    BY <1>1, <1>2 DEF HandInv
  <2>2. drain.pc # "idle"
    BY <1>1, <2>1 DEF DrainsInv
  <2> QED
    BY <1>1, <1>2, <1>3, <1>4, <2>2 DEF DrainsInv
<1> QED
  BY <1>5, <1>9, <1>10, <1>11, <1>12 DEF AuditInv

(* The flush is sent: nothing before it in the channel is a flush, so what *)
(* was sent is what is written, lost, in hand and before it.               *)
LEMMA FlushStep ==
  ASSUME AuditInv, Flush, Len(chan) < STDERR_AUDIT_QUEUE_DEPTH, chan' = Append(chan, "flush"),
         drain' = [pc |-> "waiting", sent |-> sent, drops |-> told + dropped + stream.report]
  PROVE  AuditInv'
<1>1. AuditType /\ HandInv /\ CountsInv /\ ShareInv /\ BehindInv /\ DropsInv /\ DrainsInv
  BY DEF AuditInv
<1> DEFINE e == Cardinality(Places(Records))
<1>2. /\ stream.report \in Nat /\ dropped \in Nat /\ told \in Nat /\ sent \in Nat
      /\ written \in Nat /\ lost \in Nat /\ Holding \in {0, 1} /\ e \in Nat
      /\ STDERR_AUDIT_QUEUE_DEPTH \in Nat
  BY HandTyped, AuditSizes
<1>3. /\ drain.pc = "idle" /\ producer' = producer /\ queued' = queued /\ offered' = offered
      /\ sent' = sent /\ dropped' = dropped /\ failed' = failed /\ stream' = stream
      /\ acked' = acked /\ failures' = failures /\ written' = written /\ told' = told
      /\ lost' = lost
  BY DEF Flush, drainOnly, producing
<1>4. Places({"flush"}) = {} /\ stream.message # "flush" /\ acked = FALSE
  BY <1>1, <1>3 DEF DrainsInv
<1>5. /\ drain' \in DrainState /\ drain'.pc = "waiting" /\ drain'.sent = sent
      /\ drain'.drops = told + dropped + stream.report
  BY <1>2 DEF DrainState
<1>6. /\ Cardinality(Places(Records)') = e + One("flush" \in Records)
      /\ Cardinality(Places({"anon"})') = Cardinality(Places({"anon"})) + One("flush" \in {"anon"})
      /\ \A i \in Places({"flush"})' : i \in Places({"flush"}) \/ i = Len(chan) + 1
  BY <1>1, PlacesAppend
<1>7. One("flush" \in Records) = 0 /\ One("flush" \in {"anon"}) = 0
  BY DEF One, Records
<1>8. Cardinality(Places({"anon"})) \in Nat
  BY AuditSizes
<1>9. Cardinality(Places(Records)') = e /\ Cardinality(Places({"anon"})') = Cardinality(Places({"anon"}))
  BY <1>2, <1>6, <1>7, <1>8
<1>10. /\ With(Handling)' = With(Handling) /\ With(Reserving)' = With(Reserving)
       /\ With(Unattributed)' = With(Unattributed)
       /\ Holding' = Holding /\ One(stream.pc = "took")' = One(stream.pc = "took")
  BY <1>3 DEF With, Handling, Reserving, Unattributed, Records, Holding, One
<1>11. AuditType'
  <2>1. /\ chan' \in Seq(Records \cup {"flush"}) /\ Len(chan') = Len(chan) + 1
        /\ Len(chan) \in Nat
    BY <1>1 DEF AuditType
  <2>2. Len(chan') <= STDERR_AUDIT_QUEUE_DEPTH
    BY <1>2, <2>1
  <2> QED
    BY <1>1, <1>3, <1>5, <2>1, <2>2 DEF AuditType
<1>12. CountsInv'
  BY <1>1, <1>3, <1>9, <1>10 DEF CountsInv
<1>13. ShareInv'
  BY <1>1, <1>9, <1>10 DEF ShareInv
<1>14. HandInv'
  BY <1>1, <1>3 DEF HandInv
<1>15. BehindInv'
  <2>1. Len(chan) \in Nat /\ \A i \in 1 .. Len(chan) : chan[i] \in Records \cup {"flush"}
    BY <1>1 DEF AuditType
  <2>2. Places(Records) = 1 .. Len(chan)
    BY <1>4, <2>1 DEF Places
  <2>3. e = Len(chan)
    <3>1. Cardinality(1 .. Len(chan)) = IF 1 > Len(chan) THEN 0 ELSE Len(chan) - 1 + 1
      BY <2>1, FS_Interval
    <3> QED
      BY <2>1, <2>2, <3>1
  <2>4. sent = written + lost + Holding + e
    BY <1>1 DEF CountsInv
  <2> HIDE DEF e
  <2>5. \A i \in Places({"flush"})' : i = e + 1
    BY <1>4, <1>6, <2>3
  <2>6. written + lost + Holding + (e + 1) - 1 >= sent
    BY <1>2, <2>4
  <2>7. \A i \in Places({"flush"})' : written + lost + Holding + i - 1 >= sent
    <3> TAKE i \in Places({"flush"})'
    <3>1. i = e + 1
      BY <2>5
    <3> QED
      BY <2>6, <3>1
  <2>8. failed = FALSE => lost = 0
    BY <1>1 DEF BehindInv
  <2> QED
    BY <1>3, <1>4, <1>5, <1>10, <2>7, <2>8 DEF BehindInv
<1>16. DropsInv'
  <2>1. stream.pc # "ack"
    BY <1>1, <1>4 DEF HandInv
  <2>2. told + dropped + stream.report >= drain'.drops
    BY <1>2, <1>5
  <2> QED
    BY <1>3, <1>4, <2>1, <2>2 DEF DropsInv
<1>17. DrainsInv'
  BY <1>5 DEF DrainsInv
<1> QED
  BY <1>11, <1>12, <1>13, <1>14, <1>15, <1>16, <1>17 DEF AuditInv

(* The drain goes on: a verdict of drained needs the acknowledgement and   *)
(* that no write has failed.                                               *)
LEMMA DrainSteps ==
  ASSUME AuditInv, UNCHANGED <<chan, drainOnly>>, drain' \in DrainState,
         drain'.sent = drain.sent, drain'.drops = drain.drops,
         drain'.pc = "idle" => drain.pc = "idle",
         drain'.pc = "check" => acked = TRUE,
         drain'.pc = "Drained" => drain.pc = "Drained" \/ (drain.pc = "check" /\ failed = FALSE)
  PROVE  AuditInv'
<1>1. /\ stream \in StreamState /\ drain \in DrainState
      /\ stream.report \in Nat /\ drain.sent \in Nat /\ drain.drops \in Nat
      /\ acked \in BOOLEAN /\ failed \in BOOLEAN /\ failures \in Nat
      /\ failures <= MaxFailures
      /\ queued \in Nat /\ dropped \in Nat /\ written \in Nat /\ told \in Nat /\ lost \in Nat
      /\ HandInv /\ BehindInv /\ DropsInv /\ DrainsInv
      /\ One(stream.pc = "took") \in {0, 1} /\ Holding \in {0, 1}
  BY HandTyped
<1>2. /\ producer' = producer /\ queued' = queued /\ offered' = offered
      /\ sent' = sent /\ dropped' = dropped /\ failed' = failed /\ stream' = stream
      /\ acked' = acked /\ failures' = failures /\ written' = written /\ told' = told
      /\ lost' = lost /\ chan' = chan
  BY DEF drainOnly, producing
<1>3. Holding' = Holding /\ Places({"flush"})' = Places({"flush"})
  BY <1>2 DEF Holding, Places
<1>4. HandInv'
  BY <1>1, <1>2 DEF HandInv
<1>5. /\ queued' = queued + One(stream'.pc = "took") - One(stream.pc = "took")
      /\ queued' <= queued
  <2>1. One(stream'.pc = "took") = One(stream.pc = "took")
    BY <1>2
  <2> QED
    BY <1>1, <1>2, <2>1
<1>6. AuditType' /\ CountsInv' /\ ShareInv'
  <2>1. Holding' + written' + lost' = Holding + written + lost
        /\ dropped' + stream'.report + told' = dropped + stream.report + told
    BY <1>2, <1>3
  <2> QED
    BY <1>1, <1>2, <1>4, <1>5, <2>1, HandMoves
<1>7. BehindInv' /\ DropsInv'
  BY <1>1, <1>2, <1>3 DEF BehindInv, DropsInv
<1>8. DrainsInv'
  <2>1. ASSUME drain.pc = "check", failed = FALSE
        PROVE  written >= drain.sent /\ told >= drain.drops
    <3>1. acked = TRUE /\ lost = 0
      BY <1>1, <2>1 DEF DrainsInv, BehindInv
    <3>2. written + lost >= drain.sent /\ told >= drain.drops
      BY <1>1, <2>1, <3>1 DEF BehindInv, DropsInv
    <3> QED
      BY <1>1, <3>1, <3>2
  <2> QED
    BY <1>1, <1>2, <1>3, <2>1 DEF DrainsInv
<1> QED
  BY <1>4, <1>6, <1>7, <1>8 DEF AuditInv

LEMMA StepAuditInv == AuditInv /\ [AuditNext]_auditVars => AuditInv'
<1> SUFFICES ASSUME AuditInv, [AuditNext]_auditVars PROVE AuditInv'
  OBVIOUS
<1>1. drain \in DrainState
  BY HandTyped
<1> DEFINE To(pc) == [drain EXCEPT !.pc = pc]
<1>2. \A pc \in {"check", "Drained", "OutcomeUnknown"} :
        /\ To(pc) \in DrainState /\ To(pc).pc = pc
        /\ To(pc).sent = drain.sent /\ To(pc).drops = drain.drops
  BY <1>1 DEF DrainState
<1>3. CASE UNCHANGED auditVars
  <2>1. drain.pc = "check" => acked = TRUE
    BY DEF AuditInv, DrainsInv
  <2> QED
    BY <1>1, <1>3, <2>1, DrainSteps DEF auditVars, drainOnly, producing
<1>4. ASSUME NEW p \in Producers, NEW record \in Records, Reserve(p, record) PROVE AuditInv'
  BY <1>4, OfferSteps
<1>5. ASSUME NEW p \in Producers, Refund(p) \/ CountDrop(p) PROVE AuditInv'
  BY <1>5, OfferSteps
<1>6. ASSUME NEW p \in Producers, TrySend(p) PROVE AuditInv'
  <2>1. CASE /\ Len(chan) < STDERR_AUDIT_QUEUE_DEPTH /\ chan' = Append(chan, producer[p].record)
             /\ sent' = sent + 1 /\ Moves(p, "idle")
    BY <1>6, <2>1, SendStep
  <2>2. CASE UNCHANGED <<chan, sent>>
    BY <1>6, <2>2, OfferSteps
  <2> QED
    BY <1>6, <2>1, <2>2 DEF TrySend
<1>7. CASE Writer
  BY <1>7, RecvStep, TimeoutStep, TookStep, SwapStep, ToldStep, TellFailsStep, WriteStep, AckStep
     DEF Writer
<1>8. CASE Flush
  <2>1. CASE /\ Len(chan) < STDERR_AUDIT_QUEUE_DEPTH /\ chan' = Append(chan, "flush")
             /\ drain' = [pc |-> "waiting", sent |-> sent,
                          drops |-> told + dropped + stream.report]
    BY <1>8, <2>1, FlushStep
  <2>2. CASE drain' = To("OutcomeUnknown") /\ UNCHANGED chan
    <3>1. UNCHANGED <<chan, drainOnly>>
      BY <1>8, <2>2 DEF Flush
    <3> HIDE DEF To
    <3> QED
      BY <1>2, <2>2, <3>1, DrainSteps
  <2> QED
    BY <1>8, <2>1, <2>2 DEF Flush
<1>9. CASE DrainTimesOut
  <2>1. drain' = To("OutcomeUnknown") /\ UNCHANGED <<chan, drainOnly>>
    BY <1>9 DEF DrainTimesOut
  <2> HIDE DEF To
  <2> QED
    BY <1>2, <2>1, DrainSteps
<1>10. CASE Acked
  <2>1. drain' = To("check") /\ acked = TRUE /\ UNCHANGED <<chan, drainOnly>>
    BY <1>10, HandTyped DEF Acked
  <2> HIDE DEF To
  <2> QED
    BY <1>2, <2>1, DrainSteps
<1>11. CASE Verdict
  <2>1. /\ UNCHANGED <<chan, drainOnly>> /\ drain.pc = "check"
        /\ \/ drain' = To("OutcomeUnknown")
           \/ drain' = To("Drained") /\ failed = FALSE
    BY <1>11, HandTyped DEF Verdict
  <2> HIDE DEF To
  <2> QED
    BY <1>2, <2>1, DrainSteps
<1> QED
  BY <1>3, <1>4, <1>5, <1>6, <1>7, <1>8, <1>9, <1>10, <1>11 DEF AuditNext

LEMMA AuditInvKeeps == AuditInv => AuditAccounted
<1> SUFFICES ASSUME AuditInv PROVE AuditAccounted
  OBVIOUS
<1>1. AuditType /\ HandInv /\ CountsInv /\ ShareInv /\ BehindInv /\ DropsInv /\ DrainsInv
  BY DEF AuditInv
<1> DEFINE a == Cardinality(With(Handling))
           b == Cardinality(With(Reserving))
           e == Cardinality(Places(Records))
<1>2. /\ a \in Nat /\ b \in Nat /\ e \in Nat /\ Cardinality(Places({"anon"})) \in Nat
      /\ Cardinality(With(Unattributed)) \in Nat /\ Holding \in {0, 1} /\ stream.report \in Nat
      /\ STDERR_AUDIT_QUEUE_DEPTH \in Nat /\ MaxRecords \in Nat /\ MaxFailures \in Nat
      /\ STDERR_AUDIT_UNATTRIBUTED_CEILING \in 0 .. STDERR_AUDIT_QUEUE_DEPTH
  BY AuditSizes
<1>3. /\ queued \in Nat /\ dropped \in Nat /\ offered \in Nat /\ sent \in Nat
      /\ written \in Nat /\ told \in Nat /\ lost \in Nat /\ failures \in Nat
      /\ queued <= STDERR_AUDIT_QUEUE_DEPTH /\ offered <= MaxRecords
      /\ failures <= MaxFailures
  BY <1>1 DEF AuditType
<1>4. producer \in [Producers -> ProducerState] /\ DOMAIN producer = Producers
  BY <1>1 DEF AuditType
<1>5. /\ {p \in DOMAIN producer : producer[p].pc \in {"send", "refund", "drop"}} = With(Handling)
      /\ {p \in DOMAIN producer : producer[p].pc \in {"send", "refund"}} = With(Reserving)
  <2>1. \A y \in ProducerState :
          /\ y \in Handling <=> y.pc \in {"send", "refund", "drop"}
          /\ y \in Reserving <=> y.pc \in {"send", "refund"}
    BY DEF ProducerState, Handling, Reserving
  <2> QED
    BY <1>4, <2>1 DEF With
<1>6. InFlight({"send", "refund", "drop"}) = a /\ InFlight({"send", "refund"}) = b
  BY <1>5 DEF InFlight
<1> HIDE DEF a, b, e
<1>7. /\ offered = a + e + Holding + written + lost + dropped + stream.report + told
      /\ queued = b + e + One(stream.pc = "took")
      /\ sent = written + lost + Holding + e
  BY <1>1 DEF CountsInv, a, b, e
<1>8. NothingUnaccounted
  BY <1>6, <1>7 DEF NothingUnaccounted, e
<1>9. SlotsExact
  BY <1>6, <1>7 DEF SlotsExact, e, One
<1>10. AttributedShareKept
  BY <1>1, <1>2 DEF ShareInv, AttributedShareKept
<1>11. DrainedMeansWritten
  BY <1>1 DEF DrainsInv, DrainedMeansWritten
<1>12. AuditTypeOK
  <2>1. \A p \in DOMAIN producer : /\ producer[p].pc \in {"idle", "send", "refund", "drop"}
                                   /\ producer[p].record \in Records
    BY <1>4 DEF ProducerState
  <2>2. /\ dropped \in 0 .. MaxRecords /\ offered \in 0 .. MaxRecords /\ sent \in 0 .. MaxRecords
        /\ written \in 0 .. MaxRecords /\ told \in 0 .. MaxRecords /\ lost \in 0 .. MaxRecords
    <3>1. /\ dropped <= offered /\ sent <= offered /\ written <= offered
          /\ told <= offered /\ lost <= offered
      BY <1>2, <1>3, <1>7
    <3> QED
      BY <1>2, <1>3, <3>1
  <2>3. queued \in 0 .. STDERR_AUDIT_QUEUE_DEPTH /\ failures \in 0 .. MaxFailures
    BY <1>2, <1>3
  <2>4. /\ stream.pc \in {"recv", "took", "report", "tell", "write", "ack", "absent"}
        /\ drain.pc \in {"idle", "waiting", "check", "Drained", "OutcomeUnknown"}
    BY <1>1 DEF AuditType, StreamState, DrainState
  <2> QED
    BY <1>1, <2>1, <2>2, <2>3, <2>4 DEF AuditType, AuditTypeOK
<1> QED
  BY <1>8, <1>9, <1>10, <1>11, <1>12 DEF AuditAccounted

(***************************************************************************)
(* For any number of producers, any queue depth and share, any number of   *)
(* records and failed writes: every decision offered to the audit stream   *)
(* is queued, written, counted as dropped, told or lost to a failed write  *)
(* (offer, write_until_disconnected, report_drops); the slot counter is    *)
(* exact, unattributed records stay within their share, and a drain that   *)
(* says Drained (drain_queue) tells the truth.                             *)
(***************************************************************************)
THEOREM AuditAccountedHolds == AuditSpec => []AuditAccounted
<1>1. AuditSpec => []AuditInv
  BY InitAuditInv, StepAuditInv, PTL DEF AuditSpec
<1> QED
  BY <1>1, AuditInvKeeps, PTL
=============================================================================
