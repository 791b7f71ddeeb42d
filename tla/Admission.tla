------------------------------ MODULE Admission ------------------------------
(***************************************************************************)
(* The admission gate of one replica: the enforcer's per-request decision, *)
(* the degraded window it keeps, the verifier's revision floor, and the    *)
(* shared store that carries the authority's signed records.               *)
(*                                                                         *)
(* One workload.  A record is the authority's signed statement about it;   *)
(* the store is only a substrate, so it may lose a record, hold bytes that *)
(* nobody signed, or be put back to any record issued before.  Any lookup  *)
(* may fail.  `clock` is elapsed time (Instant); the wall clock reads      *)
(* clock + offset - Behind, and an NTP step moves offset.                  *)
(***************************************************************************)
EXTENDS Integers, FiniteSets, FiniteSetsExt

CONSTANTS
    Requests,      \* tasks serving requests in this process
    Generations,   \* admitted configuration epochs
    P,             \* policy.degraded_propagation_bound
    AllowDegraded, \* policy.allow_degraded_mode
    Required,      \* AdmissionEnforcement::Required
    Skew,          \* max_clock_skew of the policy and of the currentness
    MaxAge,        \* currentness.max_record_age
    AssertionAge,  \* policy.max_assertion_age
    Offsets,       \* what the wall clock may be off by, less Behind
    Behind,        \* how far it may be behind
    Faults,        \* of "substrate", "longlife", "lost_set", "step"
    Presents,      \* of "bare", "unsound", "fresh", "stale": what callers present
    MaxClock,      \* bound: the run's length
    MaxRevision,   \* bound: records the authority issues
    MaxRestarts    \* bound: restarts of the process

ASSUME AdmissionAssumption ==
    /\ Generations \subseteq Nat /\ Generations # {}
    /\ P \in Int /\ Skew \in Nat /\ MaxAge \in Nat \ {0} /\ AssertionAge \in Nat
    /\ AllowDegraded \in BOOLEAN /\ Required \in BOOLEAN
    /\ Offsets \subseteq Nat /\ Offsets # {} /\ Behind \in Nat
    /\ Faults \subseteq {"substrate", "longlife", "lost_set", "step"}
    /\ Presents \subseteq {"bare", "unsound", "fresh", "stale"}
    /\ MaxClock \in Nat /\ MaxRevision \in Nat /\ MaxRestarts \in Nat

VARIABLES
    clock, offset,
    store,      \* the bytes under the workload's key
    issued,     \* every record the authority signed
    revoked,    \* generation -> when the authority revoked it, or Never
    floor,      \* verifier.observed_revisions, 0 when there is no entry
    last_read,  \* DegradedWindow.last_read, Never when None
    req,        \* request -> its task
    restarts,
    \* history the properties refer to
    lastServed, \* when the store last executed a lookup it answered
    answered,   \* the latest start of a lookup this process saw answered
    accepted    \* the highest revision this process accepted

vars == <<clock, offset, store, issued, revoked, floor, last_read, req,
          restarts, lastServed, answered, accepted>>

Never == -100
wall == clock + offset - Behind

\* What an answered lookup finds under the key: no value, or a record; one that
\* is not sound fails the JWS shape, the signature, the profile or the subject.
NoRecord == [revision |-> 0, generation |-> 0, status |-> "none",
             iat |-> 0, exp |-> 0, sound |-> FALSE]
Forged   == [NoRecord EXCEPT !.status = "admitted"]

Record == [revision : Nat, generation : Nat, status : {"admitted", "revoked", "none"},
           iat : Int, exp : Int, sound : BOOLEAN]

\* The evidence a call presents; sound covers the assertion's signature, issuer,
\* profile, audience, its actor and the digest binding.
Presented(kind) == [kind |-> kind, iat |-> 0, generation |-> 0, sound |-> FALSE]

Idle == [pc |-> "idle", start |-> 0, now |-> 0, evidence |-> Presented("bare"),
         raw |-> NoRecord, floor |-> 0, before |-> 0, facet |-> "none"]

Facets == {"none", "NotConfigured", "LiveConfirmed", "Degraded",
           "AdmissionNotCurrent", "AdmissionStateUnavailable",
           "AdmissionAssertionInvalid", "AdmissionAssertionExpired"}

TypeOK ==
    /\ clock \in 0 .. MaxClock /\ offset \in Offsets
    /\ store \in Record /\ issued \subseteq Record
    /\ revoked \in [Generations -> Nat \cup {Never}]
    /\ floor \in 0 .. MaxRevision
    /\ last_read \in 0 .. clock \cup {Never}
    /\ restarts \in 0 .. MaxRestarts
    /\ lastServed \in 0 .. clock \cup {Never}
    /\ answered \in 0 .. clock \cup {Never}
    /\ accepted \in 0 .. MaxRevision
    /\ \A r \in Requests :
         /\ req[r].pc \in {"idle", "lookup", "answered", "verify", "done"}
         /\ req[r].start \in 0 .. clock
         /\ req[r].raw \in Record
         /\ req[r].floor \in 0 .. MaxRevision
         /\ req[r].facet \in Facets
         /\ (req[r].facet # "none") = (req[r].pc = "done")

DegradedWindow_unearned == Never

Init ==
    /\ clock = 0 /\ offset \in Offsets
    /\ store = NoRecord /\ issued = {}
    /\ revoked = [g \in Generations |-> Never]
    /\ floor = 0 /\ last_read = DegradedWindow_unearned
    /\ req = [r \in Requests |-> Idle]
    /\ restarts = 0 /\ lastServed = Never /\ answered = Never /\ accepted = 0

----------------------------------------------------------------------------
(* The authority and the store *)

check_currentness_window(rec, now) ==
    /\ rec.iat - Skew <= now
    /\ now < rec.exp + Skew
    /\ rec.iat < rec.exp

\* check_currentness: the record's own window, and the deployment's ceiling on it.
check_currentness(rec, now) ==
    /\ rec.iat - Skew <= now
    /\ now < rec.exp + Skew
    /\ rec.iat < rec.exp
    /\ rec.exp - rec.iat <= MaxAge

\* verify_admission_state_record: origin and subject, then time, then the floor.
verify_admission_state_record(rec, observed, now) ==
    /\ rec.sound
    /\ check_currentness(rec, now)
    /\ rec.revision >= observed

Revision == Cardinality(issued)

\* The authority signs a statement: a generation it has revoked is never
\* admitted again.  `life` is the window it asks for.
Issue(g, status, life) ==
    /\ Revision < MaxRevision
    /\ life > MaxAge => "longlife" \in Faults
    /\ status = "admitted" => revoked[g] = Never
    /\ LET rec == [revision |-> Revision + 1, generation |-> g, status |-> status,
                   iat |-> clock, exp |-> clock + life, sound |-> TRUE]
       IN /\ issued' = issued \cup {rec}
          \* RedisAdmissionSource::publish verifies before it writes, and the SET may fail
          /\ \/ /\ verify_admission_state_record(rec, Revision, clock)
                /\ store' = rec
             \/ "lost_set" \in Faults /\ UNCHANGED store
    /\ revoked' = IF status = "revoked" /\ revoked[g] = Never
                  THEN [revoked EXCEPT ![g] = clock] ELSE revoked
    /\ UNCHANGED <<clock, offset, floor, last_read, req, restarts, lastServed,
                   answered, accepted>>

\* A restore, a failover to a lagging replica, an eviction or a foreign write.
Substrate ==
    /\ "substrate" \in Faults
    /\ store' \in issued \cup {NoRecord, Forged}
    /\ UNCHANGED <<clock, offset, issued, revoked, floor, last_read, req,
                   restarts, lastServed, answered, accepted>>

----------------------------------------------------------------------------
(* The decision *)

\* verify_admission_assertion's two time checks.
AssertionFresh(e, now) ==
    /\ e.iat - Skew <= now
    /\ now - e.iat <= AssertionAge + Skew

\* check_admission with the authority's state.
CheckLive(e, state, now) ==
    IF ~ e.sound THEN "AdmissionAssertionInvalid"
    ELSE IF ~ AssertionFresh(e, now) THEN "AdmissionAssertionExpired"
    ELSE IF e.generation = state.generation /\ state.status = "admitted"
         THEN "LiveConfirmed" ELSE "AdmissionNotCurrent"

\* DegradedWindow::exhausted
exhausted(at) ==
    \/ ~ AllowDegraded
    \/ last_read = Never
    \/ at - last_read > Max({P, 0})

\* check_admission without it, and the conversion of a DegradedCandidate.
CheckDegraded(e, start, now) ==
    IF ~ e.sound THEN "AdmissionAssertionInvalid"
    ELSE IF ~ AssertionFresh(e, now) THEN "AdmissionAssertionExpired"
    ELSE IF ~ AllowDegraded \/ now - e.iat > P + Skew \/ exhausted(start)
         THEN "AdmissionStateUnavailable" ELSE "Degraded"

\* What outlives the decision is its facet, and what the properties ask of it.
Finish(r, facet) ==
    req' = [req EXCEPT ![r] =
        IF facet \in {"LiveConfirmed", "Degraded"}
        THEN [@ EXCEPT !.pc = "done", !.facet = facet, !.now = 0, !.floor = 0]
        ELSE [Idle EXCEPT !.pc = "done", !.facet = facet]]

record_read_wall(at) == last_read' = Max({last_read, wall})

record_read_now(at) == last_read' = Max({last_read, clock})

record_read_latest(at) == last_read' = at

\* DegradedWindow::record_read
record_read(at) == last_read' = Max({last_read, at})

record_observed_latest(revision) == floor' = revision

\* AdmissionRecordVerifier::record_observed
record_observed(revision) == floor' = Max({floor, revision})

\* decide, up to the await: both clocks are read before the lookup starts.
Begin(r, e) ==
    /\ req[r].pc = "idle"
    /\ req' = [req EXCEPT ![r] =
         IF e.kind = "bare"
         THEN [Idle EXCEPT !.pc = "done", !.start = clock, !.now = wall, !.evidence = e,
                !.facet = IF Required THEN "AdmissionStateUnavailable" ELSE "NotConfigured"]
         ELSE [Idle EXCEPT !.pc = "lookup", !.start = clock, !.now = wall, !.evidence = e]]
    /\ UNCHANGED <<clock, offset, store, issued, revoked, floor, last_read,
                   restarts, lastServed, answered, accepted>>

\* The GET executes at the store.
Get(r) ==
    /\ req[r].pc = "lookup"
    /\ req' = [req EXCEPT ![r].pc = "answered", ![r].raw = store]
    /\ lastServed' = clock
    /\ UNCHANGED <<clock, offset, store, issued, revoked, floor, last_read,
                   restarts, answered, accepted>>

\* The GET, or its answer, is lost: AdmissionSourceError::Unavailable.
GetFails(r) ==
    /\ req[r].pc \in {"lookup", "answered"}
    /\ Finish(r, CheckDegraded(req[r].evidence, req[r].start, req[r].now))
    /\ UNCHANGED <<clock, offset, store, issued, revoked, floor, last_read,
                   restarts, lastServed, answered, accepted>>

\* classify_answer: NoRecord, or observed_floor read under its own lock.
Classify(r) ==
    /\ req[r].pc = "answered"
    /\ \/ /\ req[r].raw = NoRecord
          /\ record_read(req[r].start)
          /\ answered' = Max({answered, req[r].start})
          /\ Finish(r, "AdmissionNotCurrent")
       \/ /\ req[r].raw # NoRecord
          /\ req' = [req EXCEPT ![r].pc = "verify", ![r].floor = floor,
                                ![r].before = accepted]
          /\ UNCHANGED <<last_read, answered>>
    /\ UNCHANGED <<clock, offset, store, issued, revoked, floor, restarts,
                   lastServed, accepted>>

\* The record is judged against the floor read before; an accepted one raises
\* the floor under a second lock, and the decision follows without an await.
Verify(r) ==
    /\ req[r].pc = "verify"
    /\ record_read(req[r].start)
    /\ answered' = Max({answered, req[r].start})
    /\ LET q == req[r] IN
       IF verify_admission_state_record(q.raw, q.floor, q.now)
       THEN /\ record_observed(q.raw.revision)
            /\ accepted' = Max({accepted, q.raw.revision})
            /\ Finish(r, CheckLive(q.evidence, q.raw, q.now))
       ELSE /\ Finish(r, "AdmissionNotCurrent")
            /\ UNCHANGED <<floor, accepted>>
    /\ UNCHANGED <<clock, offset, store, issued, revoked, restarts, lastServed>>

\* The process restarts: the floor and the window are its own.
Restart ==
    /\ restarts < MaxRestarts
    /\ restarts' = restarts + 1
    /\ floor' = 0 /\ last_read' = DegradedWindow_unearned
    /\ req' = [r \in Requests |-> Idle]
    /\ answered' = Never /\ accepted' = 0
    /\ UNCHANGED <<clock, offset, store, issued, revoked, lastServed>>

Tick ==
    /\ clock < MaxClock
    /\ clock' = clock + 1
    /\ UNCHANGED <<offset, store, issued, revoked, floor, last_read, req,
                   restarts, lastServed, answered, accepted>>

\* The wall clock is stepped.
Step ==
    /\ "step" \in Faults
    /\ offset' \in Offsets \ {offset}
    /\ UNCHANGED <<clock, store, issued, revoked, floor, last_read, req,
                   restarts, lastServed, answered, accepted>>

\* What a caller may present: nothing, evidence that fails, or an assertion the
\* issuer minted now or too early for the degraded fork; an issuer that cannot
\* reach the store goes on minting for a revoked generation.
Assertion(iat, g, sound) == [kind |-> "held", iat |-> iat, generation |-> g, sound |-> sound]

Evidence(g) ==
    [bare    |-> Presented("bare"),
     unsound |-> Assertion(clock, g, FALSE),
     fresh   |-> Assertion(clock, g, TRUE),
     stale   |-> Assertion(clock - (Max({P, 0}) + Skew + 1), g, TRUE)]

Next ==
    \/ \E g \in Generations, s \in {"admitted", "revoked"}, life \in {MaxAge, MaxAge + 1} :
         Issue(g, s, life)
    \/ Substrate
    \/ \E r \in Requests, g \in Generations, e \in Presents : Begin(r, Evidence(g)[e])
    \/ \E r \in Requests : Get(r) \/ GetFails(r) \/ Classify(r) \/ Verify(r)
    \/ Restart \/ Tick \/ Step

Spec == Init /\ [][Next]_vars

----------------------------------------------------------------------------
(* What the gate promises *)

\* Degraded serving is bounded by P: a call served on its own assertion began at
\* most P after the store last executed a lookup for anyone, whatever the wall
\* clock, the caller's refetched assertions, slow answers or a restart did.
\* (DegradedWindow::exhausted, record_read)
DegradedBounded ==
    \A r \in DOMAIN req : req[r].facet = "Degraded" =>
        lastServed # Never /\ req[r].start - lastServed <= Max({P, 0})

\* And the window is not cut short: a call whose evidence is good is refused for
\* an outage only when no lookup this process saw answered had begun within P,
\* in whatever order the answers came back.
DegradedEntitledStep ==
    \A r \in Requests :
         /\ req[r].pc \in {"lookup", "answered"}
         /\ req'[r].facet = "AdmissionStateUnavailable"
         /\ req[r].evidence.iat >= req[r].now - (P + Skew)
         => answered = Never \/ req[r].start - answered > P

\* A revocation ends live serving within the currentness budget, even when the
\* store is put back to the record it superseded: bytes signed before the
\* revocation are not acted on later than their age plus both clocks' error.
\* (check_currentness)
RevokedOut ==
    \A r \in DOMAIN req : req[r].facet = "LiveConfirmed" =>
        LET g == req[r].evidence.generation
        IN revoked[g] # Never => req[r].start < revoked[g] + MaxAge + 2 * Skew

\* A process never goes back: a call is not confirmed by a revision below one
\* that the process had accepted when the call's floor was read.
\* (AdmissionRecordVerifier::observed_floor, record_observed)
NoRewind ==
    \A r \in DOMAIN req : req[r].facet = "LiveConfirmed" =>
        req[r].raw.revision >= req[r].before
=============================================================================
