--------------------------- MODULE HandshakeQuota ---------------------------
(***************************************************************************)
(* The handshake path's share of a remote signer's quota.  Every TLS       *)
(* handshake wants one remote signature; when the signer says the shared   *)
(* quota is exhausted, the path refuses locally for a window, then lets    *)
(* one handshake probe.                                                    *)
(*                                                                         *)
(* The clock is read outside the lock, so a reading may be used late: at   *)
(* the gate, and when a throttle is turned into a window.                  *)
(***************************************************************************)
EXTENDS Integers, TLC

CONSTANTS
    Threads,
    cooldown,      \* the network timeout
    None,
    MaxTime        \* bound on the clock

ASSUME QuotaAssumption ==
    /\ cooldown \in Nat \ {0}
    /\ MaxTime \in Nat
    /\ None \notin Int

VARIABLES
    clock,
    until,         \* HandshakeQuotaWindow::until, an instant or None
    call,          \* thread -> [pc, now, probe, seen]
    \* what happened, for the properties
    armed,         \* when the throttles turned into windows were observed
    answered,      \* when the probes that were answered had started
    probed         \* when the probes since the last answer had started

vars == <<clock, until, call, armed, answered, probed>>

Time == 0 .. MaxTime
Instants == 0 .. (MaxTime + cooldown)

TypeOK ==
    /\ clock \in Time
    /\ until \in Instants \cup {None}
    /\ call \in [Threads -> [pc : {"idle", "gate", "signing", "release", "arm"},
                             now : Time, probe : Instants \cup {None}, seen : Time]]
    /\ armed \subseteq Time /\ answered \subseteq Time /\ probed \subseteq Time

Idle == [pc |-> "idle", now |-> 0, probe |-> None, seen |-> 0]

Signing(now, probe) == [pc |-> "signing", now |-> now, probe |-> probe, seen |-> 0]

Init ==
    /\ clock = 0 /\ until = None
    /\ call = [t \in Threads |-> Idle]
    /\ armed = {} /\ answered = {} /\ probed = {}

Tick ==
    /\ clock < MaxTime
    /\ clock' = clock + 1
    /\ UNCHANGED <<until, call, armed, answered, probed>>

----------------------------------------------------------------------------
(* guard *)

\* The first reading of the clock, before the lock.
Arrive(t) ==
    /\ call[t].pc = "idle"
    /\ call' = [call EXCEPT ![t] = [pc |-> "gate", now |-> clock, probe |-> None, seen |-> 0]]
    /\ UNCHANGED <<clock, until, armed, answered, probed>>

Refuse(t) ==
    /\ call[t].pc = "gate" /\ until # None /\ call[t].now < until
    /\ call' = [call EXCEPT ![t] = Idle]
    /\ UNCHANGED <<clock, until, armed, answered, probed>>

Probe_open(t) ==
    /\ call[t].pc = "gate" /\ until # None /\ call[t].now >= until
    /\ call' = [call EXCEPT ![t] = Signing(call[t].now, until)]
    /\ probed' = probed \cup {call[t].now}
    /\ UNCHANGED <<clock, until, armed, answered>>

\* The thread that finds the window elapsed installs the next before it calls.
Probe(t) ==
    /\ call[t].pc = "gate" /\ until # None /\ call[t].now >= until
    /\ until' = call[t].now + cooldown
    /\ call' = [call EXCEPT ![t] = Signing(call[t].now, call[t].now + cooldown)]
    /\ probed' = probed \cup {call[t].now}
    /\ UNCHANGED <<clock, armed, answered>>

Pass(t) ==
    /\ call[t].pc = "gate" /\ until = None
    /\ call' = [call EXCEPT ![t] = Signing(call[t].now, None)]
    /\ UNCHANGED <<clock, until, armed, answered, probed>>

\* sign returns Ok.
Signed(t) ==
    /\ call[t].pc = "signing"
    /\ call' = [call EXCEPT ![t] = IF call[t].probe = None THEN Idle
                                    ELSE [pc |-> "release", now |-> call[t].now,
                                          probe |-> call[t].probe, seen |-> 0]]
    /\ UNCHANGED <<clock, until, armed, answered, probed>>

\* sign returns an error that says nothing of the quota.
Unrelated(t) ==
    /\ call[t].pc = "signing"
    /\ call' = [call EXCEPT ![t] = Idle]
    /\ UNCHANGED <<clock, until, armed, answered, probed>>

\* sign returns Exhausted; the second reading of the clock.
Exhausted(t) ==
    /\ call[t].pc = "signing"
    /\ call' = [call EXCEPT ![t] = [pc |-> "arm", now |-> call[t].now,
                                    probe |-> call[t].probe, seen |-> clock]]
    /\ UNCHANGED <<clock, until, armed, answered, probed>>

\* arm never shortens a window.
arm(t) ==
    /\ call[t].pc = "arm"
    /\ LET end == call[t].seen + cooldown
       IN  until' = IF until # None /\ until > end THEN until ELSE end
    /\ armed' = armed \cup {call[t].seen}
    /\ call' = [call EXCEPT ![t] = Idle]
    /\ UNCHANGED <<clock, answered, probed>>

release_any(t) ==
    /\ call[t].pc = "release"
    /\ until' = None
    /\ answered' = answered \cup {call[t].now} /\ probed' = {}
    /\ call' = [call EXCEPT ![t] = Idle]
    /\ UNCHANGED <<clock, armed>>

\* release_probe clears only the window this thread installed.
release_probe(t) ==
    /\ call[t].pc = "release"
    /\ until' = IF until = call[t].probe THEN None ELSE until
    /\ answered' = answered \cup {call[t].now} /\ probed' = {}
    /\ call' = [call EXCEPT ![t] = Idle]
    /\ UNCHANGED <<clock, armed>>

Next ==
    \/ Tick
    \/ \E t \in Threads :
         \/ Arrive(t) \/ Refuse(t) \/ Probe(t) \/ Pass(t)
         \/ Signed(t) \/ Unrelated(t) \/ Exhausted(t)
         \/ arm(t) \/ release_probe(t)

Spec == Init /\ [][Next]_vars

Interchangeable == Permutations(Threads)

----------------------------------------------------------------------------
(* What the window promises *)

Enters(t) == call[t].pc = "gate" /\ call'[t].pc = "signing"

\* A throttle holds the handshake path off the signer for a whole cooldown after
\* it was observed: a call read at the gate as earlier than that reaches the
\* signer only if a probe that started no earlier than the throttle was answered.
ThrottleHolds ==
    [][\A t \in Threads : Enters(t) =>
         \A a \in armed : call[t].now < a + cooldown => \E s \in answered : s >= a]_vars

\* What makes ThrottleHolds inductive: a throttle's window is in force, or a
\* later probe was answered.
WindowKept ==
    \A a \in armed : \/ until # None /\ until >= a + cooldown
                     \/ \E s \in answered : s >= a

\* The waiting cohort is not released together: while no probe is answered, two
\* probes of an elapsed window are a cooldown apart.
ProbesSpaced ==
    [][\A t \in Threads : Enters(t) /\ until # None =>
         \A p \in probed : call[t].now >= p + cooldown]_vars
=============================================================================
