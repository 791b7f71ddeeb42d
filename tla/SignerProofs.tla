---------------------------- MODULE SignerProofs ----------------------------
(***************************************************************************)
(* The signer for every value of the constants: the throttle window of the *)
(* remote key service, the credential its threads share, and the delegated *)
(* key with its epoch, its windows and the outage of the root behind it.   *)
(***************************************************************************)
EXTENDS HandshakeQuota, SignerToken, DelegatedSigning, TLAPS

-----------------------------------------------------------------------------
(* HandshakeQuota.                                                         *)

\* The types the arithmetic rests on, without the bound on the clock.
QuotaTyped ==
    /\ clock \in Nat
    /\ until \in Nat \cup {None}
    /\ call \in [Threads -> [pc : {"idle", "gate", "signing", "release", "arm"},
                             now : Nat, probe : Nat \cup {None}, seen : Nat]]
    /\ armed \subseteq Nat /\ answered \subseteq Nat /\ probed \subseteq Nat

\* A probing thread's window is the one its own reading of the clock gave, so
\* clearing it says nothing of a throttle observed after that reading.
OwnWindow ==
    \A t \in Threads : /\ call[t].probe # None => call[t].probe = call[t].now + cooldown
                       /\ call[t].pc = "release" => call[t].probe # None

\* While no probe is answered, the window in force is past every probe.
ProbesCovered == \A p \in probed : until # None => until >= p + cooldown

QuotaInv == QuotaTyped /\ OwnWindow /\ WindowKept /\ ProbesCovered

\* The state after start, with no window and no call, satisfies the invariant.
LEMMA InitQuotaInv == Init => QuotaInv
BY QuotaAssumption DEF Init, Idle, QuotaInv, QuotaTyped, OwnWindow, WindowKept, ProbesCovered

\* Every step of guard, arm and release_probe keeps the invariant.
LEMMA StepQuotaInv == QuotaInv /\ [Next]_vars => QuotaInv'
<1> SUFFICES ASSUME QuotaInv, [Next]_vars PROVE QuotaInv'
  OBVIOUS
<1> USE QuotaAssumption
<1>typed. QuotaTyped /\ OwnWindow /\ WindowKept /\ ProbesCovered
  BY DEF QuotaInv
<1>1. CASE Tick
  BY <1>1, <1>typed DEF Tick, QuotaInv, QuotaTyped, OwnWindow, WindowKept, ProbesCovered
<1>2. ASSUME NEW t \in Threads, Arrive(t) PROVE QuotaInv'
  BY <1>2, <1>typed DEF Arrive, QuotaInv, QuotaTyped, OwnWindow, WindowKept, ProbesCovered
<1>3. ASSUME NEW t \in Threads, Refuse(t) PROVE QuotaInv'
  BY <1>3, <1>typed DEF Refuse, Idle, QuotaInv, QuotaTyped, OwnWindow, WindowKept, ProbesCovered
<1>4. ASSUME NEW t \in Threads, Probe(t) PROVE QuotaInv'
  <2>1. call[t].now \in Nat /\ until \in Nat /\ until <= call[t].now /\ until' = call[t].now + cooldown
    BY <1>4, <1>typed DEF Probe, Signing, QuotaTyped
  <2>2. QuotaTyped'
    <3>1. call[t].now + cooldown \in Nat
      BY <2>1
    <3>2. Signing(call[t].now, call[t].now + cooldown)
            \in [pc : {"idle", "gate", "signing", "release", "arm"},
                 now : Nat, probe : Nat \cup {None}, seen : Nat]
      BY <2>1, <3>1 DEF Signing
    <3> QED
      BY <1>4, <1>typed, <2>1, <3>1, <3>2 DEF Probe, QuotaTyped
  <2>3. OwnWindow'
    BY <1>4, <1>typed DEF Probe, Signing, QuotaTyped, OwnWindow
  <2>4. WindowKept'
    BY <1>4, <1>typed, <2>1 DEF Probe, Signing, QuotaTyped, WindowKept
  <2>5. ProbesCovered'
    BY <1>4, <1>typed, <2>1 DEF Probe, Signing, QuotaTyped, ProbesCovered
  <2> QED
    BY <2>2, <2>3, <2>4, <2>5 DEF QuotaInv
<1>5. ASSUME NEW t \in Threads, Pass(t) PROVE QuotaInv'
  BY <1>5, <1>typed DEF Pass, Signing, QuotaInv, QuotaTyped, OwnWindow, WindowKept, ProbesCovered
<1>6. ASSUME NEW t \in Threads, Signed(t) PROVE QuotaInv'
  BY <1>6, <1>typed DEF Signed, Idle, QuotaInv, QuotaTyped, OwnWindow, WindowKept, ProbesCovered
<1>7. ASSUME NEW t \in Threads, Unrelated(t) PROVE QuotaInv'
  BY <1>7, <1>typed DEF Unrelated, Idle, QuotaInv, QuotaTyped, OwnWindow, WindowKept, ProbesCovered
<1>8. ASSUME NEW t \in Threads, Exhausted(t) PROVE QuotaInv'
  BY <1>8, <1>typed DEF Exhausted, QuotaInv, QuotaTyped, OwnWindow, WindowKept, ProbesCovered
<1>9. ASSUME NEW t \in Threads, arm(t) PROVE QuotaInv'
  <2>1. /\ call[t].seen \in Nat /\ until' \in Nat /\ until' >= call[t].seen + cooldown
        /\ until # None => until' >= until
        /\ armed' = armed \cup {call[t].seen}
    BY <1>9, <1>typed DEF arm, QuotaTyped
  <2>2. QuotaTyped'
    BY <1>9, <1>typed, <2>1 DEF arm, Idle, QuotaTyped
  <2>3. OwnWindow'
    BY <1>9, <1>typed DEF arm, Idle, QuotaTyped, OwnWindow
  <2>4. WindowKept'
    <3> SUFFICES ASSUME NEW a \in armed'
                 PROVE  (until' # None /\ until' >= a + cooldown) \/ \E s \in answered' : s >= a
      BY DEF WindowKept
    <3>1. CASE a = call[t].seen
      BY <3>1, <2>1
    <3>2. CASE a \in armed
      BY <3>2, <2>1, <1>9, <1>typed DEF arm, QuotaTyped, WindowKept
    <3> QED
      BY <3>1, <3>2, <2>1
  <2>5. ProbesCovered'
    BY <1>9, <1>typed, <2>1 DEF arm, QuotaTyped, ProbesCovered
  <2> QED
    BY <2>2, <2>3, <2>4, <2>5 DEF QuotaInv
<1>10. ASSUME NEW t \in Threads, release_probe(t) PROVE QuotaInv'
  <2>1. QuotaTyped'
    BY <1>10, <1>typed DEF release_probe, Idle, QuotaTyped
  <2>2. OwnWindow'
    BY <1>10, <1>typed DEF release_probe, Idle, QuotaTyped, OwnWindow
  <2>3. WindowKept'
    <3> SUFFICES ASSUME NEW a \in armed
                 PROVE  (until' # None /\ until' >= a + cooldown) \/ \E s \in answered' : s >= a
      BY <1>10 DEF release_probe, WindowKept
    <3>1. a \in Nat /\ call[t].now \in Nat /\ call[t].probe = call[t].now + cooldown
      BY <1>10, <1>typed DEF release_probe, QuotaTyped, OwnWindow
    <3>2. CASE \E s \in answered : s >= a
      BY <3>2, <1>10 DEF release_probe
    <3>3. CASE until # None /\ until >= a + cooldown /\ until = call[t].probe
      BY <3>3, <3>1, <1>10 DEF release_probe
    <3>4. CASE until # None /\ until >= a + cooldown /\ until # call[t].probe
      BY <3>4, <1>10 DEF release_probe
    <3> QED
      BY <3>2, <3>3, <3>4, <1>typed DEF WindowKept
  <2>4. ProbesCovered'
    BY <1>10 DEF release_probe, ProbesCovered
  <2> QED
    BY <2>1, <2>2, <2>3, <2>4 DEF QuotaInv
<1>11. CASE UNCHANGED vars
  BY <1>11, <1>typed DEF vars, QuotaInv, QuotaTyped, OwnWindow, WindowKept, ProbesCovered
<1> QED
  BY <1>1, <1>2, <1>3, <1>4, <1>5, <1>6, <1>7, <1>8, <1>9, <1>10, <1>11 DEF Next

\* The signer is reached only through the gate: as a probe, or with no window.
LEMMA OnlyGateEnters ==
    ASSUME QuotaInv, Next, NEW t \in Threads, Enters(t)
    PROVE  Probe(t) \/ Pass(t)
<1>1. /\ call[t].pc = "gate" /\ call'[t].pc = "signing"
      /\ call \in [Threads -> [pc : {"idle", "gate", "signing", "release", "arm"},
                               now : Nat, probe : Nat \cup {None}, seen : Nat]]
  BY DEF Enters, QuotaInv, QuotaTyped
<1>2. CASE Tick
  BY <1>1, <1>2 DEF Tick
<1>3. ASSUME NEW u \in Threads,
             Arrive(u) \/ Refuse(u) \/ Signed(u) \/ Unrelated(u) \/ Exhausted(u)
             \/ arm(u) \/ release_probe(u)
      PROVE  FALSE
  <2>1. /\ call' = [call EXCEPT ![u] = call'[u]]
        /\ call[u].pc = "gate" => call'[u].pc # "signing"
    BY <1>1, <1>3 DEF Arrive, Refuse, Signed, Unrelated, Exhausted, arm, release_probe, Idle
  <2> QED
    BY <1>1, <2>1
<1>4. ASSUME NEW u \in Threads, Probe(u) \/ Pass(u) PROVE Probe(t) \/ Pass(t)
  BY <1>1, <1>4 DEF Probe, Pass
<1> QED
  BY <1>2, <1>3, <1>4 DEF Next

\* A throttle's window is in force or a later probe was answered, in every state.
THEOREM WindowKeptAlways == Spec => []WindowKept
<1>1. QuotaInv => WindowKept
  BY DEF QuotaInv
<1> QED
  BY <1>1, InitQuotaInv, StepQuotaInv, PTL DEF Spec

\* guard keeps the handshake path off the signer for a whole cooldown after every
\* throttle, however late the two clock readings are used.
THEOREM ThrottleAlwaysHolds == Spec => ThrottleHolds
<1>1. QuotaInv /\ [Next]_vars =>
        [\A t \in Threads : Enters(t) =>
           \A a \in armed : call[t].now < a + cooldown => \E s \in answered : s >= a]_vars
  <2> SUFFICES ASSUME QuotaInv, Next, NEW t \in Threads, Enters(t), NEW a \in armed,
                      call[t].now < a + cooldown
               PROVE  \E s \in answered : s >= a
    OBVIOUS
  <2>1. Probe(t) \/ Pass(t)
    BY OnlyGateEnters
  <2>2. until # None => until <= call[t].now
    BY <2>1 DEF Probe, Pass, QuotaInv, QuotaTyped
  <2>3. a \in Nat /\ call[t].now \in Nat /\ until \in Nat \cup {None}
    BY DEF QuotaInv, QuotaTyped
  <2> QED
    BY <2>2, <2>3, QuotaAssumption DEF QuotaInv, WindowKept
<1> QED
  BY <1>1, InitQuotaInv, StepQuotaInv, PTL DEF Spec, ThrottleHolds

\* While no probe is answered, guard lets the probes of elapsed windows through
\* one cooldown apart.
THEOREM ProbesAlwaysSpaced == Spec => ProbesSpaced
<1>1. QuotaInv /\ [Next]_vars =>
        [\A t \in Threads : Enters(t) /\ until # None =>
           \A p \in probed : call[t].now >= p + cooldown]_vars
  <2> SUFFICES ASSUME QuotaInv, Next, NEW t \in Threads, Enters(t), until # None, NEW p \in probed
               PROVE  call[t].now >= p + cooldown
    OBVIOUS
  <2>1. Probe(t)
    BY OnlyGateEnters DEF Pass
  <2>2. p \in Nat /\ call[t].now \in Nat /\ until \in Nat /\ until <= call[t].now
    BY <2>1 DEF Probe, QuotaInv, QuotaTyped
  <2> QED
    BY <2>2, QuotaAssumption DEF QuotaInv, ProbesCovered
<1> QED
  BY <1>1, InitQuotaInv, StepQuotaInv, PTL DEF Spec, ProbesSpaced

-----------------------------------------------------------------------------
(* SignerToken.                                                            *)

Places == {"idle", "look", "queue", "again", "fetch", "call", "evict", "error"}

Operation ==
  [at : Places, round : 0..2, entry : Nat, now : Int, since : Nat, tok : Int \cup {Absent}]

CredentialType ==
  /\ mono \in 0..MaxMono /\ back \in 0..MaxBack /\ fetches \in 0..MaxFetches
  /\ token \in [id : 1..MaxFetches, expires : Int] \cup {Absent}
  /\ failure \in Int \cup {Absent} /\ failedAt \in Nat \cup {Absent}
  /\ suspended \in Nat \cup {Absent}
  /\ flight \in Users \cup {Absent}
  /\ thread \in [Users -> Operation]
  /\ cast = {}

(* The flight's holder is the one thread that looks again or fetches. *)
FlightInv ==
  /\ \A t \in Users : thread[t].at \in {"again", "fetch"} <=> flight = t
  /\ \A t \in Users :
       /\ thread[t].at \in {"queue", "fetch"} => thread[t].since <= mono
       /\ thread[t].at = "fetch" => fetches >= 1 /\ mono - thread[t].since <= Timeout

(* Until the wall clock is set back it agrees with the other one. *)
FailureInv ==
  back = 0 =>
    /\ failure = failedAt
    /\ failedAt # Absent => failedAt <= mono
    /\ \A t \in Users : thread[t].at = "fetch" =>
         /\ thread[t].now = thread[t].since
         /\ failedAt # Absent => thread[t].since - failedAt >= Cooldown

TokenInv == CredentialType /\ FlightInv /\ FailureInv

-----------------------------------------------------------------------------
\* What is assumed of the constants, in the form the provers use.
LEMMA TokenConstants ==
  /\ Margin \in Nat /\ Floor \in Nat /\ Longest \in Nat /\ Cooldown \in Nat /\ Timeout \in Nat
  /\ MaxMono \in Nat /\ MaxFetches \in Nat /\ MaxBack \in Nat /\ MaxBack <= MaxMono
  /\ Floor > Margin + Timeout /\ Timeout > 0 /\ Cooldown >= Timeout /\ Lifetimes \subseteq Nat
  /\ Absent \notin Users /\ Absent \notin Int /\ \A i, e \in Int : Absent # [id |-> i, expires |-> e]
BY TokenAssumption

(* The operations as the steps leave them. *)
Rec(a, r, e, w, s, k) == [at |-> a, round |-> r, entry |-> e, now |-> w, since |-> s, tok |-> k]

\* The fields of one operation.
LEMMA Fields ==
  ASSUME NEW q \in Operation
  PROVE  /\ q.at \in Places /\ q.round \in 0..2 /\ q.entry \in Nat /\ q.now \in Int /\ q.since \in Nat
         /\ q.tok \in Int \cup {Absent}
BY DEF Operation

\* Before the first call nothing is held and nobody is in flight.
LEMMA InitTokenInv == TokenInit => TokenInv
<1> SUFFICES ASSUME TokenInit PROVE TokenInv
  OBVIOUS
<1>1. AtRest \in Operation /\ AtRest.at = "idle"
  BY DEF AtRest, Operation, Places
<1>2. CredentialType
  BY <1>1, TokenConstants DEF TokenInit, CredentialType
<1>3. FlightInv
  BY <1>1, <1>2, TokenConstants DEF TokenInit, FlightInv, CredentialType
<1>4. FailureInv
  BY <1>1 DEF TokenInit, FailureInv
<1> QED
  BY <1>2, <1>3, <1>4 DEF TokenInv

(* A step of a thread outside the flight: it neither takes nor ends it.    *)
LEMMA OutsideStep ==
  ASSUME TokenInv, NEW t \in Users, NEW r \in Operation, Goes(t, r),
         thread[t].at \notin {"again", "fetch"}, r.at \notin {"again", "fetch"},
         r.at = "queue" => r.since <= mono,
         UNCHANGED <<mono, back, failure, flight, fetches, failedAt>>
  PROVE  /\ thread' \in [Users -> Operation] /\ FlightInv' /\ FailureInv'
<1>1. thread' \in [Users -> Operation] /\ thread'[t] = r /\ \A u \in Users \ {t} : thread'[u] = thread[u]
  BY DEF TokenInv, CredentialType, Goes
<1>2. FlightInv'
  BY <1>1 DEF TokenInv, FlightInv
<1>3. FailureInv'
  BY <1>1 DEF TokenInv, FailureInv
<1> QED
  BY <1>1, <1>2, <1>3

(* What a suspension becomes at the end of an operation. *)
LEMMA SuspensionTyped ==
  ASSUME CredentialType, NEW t \in Users, suspend_token_retry(t)
  PROVE  /\ suspended' \in Nat \cup {Absent}
         /\ suspended # Absent => suspended' # Absent /\ suspended' >= suspended
<1>1. thread[t].entry + Cooldown \in Nat
  BY TokenConstants DEF CredentialType, Operation
<1> QED
  BY <1>1, TokenConstants DEF suspend_token_retry, CredentialType

\* An operation begins.
LEMMA BeginStep == ASSUME TokenInv, NEW t \in Users, Begin(t) PROVE TokenInv'
<1>1. PICK r : /\ r = [AtRest EXCEPT !.at = "look", !.round = 1, !.entry = mono]
               /\ Goes(t, r)
  BY DEF Begin
<1>2. r \in Operation /\ r.at = "look"
  <2>1. thread[t] \in Operation /\ mono \in Nat
    BY DEF TokenInv, CredentialType
  <2>2. r = Rec("look", 1, mono, 0, 0, Absent)
    BY <1>1 DEF AtRest, Rec
  <2> QED
    BY <2>1, <2>2 DEF Operation, Rec, Places
<1>3. thread[t].at = "idle" /\ UNCHANGED <<clocks, token, failure, flight, suspended, fetches, ghosts>>
  BY DEF Begin
<1>4. thread' \in [Users -> Operation] /\ FlightInv' /\ FailureInv'
  BY <1>1, <1>2, <1>3, OutsideStep DEF clocks, ghosts
<1> QED
  BY <1>3, <1>4 DEF TokenInv, CredentialType, clocks, ghosts

\* The cache is read without the flight.
LEMMA LookStep == ASSUME TokenInv, NEW t \in Users, Look(t) PROVE TokenInv'
<1>t. thread[t] \in Operation /\ mono \in Nat /\ CredentialType
  BY DEF TokenInv, CredentialType
<1>1. thread[t].at = "look" /\ UNCHANGED <<clocks, token, failure, flight, fetches, ghosts>>
  BY DEF Look
<1>2. PICK r : /\ Goes(t, r)
               /\ \/ token # Absent /\ r = [thread[t] EXCEPT !.at = "call", !.tok = token.id, !.since = mono]
                  \/ r = [thread[t] EXCEPT !.at = "error"]
                  \/ r = [thread[t] EXCEPT !.at = "queue", !.since = mono]
  BY DEF Look, fresh
<1>3. r \in Operation /\ r.at \notin {"again", "fetch"} /\ (r.at = "queue" => r.since <= mono)
  <2>1. token # Absent => token.id \in Int
    BY <1>t DEF CredentialType
  <2>2. CASE token # Absent /\ r = [thread[t] EXCEPT !.at = "call", !.tok = token.id, !.since = mono]
    <3>1. r = Rec("call", thread[t].round, thread[t].entry, thread[t].now, mono, token.id)
      BY <1>t, <2>2 DEF Operation, Rec
    <3> QED
      BY <1>t, <2>1, <2>2, <3>1, Fields DEF Operation, Rec, Places
  <2>3. CASE r = [thread[t] EXCEPT !.at = "error"]
    <3>1. r = Rec("error", thread[t].round, thread[t].entry, thread[t].now, thread[t].since, thread[t].tok)
      BY <1>t, <2>3 DEF Operation, Rec
    <3> QED
      BY <1>t, <3>1, Fields DEF Operation, Rec, Places
  <2>4. CASE r = [thread[t] EXCEPT !.at = "queue", !.since = mono]
    <3>1. r = Rec("queue", thread[t].round, thread[t].entry, thread[t].now, mono, thread[t].tok)
      BY <1>t, <2>4 DEF Operation, Rec
    <3> QED
      BY <1>t, <3>1, Fields DEF Operation, Rec, Places
  <2> QED
    BY <1>2, <2>2, <2>3, <2>4
<1>4. thread' \in [Users -> Operation] /\ FlightInv' /\ FailureInv'
  BY <1>1, <1>2, <1>3, OutsideStep DEF clocks, ghosts
<1>5. suspended' \in Nat \cup {Absent}
  BY <1>t, SuspensionTyped DEF Look, CredentialType
<1> QED
  BY <1>1, <1>4, <1>5 DEF TokenInv, CredentialType, clocks, ghosts

\* The flight is taken, by one.
LEMMA TakeFlightStep == ASSUME TokenInv, NEW t \in Users, TakeFlight(t) PROVE TokenInv'
<1>t. thread[t] \in Operation /\ CredentialType /\ FlightInv /\ FailureInv
  BY DEF TokenInv, CredentialType
<1>1. /\ thread[t].at = "queue" /\ flight = Absent /\ flight' = t
      /\ UNCHANGED <<mono, back, token, failure, suspended, fetches, failedAt, cast>>
  BY DEF TakeFlight, clocks, ghosts
<1>2. PICK r : r = [thread[t] EXCEPT !.at = "again"] /\ Goes(t, r)
  BY DEF TakeFlight
<1>3. r \in Operation /\ r.at = "again"
  BY <1>t, <1>2 DEF Operation, Places
<1>4. thread' \in [Users -> Operation] /\ thread'[t] = r /\ \A u \in Users \ {t} : thread'[u] = thread[u]
  BY <1>t, <1>2, <1>3 DEF CredentialType, Goes
<1>5. CredentialType'
  BY <1>t, <1>1, <1>4 DEF CredentialType
<1>6. FlightInv'
  BY <1>t, <1>1, <1>3, <1>4, TokenConstants DEF FlightInv
<1>7. FailureInv'
  BY <1>t, <1>1, <1>3, <1>4 DEF FailureInv
<1> QED
  BY <1>5, <1>6, <1>7 DEF TokenInv

(* The flight ends: its holder goes on without it. *)
LEMMA FlightEnds ==
  ASSUME CredentialType, FlightInv, NEW t \in Users, NEW r \in Operation, Goes(t, r),
         thread[t].at \in {"again", "fetch"}, r.at \notin {"queue", "again", "fetch"},
         flight' = Absent, UNCHANGED <<mono, fetches>>
  PROVE  /\ thread' \in [Users -> Operation] /\ FlightInv'
         /\ \A u \in Users : thread'[u].at # "fetch"
<1>1. thread' \in [Users -> Operation] /\ thread'[t] = r /\ \A u \in Users \ {t} : thread'[u] = thread[u]
  BY DEF CredentialType, Goes
<1>2. \A u \in Users \ {t} : thread[u].at \notin {"again", "fetch"}
  BY DEF FlightInv
<1>3. FlightInv'
  BY <1>1, <1>2, TokenConstants DEF FlightInv
<1> QED
  BY <1>1, <1>2, <1>3

\* The cache is read again under the flight.
LEMMA LookAgainStep == ASSUME TokenInv, NEW t \in Users, LookAgain(t) PROVE TokenInv'
<1>t. thread[t] \in Operation /\ CredentialType /\ FlightInv /\ FailureInv /\ mono \in Nat /\ back \in Nat
  BY DEF TokenInv, CredentialType
<1>1. /\ thread[t].at = "again"
      /\ UNCHANGED <<mono, back, token, failure, failedAt, cast>>
  BY DEF LookAgain, clocks, ghosts
<1>2. ASSUME NEW r, Goes(t, r), flight' = Absent, UNCHANGED fetches, suspended' \in Nat \cup {Absent},
             \/ token # Absent /\ r = [thread[t] EXCEPT !.at = "call", !.tok = token.id, !.since = mono]
             \/ r = [thread[t] EXCEPT !.at = "error"]
      PROVE  TokenInv'
  <2>1. r \in Operation /\ r.at \notin {"queue", "again", "fetch"}
    <3>1. token # Absent => token.id \in Int
      BY <1>t DEF CredentialType
    <3>2. CASE token # Absent /\ r = [thread[t] EXCEPT !.at = "call", !.tok = token.id, !.since = mono]
      <4>1. r = Rec("call", thread[t].round, thread[t].entry, thread[t].now, mono, token.id)
        BY <1>t, <3>2 DEF Operation, Rec
      <4> QED
        BY <1>t, <3>1, <3>2, <4>1, Fields DEF Operation, Rec, Places
    <3>3. CASE r = [thread[t] EXCEPT !.at = "error"]
      <4>1. r = Rec("error", thread[t].round, thread[t].entry, thread[t].now, thread[t].since, thread[t].tok)
        BY <1>t, <3>3 DEF Operation, Rec
      <4> QED
        BY <1>t, <4>1, Fields DEF Operation, Rec, Places
    <3> QED
      BY <1>2, <3>2, <3>3
  <2>2. thread' \in [Users -> Operation] /\ FlightInv' /\ \A u \in Users : thread'[u].at # "fetch"
    BY <1>t, <1>1, <1>2, <2>1, FlightEnds
  <2>3. FailureInv'
    BY <1>t, <1>1, <2>2 DEF FailureInv
  <2>4. CredentialType'
    BY <1>t, <1>1, <1>2, <2>2 DEF CredentialType
  <2> QED
    BY <2>2, <2>3, <2>4 DEF TokenInv
<1>3. CASE fresh(wall)
  BY <1>t, <1>2, <1>3 DEF LookAgain, fresh, CredentialType
<1>4. CASE ~ fresh(wall) /\ recent_failure(wall)
  BY <1>t, <1>2, <1>4, SuspensionTyped DEF LookAgain
<1>5. CASE ~ fresh(wall) /\ ~ recent_failure(wall)
  <2>1. fetches < MaxFetches /\ fetches' = fetches + 1 /\ UNCHANGED <<flight, suspended>>
    BY <1>5 DEF LookAgain
  <2>2. PICK r : r = [thread[t] EXCEPT !.at = "fetch", !.now = wall, !.since = mono] /\ Goes(t, r)
    BY <1>5 DEF LookAgain
  <2>3. wall \in Int /\ wall = mono - back
    BY <1>t DEF wall
  <2>4. r \in Operation /\ r.at = "fetch" /\ r.now = wall /\ r.since = mono
    BY <1>t, <2>2, <2>3 DEF Operation, Places
  <2>5. thread' \in [Users -> Operation] /\ thread'[t] = r /\ \A u \in Users \ {t} : thread'[u] = thread[u]
    BY <1>t, <2>2, <2>4 DEF CredentialType, Goes
  <2>6. CredentialType'
    BY <1>t, <1>1, <2>1, <2>5, TokenConstants DEF CredentialType
  <2>7. FlightInv'
    BY <1>t, <1>1, <2>1, <2>4, <2>5, TokenConstants DEF FlightInv, CredentialType
  <2>8. back = 0 /\ failedAt # Absent => mono - failedAt >= Cooldown
    BY <1>t, <1>5, <2>3, TokenConstants DEF FailureInv, recent_failure, CredentialType
  <2>9. \A u \in Users \ {t} : thread'[u].at # "fetch"
    BY <1>t, <1>1, <2>5 DEF FlightInv
  <2>10. FailureInv'
    BY <1>t, <1>1, <2>3, <2>4, <2>5, <2>8, <2>9 DEF FailureInv
  <2> QED
    BY <2>6, <2>7, <2>10 DEF TokenInv
<1> QED
  BY <1>3, <1>4, <1>5

\* A token is fetched.
LEMMA FetchedStep ==
  ASSUME TokenInv, NEW t \in Users, NEW life \in Lifetimes, Fetched(t, life) PROVE TokenInv'
<1>t. /\ thread[t] \in Operation /\ CredentialType /\ FlightInv /\ FailureInv /\ mono \in Nat
      /\ back \in Nat /\ life \in Nat
  BY TokenConstants DEF TokenInv, CredentialType
<1>1. /\ thread[t].at = "fetch" /\ flight' = Absent /\ failure' = Absent /\ failedAt' = Absent
      /\ UNCHANGED <<mono, back, suspended, fetches, cast>>
  BY DEF Fetched, clocks
<1>2. fetches \in 1..MaxFetches
  BY <1>t, <1>1 DEF FlightInv, CredentialType
<1>3. token' \in [id : 1..MaxFetches, expires : Int]
  <2>1. \A n \in Int : stated_expiry(n, life) \in Int
    BY <1>t, TokenConstants DEF stated_expiry
  <2>2. PICK e \in Int : token' = [id |-> fetches, expires |-> e]
    <3>1. thread[t].now \in Int /\ wall \in Int
      BY <1>t DEF Operation, wall
    <3> QED
      BY <2>1, <3>1, TokenConstants DEF Fetched
  <2> QED
    BY <1>2, <2>2
<1>4. PICK r : r = [thread[t] EXCEPT !.at = "call", !.tok = fetches, !.since = mono] /\ Goes(t, r)
  BY DEF Fetched
<1>5. r \in Operation /\ r.at = "call"
  <2>1. r = Rec("call", thread[t].round, thread[t].entry, thread[t].now, mono, fetches)
    BY <1>t, <1>4 DEF Operation, Rec
  <2> QED
    BY <1>t, <1>2, <2>1, Fields DEF Operation, Rec, Places
<1>6. thread' \in [Users -> Operation] /\ FlightInv' /\ \A u \in Users : thread'[u].at # "fetch"
  BY <1>t, <1>1, <1>4, <1>5, FlightEnds
<1>7. FailureInv'
  BY <1>1, <1>6 DEF FailureInv
<1>8. CredentialType'
  BY <1>t, <1>1, <1>3, <1>6 DEF CredentialType
<1> QED
  BY <1>6, <1>7, <1>8 DEF TokenInv

\* The fetch fails and is remembered.
LEMMA FetchFailsStep == ASSUME TokenInv, NEW t \in Users, FetchFails(t) PROVE TokenInv'
<1>t. /\ thread[t] \in Operation /\ CredentialType /\ FlightInv /\ FailureInv /\ mono \in Nat
      /\ back \in Nat
  BY DEF TokenInv, CredentialType
<1>1. /\ thread[t].at = "fetch" /\ flight' = Absent /\ failure' = wall /\ failedAt' = mono
      /\ UNCHANGED <<mono, back, token, fetches, cast>>
  BY DEF FetchFails, clocks
<1>2. suspended' \in Nat \cup {Absent}
  BY <1>t, SuspensionTyped DEF FetchFails
<1>3. PICK r : r = [thread[t] EXCEPT !.at = "error"] /\ Goes(t, r)
  BY DEF FetchFails
<1>4. r \in Operation /\ r.at = "error"
  BY <1>t, <1>3 DEF Operation, Places
<1>5. thread' \in [Users -> Operation] /\ FlightInv' /\ \A u \in Users : thread'[u].at # "fetch"
  BY <1>t, <1>1, <1>3, <1>4, FlightEnds
<1>6. wall \in Int /\ (back = 0 => wall = mono)
  BY <1>t DEF wall
<1>7. FailureInv'
  BY <1>t, <1>1, <1>5, <1>6 DEF FailureInv
<1>8. CredentialType'
  BY <1>t, <1>1, <1>2, <1>5, <1>6 DEF CredentialType
<1> QED
  BY <1>5, <1>7, <1>8 DEF TokenInv

(* The call, its refusal and the eviction: a thread outside the flight.    *)
LEMMA CallStep ==
  ASSUME TokenInv, NEW t \in Users,
         CallSigned(t) \/ CallFails(t) \/ Refused(t) \/ Returns(t)
  PROVE  TokenInv'
<1>t. thread[t] \in Operation /\ CredentialType
  BY DEF TokenInv, CredentialType
<1>1. /\ thread[t].at \in {"call", "error"}
      /\ UNCHANGED <<mono, back, token, failure, flight, fetches, failedAt, cast>>
  BY DEF CallSigned, CallFails, Refused, Returns, clocks, ghosts
<1>2. PICK r : /\ Goes(t, r)
               /\ \/ r = AtRest
                  \/ r = [thread[t] EXCEPT !.at = "error"]
                  \/ r = [thread[t] EXCEPT !.at = "evict"]
  BY DEF CallSigned, CallFails, Refused, Returns
<1>3. r \in Operation /\ r.at \notin {"queue", "again", "fetch"}
  BY <1>t, <1>2 DEF Operation, Places, AtRest
<1>4. thread' \in [Users -> Operation] /\ FlightInv' /\ FailureInv'
  BY <1>1, <1>2, <1>3, OutsideStep
<1>5. suspended' \in Nat \cup {Absent}
  BY <1>t, SuspensionTyped DEF CallSigned, CallFails, Refused, Returns, CredentialType
<1> QED
  BY <1>t, <1>1, <1>4, <1>5 DEF TokenInv, CredentialType

\* A refused token is thrown away.
LEMMA InvalidateStep == ASSUME TokenInv, NEW t \in Users, invalidate(t) PROVE TokenInv'
<1>t. thread[t] \in Operation /\ CredentialType
  BY DEF TokenInv, CredentialType
<1>1. /\ thread[t].at = "evict"
      /\ UNCHANGED <<mono, back, failure, flight, suspended, fetches, failedAt>>
  BY DEF invalidate, clocks
<1>2. PICK r : /\ Goes(t, r)
               /\ \/ r = [thread[t] EXCEPT !.at = "look", !.round = 2]
                  \/ r = [thread[t] EXCEPT !.at = "error"]
  BY DEF invalidate
<1>3. r \in Operation /\ r.at \notin {"queue", "again", "fetch"}
  <2>1. CASE r = [thread[t] EXCEPT !.at = "look", !.round = 2]
    <3>1. r = Rec("look", 2, thread[t].entry, thread[t].now, thread[t].since, thread[t].tok)
      BY <1>t, <2>1 DEF Operation, Rec
    <3> QED
      BY <1>t, <3>1, Fields DEF Operation, Rec, Places
  <2>2. CASE r = [thread[t] EXCEPT !.at = "error"]
    <3>1. r = Rec("error", thread[t].round, thread[t].entry, thread[t].now, thread[t].since, thread[t].tok)
      BY <1>t, <2>2 DEF Operation, Rec
    <3> QED
      BY <1>t, <3>1, Fields DEF Operation, Rec, Places
  <2> QED
    BY <1>2, <2>1, <2>2
<1>4. thread' \in [Users -> Operation] /\ FlightInv' /\ FailureInv'
  BY <1>1, <1>2, <1>3, OutsideStep
<1>5. cast' = {} /\ token' \in {token, Absent}
  <2>1. CASE token # Absent /\ token.id = thread[t].tok
    <3>1. token.id \in {thread[v].tok : v \in {u \in Users : thread[u].at = "evict"}}
      BY <1>1, <2>1
    <3>2. Cast = {}
      BY <3>1 DEF Cast
    <3> QED
      BY <1>t, <2>1, <3>2 DEF invalidate, CredentialType
  <2>2. CASE ~ (token # Absent /\ token.id = thread[t].tok)
    BY <1>t, <2>2 DEF invalidate, CredentialType
  <2> QED
    BY <2>1, <2>2
<1> QED
  BY <1>t, <1>1, <1>4, <1>5 DEF TokenInv, CredentialType

\* The steps around the credential: the clocks and the revocation.
LEMMA AroundStep ==
  ASSUME TokenInv, TokenTick \/ StepBack \/ Revoke \/ Rebind PROVE TokenInv'
<1>t. CredentialType /\ FlightInv /\ FailureInv
  BY DEF TokenInv
<1>1. CASE TokenTick
  <2>1. /\ mono < MaxMono /\ mono' = mono + 1 /\ UNCHANGED <<back, token, failure, flight, suspended,
             fetches, thread, failedAt, cast>>
        /\ \A t \in Users : thread[t].at = "fetch" => mono - thread[t].since < Timeout
    BY <1>1 DEF TokenTick, ghosts
  <2>2. CredentialType'
    BY <1>t, <2>1, TokenConstants DEF CredentialType
  <2>3. \A t \in Users : thread[t] \in Operation /\ thread[t].since \in Nat
    BY <1>t DEF CredentialType, Operation
  <2>4. FlightInv'
    BY <1>t, <2>1, <2>3, TokenConstants DEF FlightInv, CredentialType
  <2>5. FailureInv'
    BY <1>t, <2>1 DEF FailureInv, CredentialType
  <2> QED
    BY <2>2, <2>4, <2>5 DEF TokenInv
<1>2. CASE StepBack
  <2>1. /\ back < MaxBack /\ back' = back + 1 /\ UNCHANGED <<mono, token, failure, flight, suspended,
             fetches, thread, failedAt, cast>>
    BY <1>2 DEF StepBack, ghosts
  <2>2. CredentialType'
    BY <1>t, <2>1, TokenConstants DEF CredentialType
  <2>3. back' # 0
    BY <1>t, <2>1 DEF CredentialType
  <2> QED
    BY <1>t, <2>1, <2>2, <2>3 DEF TokenInv, FlightInv, FailureInv
<1>3. CASE Revoke \/ Rebind
  <2>1. UNCHANGED <<mono, back, token, failure, flight, suspended, fetches, thread, failedAt, cast>>
    BY <1>3 DEF Revoke, Rebind, ghosts, clocks
  <2> QED
    BY <1>t, <2>1 DEF TokenInv, CredentialType, FlightInv, FailureInv
<1> QED
  BY <1>1, <1>2, <1>3

\* Every step keeps the invariant.
LEMMA StepTokenInv == TokenInv /\ [TokenNext]_tokenVars => TokenInv'
<1> SUFFICES ASSUME TokenInv, [TokenNext]_tokenVars PROVE TokenInv'
  OBVIOUS
<1>1. CASE UNCHANGED tokenVars
  BY <1>1 DEF tokenVars, TokenInv, CredentialType, FlightInv, FailureInv
<1>2. CASE TokenNext
  BY <1>2, BeginStep, LookStep, TakeFlightStep, LookAgainStep, FetchedStep, FetchFailsStep, CallStep,
     InvalidateStep, AroundStep DEF TokenNext
<1> QED
  BY <1>1, <1>2

\* No step shortens a suspension.
LEMMA SuspensionStep ==
  TokenInv /\ [TokenNext]_tokenVars =>
    [suspended # Absent /\ suspended' # Absent => suspended' >= suspended]_suspended
<1> SUFFICES ASSUME TokenInv, TokenNext, suspended # Absent, suspended' # Absent
             PROVE  suspended' >= suspended
  BY DEF tokenVars
<1>t. CredentialType /\ suspended \in Nat
  BY DEF TokenInv, CredentialType
<1>1. CASE \/ TokenTick \/ StepBack \/ Revoke \/ Rebind
           \/ \E t \in Users : \/ Begin(t) \/ TakeFlight(t) \/ CallFails(t) \/ invalidate(t) \/ Returns(t)
                               \/ \E life \in Lifetimes : Fetched(t, life)
  <2>1. suspended' = suspended
    BY <1>1 DEF TokenTick, StepBack, Revoke, Rebind, Begin, TakeFlight, CallFails, invalidate, Returns, Fetched
  <2> QED
    BY <1>t, <2>1
<1>2. ASSUME NEW t \in Users, Look(t) \/ LookAgain(t) \/ FetchFails(t) \/ CallSigned(t) \/ Refused(t)
      PROVE  suspended' >= suspended
  <2>1. suspended' = suspended \/ suspend_token_retry(t)
    BY <1>2 DEF Look, LookAgain, FetchFails, CallSigned, Refused
  <2> QED
    BY <1>t, <2>1, SuspensionTyped
<1> QED
  BY <1>1, <1>2 DEF TokenNext

\* For any number of threads and any timing: one fetch serves them all, a failure is
\* shared by those who waited for it, a straggler throws away no successor and cuts no
\* suspension short.  (cached_or_exchange, fresh_or_recent_failure, invalidate,
\* suspend_token_retry)
THEOREM TokenSharedHolds == TokenSpec => TokenShared
<1>1. TokenInv => FetchShared /\ SuccessorKept
  BY TokenConstants DEF TokenInv, CredentialType, FlightInv, FailureInv, FetchShared, TokenTypeOK, OneFlight,
     FailureShared, SuccessorKept, Operation, Places
<1> QED
  BY <1>1, InitTokenInv, StepTokenInv, SuspensionStep, PTL DEF TokenSpec, TokenShared, SuspensionKept

-----------------------------------------------------------------------------
(* How long a thread waits for the flight.  It has just begun to; or it    *)
(* waits for a round trip begun no later; or that one is over, and it      *)
(* finds what came of it.                                                  *)
Settled == fresh(mono) \/ recent_failure(mono)

Fetching == \E h \in Users : thread[h].at = "fetch"

WaitInv ==
  back = 0 => \A t \in Users : thread[t].at = "queue" =>
    \/ mono = thread[t].since
    \/ \E h \in Users : thread[h].at = "fetch" /\ thread[h].since <= thread[t].since
    \/ mono - thread[t].since <= Timeout /\ Settled /\ ~ Fetching

NoEviction == \A t \in Users : thread[t].at # "evict"

(* A step that starts no fetch and ends none, and keeps the cache.         *)
LEMMA WaitKept ==
  ASSUME TokenInv, WaitInv, NEW t \in Users, NEW r, Goes(t, r),
         thread[t].at # "fetch", r.at # "fetch", r.at = "queue" => r.since = mono,
         UNCHANGED <<mono, back, token, failure>>
  PROVE  WaitInv'
<1>1. thread'[t] = r /\ \A u \in Users \ {t} : thread'[u] = thread[u]
  BY DEF TokenInv, CredentialType, Goes
<1>2. Settled' <=> Settled
  BY DEF Settled, fresh, recent_failure
<1>3. \A u \in Users : thread'[u].at = "fetch" <=> thread[u].at = "fetch" /\ thread'[u] = thread[u]
  BY <1>1
<1>4. Fetching' <=> Fetching
  BY <1>1 DEF Fetching
<1> QED
  BY <1>1, <1>2, <1>3, <1>4 DEF WaitInv

\* Whoever waited finds the fetched token.
LEMMA WaitFetchedStep ==
  ASSUME TokensLast, TokenInv, WaitInv, NEW t \in Users, NEW life \in Lifetimes, Fetched(t, life)
  PROVE  WaitInv'
<1>t. /\ CredentialType /\ FlightInv /\ FailureInv /\ thread[t] \in Operation /\ mono \in Nat
      /\ life \in Nat
  BY TokenConstants DEF TokenInv, CredentialType
<1> SUFFICES ASSUME back = 0 PROVE WaitInv'
  BY DEF WaitInv, Fetched, clocks
<1>1. thread[t].at = "fetch" /\ UNCHANGED <<mono, back>>
  BY DEF Fetched, clocks
<1>2. PICK r : r = [thread[t] EXCEPT !.at = "call", !.tok = fetches, !.since = mono] /\ Goes(t, r)
  BY DEF Fetched
<1>3. r.at = "call"
  BY <1>t, <1>2 DEF Operation
<1>4. thread'[t] = r /\ \A u \in Users \ {t} : thread'[u] = thread[u]
  BY <1>t, <1>2 DEF CredentialType, Goes
<1>5. \A u \in Users : thread[u].at = "fetch" => u = t
  BY <1>t, <1>1 DEF FlightInv
<1>6. ~ Fetching'
  BY <1>3, <1>4, <1>5 DEF Fetching
<1>7. Settled'
  <2>1. thread[t].now = thread[t].since /\ thread[t].since \in Nat /\ mono - thread[t].since <= Timeout
    BY <1>t, <1>1 DEF FailureInv, FlightInv, Operation
  <2>2. wall = mono
    BY <1>t DEF wall
  <2>3. PICK e : token' = [id |-> fetches, expires |-> e] /\ e \in Int /\ mono + Margin < e
    <3>1. CASE life = 0
      <4>1. thread[t].now + Floor \in Int /\ mono + Margin < thread[t].now + Floor
        BY <1>t, <2>1, TokenConstants
      <4>2. token' = [id |-> fetches, expires |-> thread[t].now + Floor]
        BY <3>1 DEF Fetched
      <4> QED
        BY <4>1, <4>2
    <3>2. CASE life # 0
      <4>1. life > Margin /\ Longest > Margin /\ ~ Evicts
        BY <3>2 DEF TokensLast
      <4>2. stated_expiry(mono, life) \in Int /\ mono + Margin < stated_expiry(mono, life)
        BY <1>t, <4>1, TokenConstants DEF stated_expiry
      <4>3. token' = [id |-> fetches, expires |-> stated_expiry(mono, life)]
        BY <2>2, <3>2, <4>1 DEF Fetched
      <4> QED
        BY <4>2, <4>3
    <3> QED
      BY <3>1, <3>2
  <2>4. fetches \in Int
    BY <1>t DEF CredentialType
  <2>5. token' # Absent
    BY <2>3, <2>4, TokenConstants
  <2> QED
    BY <1>1, <2>3, <2>5 DEF Settled, fresh
<1>8. ASSUME NEW u \in Users, thread'[u].at = "queue" PROVE mono - thread[u].since <= Timeout
  <2>1. thread'[u] = thread[u] /\ thread[u].at = "queue" /\ thread[u].since \in Nat
    BY <1>t, <1>3, <1>4, <1>8 DEF CredentialType, Operation
  <2>2. mono - thread[t].since <= Timeout /\ thread[t].since \in Nat
    BY <1>t, <1>1 DEF FlightInv, Operation
  <2> QED
    BY <1>t, <1>1, <1>5, <2>1, <2>2, TokenConstants DEF WaitInv
<1> QED
  BY <1>1, <1>3, <1>4, <1>6, <1>7, <1>8 DEF WaitInv

\* Whoever waited finds the failure.
LEMMA WaitFailsStep ==
  ASSUME TokenInv, WaitInv, NEW t \in Users, FetchFails(t) PROVE WaitInv'
<1>t. /\ CredentialType /\ FlightInv /\ FailureInv /\ thread[t] \in Operation /\ mono \in Nat
  BY DEF TokenInv, CredentialType
<1> SUFFICES ASSUME back = 0 PROVE WaitInv'
  BY DEF WaitInv, FetchFails, clocks
<1>1. thread[t].at = "fetch" /\ UNCHANGED <<mono, back>> /\ failure' = wall
  BY DEF FetchFails, clocks
<1>2. PICK r : r = [thread[t] EXCEPT !.at = "error"] /\ Goes(t, r)
  BY DEF FetchFails
<1>3. r.at = "error"
  BY <1>t, <1>2 DEF Operation
<1>4. thread'[t] = r /\ \A u \in Users \ {t} : thread'[u] = thread[u]
  BY <1>t, <1>2 DEF CredentialType, Goes
<1>5. \A u \in Users : thread[u].at = "fetch" => u = t
  BY <1>t, <1>1 DEF FlightInv
<1>6. ~ Fetching'
  BY <1>3, <1>4, <1>5 DEF Fetching
<1>7. Settled'
  <2>1. failure' = mono /\ mono # Absent
    BY <1>t, <1>1, TokenConstants DEF wall
  <2> QED
    BY <1>t, <1>1, <2>1, TokenConstants DEF Settled, recent_failure
<1>8. ASSUME NEW u \in Users, thread'[u].at = "queue" PROVE mono - thread[u].since <= Timeout
  <2>1. thread'[u] = thread[u] /\ thread[u].at = "queue" /\ thread[u].since \in Nat
    BY <1>t, <1>3, <1>4, <1>8 DEF CredentialType, Operation
  <2>2. mono - thread[t].since <= Timeout /\ thread[t].since \in Nat
    BY <1>t, <1>1 DEF FlightInv, Operation
  <2> QED
    BY <1>t, <1>1, <1>5, <2>1, <2>2, TokenConstants DEF WaitInv
<1> QED
  BY <1>1, <1>3, <1>4, <1>6, <1>7, <1>8 DEF WaitInv

\* The flight is given up with the answer in the cache.
LEMMA WaitAgainStep == ASSUME TokenInv, WaitInv, NEW t \in Users, LookAgain(t) PROVE WaitInv'
<1>t. /\ CredentialType /\ FlightInv /\ thread[t] \in Operation /\ mono \in Nat
  BY DEF TokenInv, CredentialType
<1> SUFFICES ASSUME back = 0 PROVE WaitInv'
  BY DEF WaitInv, LookAgain, clocks
<1>1. thread[t].at = "again" /\ UNCHANGED <<mono, back, token, failure>> /\ wall = mono
  BY <1>t DEF LookAgain, clocks, wall
<1>2. CASE Settled
  <2>1. PICK r : /\ Goes(t, r)
                 /\ \/ r = [thread[t] EXCEPT !.at = "call", !.tok = token.id, !.since = mono]
                    \/ r = [thread[t] EXCEPT !.at = "error"]
    BY <1>1, <1>2 DEF LookAgain, Settled
  <2>2. r.at \in {"call", "error"}
    BY <1>t, <2>1 DEF Operation
  <2> QED
    BY <1>1, <2>1, <2>2, WaitKept
<1>3. CASE ~ Settled
  <2>1. PICK r : Goes(t, r) /\ r = [thread[t] EXCEPT !.at = "fetch", !.now = wall, !.since = mono]
    BY <1>1, <1>3 DEF LookAgain, Settled
  <2>2. r.at = "fetch"
    BY <1>t, <2>1 DEF Operation
  <2>3. thread'[t] = r /\ \A u \in Users \ {t} : thread'[u] = thread[u]
    BY <1>t, <2>1 DEF CredentialType, Goes
  <2>4. \A u \in Users : thread[u].at # "fetch"
    BY <1>t, <1>1 DEF FlightInv
  <2> QED
    BY <1>1, <1>3, <2>2, <2>3, <2>4 DEF WaitInv
<1> QED
  BY <1>2, <1>3

\* Time passes.
LEMMA WaitTick == ASSUME TokenInv, WaitInv, TokenTick PROVE WaitInv'
<1>t. CredentialType /\ FlightInv /\ mono \in Nat
  BY DEF TokenInv, CredentialType
<1>1. /\ mono' = mono + 1 /\ UNCHANGED <<back, flight, thread>>
      /\ \A t \in Users : thread[t].at \in {"idle", "queue", "fetch", "call"}
                           /\ (thread[t].at = "queue" => flight # Absent)
  BY DEF TokenTick
<1> SUFFICES ASSUME back = 0, NEW t \in Users, thread[t].at = "queue"
             PROVE  \E h \in Users : thread[h].at = "fetch" /\ thread[h].since <= thread[t].since
  BY <1>1 DEF WaitInv
<1>2. flight \in Users /\ thread[flight].at = "fetch" /\ thread[flight].since <= mono
  BY <1>t, <1>1 DEF CredentialType, FlightInv
<1>3. Fetching
  BY <1>2 DEF Fetching
<1> QED
  BY <1>2, <1>3 DEF WaitInv

\* Every step keeps the bound on the wait.
LEMMA StepWaitInv ==
  ASSUME TokensLast, TokenInv, WaitInv, NoEviction, [TokenNext]_tokenVars
  PROVE  WaitInv' /\ NoEviction'
<1>t. CredentialType /\ \A t \in Users : thread[t] \in Operation /\ mono \in Nat /\ back \in Nat
  BY DEF TokenInv, CredentialType
<1>e. Evicts = FALSE
  BY TokenAssumption DEF TokensLast
<1>1. CASE UNCHANGED tokenVars
  BY <1>1 DEF tokenVars, WaitInv, NoEviction, Settled, fresh, recent_failure, Fetching
<1>2. CASE TokenTick
  BY <1>2, WaitTick DEF NoEviction, TokenTick
<1>3. CASE StepBack
  <2>1. back' # 0 /\ UNCHANGED thread
    BY <1>3, <1>t DEF StepBack, CredentialType
  <2> QED
    BY <2>1 DEF WaitInv, NoEviction
<1>4. CASE Revoke \/ Rebind
  BY <1>4 DEF Revoke, Rebind, clocks, WaitInv, NoEviction, Settled, fresh, recent_failure, Fetching
<1>5. ASSUME NEW t \in Users, NEW life \in Lifetimes, Fetched(t, life) PROVE WaitInv' /\ NoEviction'
  <2>1. PICK r : r = [thread[t] EXCEPT !.at = "call", !.tok = fetches, !.since = mono] /\ Goes(t, r)
    BY <1>5 DEF Fetched
  <2>2. r.at = "call"
    BY <1>t, <2>1 DEF Operation
  <2> QED
    BY <1>t, <1>5, <2>1, <2>2, WaitFetchedStep DEF NoEviction, Goes, CredentialType
<1>6. ASSUME NEW t \in Users, FetchFails(t) PROVE WaitInv' /\ NoEviction'
  <2>1. PICK r : r = [thread[t] EXCEPT !.at = "error"] /\ Goes(t, r)
    BY <1>6 DEF FetchFails
  <2>2. r.at = "error"
    BY <1>t, <2>1 DEF Operation
  <2> QED
    BY <1>t, <1>6, <2>1, <2>2, WaitFailsStep DEF NoEviction, Goes, CredentialType
<1>7. ASSUME NEW t \in Users, LookAgain(t) PROVE WaitInv' /\ NoEviction'
  <2>1. PICK r : /\ Goes(t, r)
                 /\ \/ r = [thread[t] EXCEPT !.at = "call", !.tok = token.id, !.since = mono]
                    \/ r = [thread[t] EXCEPT !.at = "error"]
                    \/ r = [thread[t] EXCEPT !.at = "fetch", !.now = wall, !.since = mono]
    BY <1>7 DEF LookAgain
  <2>2. r.at # "evict"
    BY <1>t, <2>1 DEF Operation
  <2> QED
    BY <1>t, <1>7, <2>1, <2>2, WaitAgainStep DEF NoEviction, Goes, CredentialType
<1>8. ASSUME NEW t \in Users,
             Begin(t) \/ Look(t) \/ TakeFlight(t) \/ CallSigned(t) \/ CallFails(t) \/ Refused(t)
             \/ invalidate(t) \/ Returns(t)
      PROVE  WaitInv' /\ NoEviction'
  <2>1. thread[t].at # "fetch" /\ UNCHANGED <<mono, back, token, failure>>
    BY <1>8 DEF Begin, Look, TakeFlight, CallSigned, CallFails, Refused, invalidate, Returns, NoEviction,
       clocks
  <2>2. PICK r : /\ Goes(t, r)
                 /\ \/ r = AtRest
                    \/ r = [AtRest EXCEPT !.at = "look", !.round = 1, !.entry = mono]
                    \/ r = [thread[t] EXCEPT !.at = "call", !.tok = token.id, !.since = mono]
                    \/ r = [thread[t] EXCEPT !.at = "error"]
                    \/ r = [thread[t] EXCEPT !.at = "queue", !.since = mono]
                    \/ r = [thread[t] EXCEPT !.at = "again"]
    BY <1>8, <1>e DEF Begin, Look, TakeFlight, CallSigned, CallFails, Refused, invalidate, Returns,
       NoEviction
  <2>3. r.at \in {"idle", "look", "call", "error", "queue", "again"} /\ (r.at = "queue" => r.since = mono)
    <3>1. CASE r = AtRest
      BY <3>1 DEF AtRest
    <3>2. CASE r = [AtRest EXCEPT !.at = "look", !.round = 1, !.entry = mono]
      BY <3>2 DEF AtRest
    <3>3. CASE r = [thread[t] EXCEPT !.at = "call", !.tok = token.id, !.since = mono]
      BY <1>t, <3>3 DEF Operation
    <3>4. CASE r = [thread[t] EXCEPT !.at = "queue", !.since = mono]
      BY <1>t, <3>4 DEF Operation
    <3>5. CASE r = [thread[t] EXCEPT !.at = "error"] \/ r = [thread[t] EXCEPT !.at = "again"]
      BY <1>t, <3>5 DEF Operation
    <3> QED
      BY <2>2, <3>1, <3>2, <3>3, <3>4, <3>5
  <2>4. WaitInv'
    BY <2>1, <2>2, <2>3, WaitKept
  <2> QED
    BY <1>t, <2>2, <2>3, <2>4 DEF NoEviction, Goes, CredentialType
<1> QED
  BY <1>1, <1>2, <1>3, <1>4, <1>5, <1>6, <1>7, <1>8 DEF TokenNext

\* If what is fetched outlasts the margin, no thread waits for longer than the one round
\* trip that is out, however many queue behind it.  (cached_or_exchange)
THEOREM WaitsOneTimeoutHolds == ASSUME TokensLast PROVE TokenSpec => []WaitsOneTimeout
<1>1. TokenInit => WaitInv /\ NoEviction
  BY DEF TokenInit, WaitInv, NoEviction, AtRest
<1>2. TokenInv /\ WaitInv => WaitsOneTimeout
  <2> SUFFICES ASSUME TokenInv, WaitInv, back = 0, NEW t \in Users, thread[t].at = "queue"
               PROVE  mono - thread[t].since <= Timeout
    BY DEF WaitsOneTimeout, TokenInv, CredentialType
  <2>1. \A u \in Users : thread[u].since \in Nat
    BY DEF TokenInv, CredentialType, Operation
  <2> QED
    BY <2>1, TokenConstants DEF TokenInv, CredentialType, FlightInv, WaitInv
<1> QED
  BY <1>1, <1>2, InitTokenInv, StepTokenInv, StepWaitInv, PTL DEF TokenSpec

-----------------------------------------------------------------------------
(* DelegatedSigning.                                                       *)

(* Of two numbers. *)
LEMMA MaxOfTwo == \A a, b \in Int : Max({a, b}) \in {a, b} /\ Max({a, b}) >= a /\ Max({a, b}) >= b
<1> SUFFICES ASSUME NEW a \in Int, NEW b \in Int
             PROVE  Max({a, b}) \in {a, b} /\ Max({a, b}) >= a /\ Max({a, b}) >= b
  OBVIOUS
<1>1. \E x \in {a, b} : \A y \in {a, b} : x >= y
  OBVIOUS
<1>2. Max({a, b}) \in {a, b} /\ \A y \in {a, b} : Max({a, b}) >= y
  BY <1>1 DEF Max
<1> QED
  BY <1>2

LEMMA MinOfTwo == \A a, b \in Int : Min({a, b}) \in {a, b} /\ Min({a, b}) <= a /\ Min({a, b}) <= b
<1> SUFFICES ASSUME NEW a \in Int, NEW b \in Int
             PROVE  Min({a, b}) \in {a, b} /\ Min({a, b}) <= a /\ Min({a, b}) <= b
  OBVIOUS
<1>1. \E x \in {a, b} : \A y \in {a, b} : x <= y
  OBVIOUS
<1>2. Min({a, b}) \in {a, b} /\ \A y \in {a, b} : Min({a, b}) <= y
  BY <1>1 DEF Min
<1> QED
  BY <1>2

\* What is assumed of the constants, and what follows for the intervals.
LEMMA SigningConstants ==
  /\ ttl \in Nat /\ overlap \in Nat /\ 0 < overlap /\ overlap < ttl
  /\ retry_interval \in Nat /\ retry_interval >= 1
  /\ ROTATION_BACKOFF_BASE_MS \in Nat /\ ROTATION_BACKOFF_MAX_MS \in Nat
  /\ ROTATION_BACKOFF_MIN_MS \in Nat /\ 1 <= ROTATION_BACKOFF_MIN_MS
  /\ ROTATION_BACKOFF_MIN_MS <= ROTATION_BACKOFF_MAX_MS
  /\ MaxEpoch \in Nat /\ MaxOutages \in Nat /\ MaxCall \in Nat /\ MaxPre \in Nat /\ MaxAge \in Nat
  /\ sig_ttl_secs \in Nat /\ completion_bound \in Nat
  /\ FailureCap \in Nat /\ FailureCap >= 1
  /\ Max({ttl, ROTATION_BACKOFF_MAX_MS}) \in Nat /\ Max({ttl, ROTATION_BACKOFF_MAX_MS}) >= ttl
  /\ Max({ttl, ROTATION_BACKOFF_MAX_MS}) >= ROTATION_BACKOFF_MAX_MS
<1>1. overlap \div ISSUANCE_ATTEMPTS_PER_OVERLAP \in Nat
  <2>1. ISSUANCE_ATTEMPTS_PER_OVERLAP \in Nat /\ ISSUANCE_ATTEMPTS_PER_OVERLAP >= 1 /\ overlap \in Nat
    BY SigningAssumption
  <2> QED
    BY <2>1
<1>2. retry_interval \in Nat /\ retry_interval >= 1
  <2>1. PICK share \in Int : share = overlap \div ISSUANCE_ATTEMPTS_PER_OVERLAP /\ share >= 0
    BY <1>1
  <2>2. MIN_ISSUANCE_RETRY_SECS \in Int /\ MIN_ISSUANCE_RETRY_SECS >= 1
    BY SigningAssumption
  <2>3. retry_interval = Max({share, MIN_ISSUANCE_RETRY_SECS})
    BY <2>1 DEF retry_interval
  <2>4. retry_interval \in {share, MIN_ISSUANCE_RETRY_SECS} /\ retry_interval >= MIN_ISSUANCE_RETRY_SECS
    BY <2>2, <2>3, MaxOfTwo
  <2> QED
    BY <2>1, <2>2, <2>4
<1>3. /\ Max({ttl, ROTATION_BACKOFF_MAX_MS}) \in Nat /\ Max({ttl, ROTATION_BACKOFF_MAX_MS}) >= ttl
      /\ Max({ttl, ROTATION_BACKOFF_MAX_MS}) >= ROTATION_BACKOFF_MAX_MS
  BY MaxOfTwo, SigningAssumption
<1> QED
  BY <1>2, <1>3, SigningAssumption DEF FailureCap

(* A back-off is within its ceiling, whatever the failures and the key.    *)
LEMMA BackOffBounded ==
  ASSUME NEW f \in Nat, f >= 1, NEW left \in Nat, NEW b \in rotation_backoff(f, left)
  PROVE  b \in 0..ROTATION_BACKOFF_MAX_MS
<1>1. f - 1 \in Nat
  OBVIOUS
<1>2. 2^(f - 1) \in Int
  BY <1>1
<1>3. PICK step \in Int : step = ROTATION_BACKOFF_BASE_MS * 2^(f - 1)
  BY <1>2, SigningConstants
<1>4. PICK capped \in Int : capped = Min({step, ROTATION_BACKOFF_MAX_MS}) /\ capped <= ROTATION_BACKOFF_MAX_MS
  <2>1. ROTATION_BACKOFF_MAX_MS \in Int
    BY SigningConstants
  <2>2. Min({step, ROTATION_BACKOFF_MAX_MS}) \in {step, ROTATION_BACKOFF_MAX_MS} /\ Min({step, ROTATION_BACKOFF_MAX_MS}) <= ROTATION_BACKOFF_MAX_MS
    BY <2>1, MinOfTwo
  <2> QED
    BY <2>1, <2>2
<1>5. PICK inside \in Int : inside = (IF left > 0 THEN Min({capped, left}) ELSE capped) /\ inside <= ROTATION_BACKOFF_MAX_MS
  <2>1. Min({capped, left}) \in {capped, left} /\ Min({capped, left}) <= capped
    BY MinOfTwo
  <2> QED
    BY <1>4, <2>1, SigningConstants
<1>6. PICK m \in Nat : m = Max({inside, ROTATION_BACKOFF_MIN_MS}) /\ m <= ROTATION_BACKOFF_MAX_MS
  <2>1. ROTATION_BACKOFF_MIN_MS \in Int
    BY SigningConstants
  <2>2. /\ Max({inside, ROTATION_BACKOFF_MIN_MS}) \in {inside, ROTATION_BACKOFF_MIN_MS}
        /\ Max({inside, ROTATION_BACKOFF_MIN_MS}) >= ROTATION_BACKOFF_MIN_MS
    BY <2>1, MaxOfTwo
  <2> QED
    BY <1>5, <2>2, SigningConstants
<1>7. PICK half \in Nat : half = m \div 2 /\ half + half <= m
  OBVIOUS
<1>8. PICK j \in 0..half : b = half + j
  BY <1>3, <1>4, <1>5, <1>6, <1>7 DEF rotation_backoff
<1> QED
  BY <1>6, <1>7, <1>8, SigningConstants

(* The parts of the state that steps put together. *)
LEMMA KeyFacts ==
  /\ NoKey \in Key /\ NoKey.left = 0 /\ NoKey.epoch = 0
  /\ \A k \in Key : /\ k.kid \in 0..1 /\ k.left \in 0..ttl /\ k.epoch \in Epoch
                    /\ Aged(k) \in Key /\ Aged(k).epoch = k.epoch /\ Aged(k).kid = k.kid
                    /\ Aged(k).left = Less(k.left) /\ Less(k.left) >= k.left - 1 /\ Less(k.left) <= k.left
                    /\ Less(k.left) \in Nat
<1>1. NoKey \in Key /\ NoKey.left = 0 /\ NoKey.epoch = 0
  BY SigningConstants DEF NoKey, Key, Epoch
<1>2. ASSUME NEW k \in Key
      PROVE  /\ k.kid \in 0..1 /\ k.left \in 0..ttl /\ k.epoch \in Epoch
             /\ Aged(k) \in Key /\ Aged(k).epoch = k.epoch /\ Aged(k).kid = k.kid
             /\ Aged(k).left = Less(k.left) /\ Less(k.left) >= k.left - 1 /\ Less(k.left) <= k.left
             /\ Less(k.left) \in Nat
  <2>1. k.kid \in 0..1 /\ k.left \in 0..ttl /\ k.epoch \in Epoch
    BY DEF Key
  <2>2. Less(k.left) \in 0..ttl /\ Less(k.left) >= k.left - 1 /\ Less(k.left) <= k.left
    BY <2>1, SigningConstants DEF Less
  <2>3. Aged(k) = [kid |-> k.kid, left |-> Less(k.left), epoch |-> k.epoch]
    BY DEF Aged, Key
  <2> QED
    BY <2>1, <2>2, <2>3 DEF Key
<1> QED
  BY <1>1, <1>2

Snapshots == [state : {"Empty", "Active", "Terminal"}, key : Key]

\* What publishing and retiring leave in the snapshot.
LEMMA SnapshotFacts ==
  ASSUME snapshot \in Snapshots
  PROVE  /\ Retire \in Snapshots /\ RetirePermanently \in Snapshots
         /\ Retire.state # "Active" /\ RetirePermanently.state = "Terminal"
         /\ snapshot.state = "Terminal" => Retire = snapshot
         /\ \A k \in Key : /\ Publish(k) \in Snapshots
                           /\ Publish(k).state = "Active" => Publish(k).key = k
                           /\ snapshot.state = "Terminal" => Publish(k) = snapshot
<1>1. [state |-> "Empty", key |-> NoKey] \in Snapshots /\ [state |-> "Terminal", key |-> NoKey] \in Snapshots
  BY KeyFacts DEF Snapshots
<1>2. \A k \in Key : [state |-> "Active", key |-> k] \in Snapshots
  BY DEF Snapshots
<1> QED
  BY <1>1, <1>2 DEF Retire, RetirePermanently, Publish

(* Back at the top, asleep or stopped: the worker's own variables.         *)
Positions == {"wait", "observe", "due", "root", "sleep", "stopped"}

RotorTyped ==
  /\ pc \in Positions /\ timer \in 0..Max({ttl, ROTATION_BACKOFF_MAX_MS}) /\ failures \in 0..FailureCap

\* The top of the loop.
LEMMA TopTyped ==
  ASSUME snapshot' \in Snapshots, Top
  PROVE  RotorTyped' /\ pc' = "wait"
<1>1. snapshot'.key.left \in 0..ttl
  BY KeyFacts DEF Snapshots
<1>2. wait_for_window \in 0..ttl
  BY <1>1, SigningConstants DEF wait_for_window
<1> QED
  BY <1>2, SigningConstants DEF Top, RotorTyped, Positions

(* A failure is counted and the sleep after it is within its ceiling.      *)
LEMMA BackOffSleeps ==
  ASSUME snapshot' \in Snapshots, failures \in 0..FailureCap, BackOff
  PROVE  failures' \in 0..FailureCap /\ pc' = "sleep" /\ timer' \in 0..ROTATION_BACKOFF_MAX_MS
<1>1. SecondsToExpiry \in Nat
  BY KeyFacts DEF Snapshots, SecondsToExpiry
<1>2. failures' \in 0..FailureCap /\ failures' >= 1
  <2>1. PICK more \in Int : more = failures + 1 /\ more >= 1
    OBVIOUS
  <2>2. failures' = Min({more, FailureCap}) /\ FailureCap \in Int
    BY <2>1, SigningConstants DEF BackOff
  <2>3. failures' \in {more, FailureCap} /\ failures' <= FailureCap
    BY <2>2, MinOfTwo
  <2> QED
    BY <2>1, <2>3, SigningConstants
<1>3. timer' \in rotation_backoff(failures', SecondsToExpiry) /\ pc' = "sleep"
  BY DEF BackOff
<1> QED
  BY <1>1, <1>2, <1>3, BackOffBounded, SigningConstants

\* Asleep after a failure.
LEMMA BackOffTyped ==
  ASSUME snapshot' \in Snapshots, failures \in 0..FailureCap, BackOff
  PROVE  RotorTyped' /\ pc' = "sleep"
BY BackOffSleeps, SigningConstants DEF RotorTyped, Positions

\* Stopped.
LEMMA StopTyped ==
  ASSUME failures' \in 0..FailureCap, Stop
  PROVE  RotorTyped' /\ pc' = "stopped"
BY SigningConstants DEF Stop, RotorTyped, Positions

Exchanges ==
  [Exchange -> [phase : {"idle", "open", "dispatched", "replied"},
                len : 0..sig_ttl_secs, since : Nat, pre : 0..MaxPre, key : Key]]

\* The type invariant, by parts.
LEMMA TypeParts ==
  SigningTypeOK <=>
    /\ counter \in Epoch /\ seen_max \in Epoch
    /\ rootUp \in BOOLEAN /\ outages \in 0..MaxOutages /\ upFor \in Ages /\ downFor \in Ages
    /\ active \in Key /\ cfg_epoch \in Epoch /\ hold \in 0..retry_interval
    /\ snapshot \in Snapshots
    /\ RotorTyped
    /\ root_call \in Call
    /\ high_water \in Epoch /\ last_label \in Epoch
    /\ halted \in BOOLEAN
    /\ ex \in Exchanges
BY DEF SigningTypeOK, Snapshots, RotorTyped, Positions, Exchanges

-----------------------------------------------------------------------------
(* The epoch: what was minted, what is minted under and what has been read *)
(* follow one another; the key held is the announced one, and so is the    *)
(* label a rotation mints under.                                           *)
EpochInv ==
  /\ active.epoch <= cfg_epoch /\ last_label <= cfg_epoch /\ cfg_epoch <= high_water
  /\ ~ Watch => high_water = last_label
  /\ pc = "due" => high_water = last_label
  /\ pc = "root" => /\ root_call.kind = "advance" => root_call.label = cfg_epoch
                    /\ root_call.kind = "rotate" => cfg_epoch = last_label
                    /\ root_call.was => active.epoch = last_label
  /\ active.left > 0 => active.epoch = last_label
  /\ snapshot.state = "Active" => snapshot.key.epoch = last_label

(* A dropped plane has no key to open a window with. *)
DroppedInv == halted => snapshot.state = "Terminal"

(* The credential outlasts the window opened with it; a dispatch is        *)
(* covered by its window and keeps its bound.                              *)
WindowOf(e) ==
  /\ e.phase # "idle" => e.len <= e.key.left + e.since
  /\ e.phase = "open" => e.since <= MaxPre
  /\ e.phase \in {"dispatched", "replied"} =>
       e.pre <= e.since /\ e.since - e.pre <= completion_bound /\ completion_bound < e.len

WindowInv == \A x \in Exchange : WindowOf(ex[x])

SigningInv == SigningTypeOK /\ EpochInv /\ DroppedInv /\ WindowInv

\* An exchange without a window.
LEMMA NoWindowFacts == NoWindow.phase = "idle" /\ WindowOf(NoWindow)
                       /\ NoWindow \in [phase : {"idle", "open", "dispatched", "replied"},
                            len : 0..sig_ttl_secs, since : Nat, pre : 0..MaxPre, key : Key]
BY KeyFacts, SigningConstants DEF NoWindow, WindowOf

\* A call as it is asked.
LEMMA CallFacts ==
  /\ NoCall \in Call
  /\ \A k \in {"rotate", "advance"}, w \in BOOLEAN, b \in 0..2, l \in Epoch :
       [kind |-> k, left |-> ttl, hold |-> retry_interval, was |-> w, before |-> b, label |-> l,
        age |-> 0] \in Call
BY SigningConstants DEF NoCall, Call, Epoch

\* The plane as it is materialized.
LEMMA InitSigningInv == SigningInit => SigningInv
<1> SUFFICES ASSUME SigningInit PROVE SigningInv
  OBVIOUS
<1>1. [kid |-> 0, left |-> ttl, epoch |-> 0] \in Key /\ 0 \in Epoch
  BY SigningConstants DEF Key, Epoch
<1>2. active \in Key /\ active.epoch = 0 /\ active = [kid |-> 0, left |-> ttl, epoch |-> 0]
  BY <1>1 DEF SigningInit
<1>3. snapshot \in Snapshots /\ snapshot.state = "Active" /\ snapshot.key = active
  BY <1>2 DEF SigningInit, Snapshots
<1>4. RotorTyped /\ pc = "wait"
  BY SigningConstants DEF SigningInit, RotorTyped, Positions
<1>5. ex \in Exchanges /\ WindowInv
  BY NoWindowFacts DEF SigningInit, Exchanges, WindowInv
<1>6. SigningTypeOK
  <2>1. 0 \in 0..MaxOutages /\ 0 \in Ages /\ 0 \in 0..retry_interval
    BY SigningConstants DEF Ages
  <2> QED
    BY <1>1, <1>2, <1>3, <1>4, <1>5, <2>1, CallFacts, TypeParts DEF SigningInit
<1>7. EpochInv
  BY <1>2, <1>3, <1>4 DEF SigningInit, EpochInv
<1> QED
  BY <1>5, <1>6, <1>7 DEF SigningInv, DroppedInv, SigningInit

-----------------------------------------------------------------------------
(* What the invariant says of the numbers. *)
LEMMA Numbers ==
  ASSUME SigningInv
  PROVE  /\ counter \in Nat /\ active.epoch \in Nat /\ cfg_epoch \in Nat /\ last_label \in Nat
         /\ high_water \in Nat /\ snapshot.key.epoch \in Nat /\ active.left \in Nat
         /\ snapshot.key.left \in Nat /\ snapshot.key \in Key
BY KeyFacts, TypeParts, SigningConstants DEF SigningInv, Snapshots, Epoch

(* Steps that leave the exchanges, the counter and the root alone. *)
Surroundings == <<epochVars, rootVars, ex>>

LEMMA SurroundingsKept ==
  ASSUME SigningInv, UNCHANGED Surroundings,
         active' \in Key, cfg_epoch' \in Epoch, hold' \in 0..retry_interval, snapshot' \in Snapshots,
         RotorTyped', root_call' \in Call, high_water' \in Epoch, last_label' \in Epoch,
         halted' \in BOOLEAN
  PROVE  SigningTypeOK' /\ WindowInv'
<1>1. /\ counter' \in Epoch /\ seen_max' \in Epoch
      /\ rootUp' \in BOOLEAN /\ outages' \in 0..MaxOutages /\ upFor' \in Ages /\ downFor' \in Ages
      /\ ex' \in Exchanges
  BY TypeParts DEF SigningInv, Surroundings, epochVars, rootVars
<1>2. SigningTypeOK'
  BY <1>1 DEF SigningTypeOK, Snapshots, RotorTyped, Positions, Exchanges
<1>3. WindowInv'
  BY DEF SigningInv, WindowInv, Surroundings
<1> QED
  BY <1>2, <1>3

(* The worker's own steps that touch no key. *)
LEMMA StepWorker ==
  ASSUME SigningInv, HaltSeen \/ WaitEnds \/ WaitPolls \/ Wakes \/ ObserveSame \/ ObserveNothing
  PROVE  SigningInv'
<1> USE DEF SigningInv
<1>1. /\ UNCHANGED Surroundings /\ UNCHANGED <<custody, snapshot, root_call, last_label, halted>>
  BY DEF HaltSeen, WaitEnds, WaitPolls, Wakes, ObserveSame, ObserveNothing, Surroundings
<1>2. RotorTyped' /\ pc' \in {"stopped", "observe", "due", "sleep"}
  <2>1. failures \in 0..FailureCap /\ timer \in 0..Max({ttl, ROTATION_BACKOFF_MAX_MS})
    BY TypeParts DEF RotorTyped
  <2>2. CASE HaltSeen
    BY <2>1, <2>2, StopTyped DEF HaltSeen
  <2>3. CASE WaitEnds \/ WaitPolls \/ Wakes \/ ObserveSame
    BY <2>1, <2>3, SigningConstants
       DEF WaitEnds, WaitPolls, Wakes, ObserveSame, RotorTyped, Positions
  <2>4. CASE ObserveNothing
    <3>1. snapshot' \in Snapshots
      BY <1>1, TypeParts
    <3>2. BackOff
      BY <2>4 DEF ObserveNothing
    <3> QED
      BY <2>1, <3>1, <3>2, BackOffTyped
  <2> QED
    BY <2>2, <2>3, <2>4
<1>3. high_water' \in Epoch /\ high_water' >= high_water
  BY TypeParts, Numbers
     DEF HaltSeen, WaitEnds, WaitPolls, Wakes, ObserveSame, ObserveNothing, LabelRead, Readable
<1>4. /\ ~ Watch => high_water' = high_water
      /\ pc' = "due" => high_water' = last_label
  BY Numbers DEF HaltSeen, WaitEnds, WaitPolls, Wakes, ObserveSame, ObserveNothing, LabelRead, Stop,
     BackOff, EpochInv
<1>5. SigningTypeOK' /\ WindowInv'
  BY <1>1, <1>2, <1>3, SurroundingsKept, TypeParts DEF custody
<1>6. EpochInv'
  <2>1. cfg_epoch <= high_water'
    BY <1>3, Numbers, SigningConstants DEF EpochInv, Epoch
  <2> QED
    BY <1>1, <1>2, <1>4, <2>1 DEF EpochInv, custody
<1> QED
  BY <1>1, <1>5, <1>6 DEF DroppedInv

(* The root is asked. *)
LEMMA AsksTyped ==
  ASSUME SigningInv, NEW k \in {"rotate", "advance"}, NEW l \in Epoch, Asks(k, l), UNCHANGED <<timer, failures>>
  PROVE  /\ RotorTyped' /\ pc' = "root" /\ root_call' \in Call
         /\ root_call'.kind = k /\ root_call'.label = l /\ (root_call'.was => active.left > 0)
<1>1. snapshot.key.kid \in 0..1 /\ (active.left > 0) \in BOOLEAN
  BY KeyFacts, Numbers
<1>2. (IF Valid THEN snapshot.key.kid ELSE 2) \in 0..2
  BY <1>1
<1>3. root_call' \in Call
  BY <1>1, <1>2, CallFacts DEF Asks
<1>4. root_call'.kind = k /\ root_call'.label = l /\ (root_call'.was => active.left > 0)
  BY DEF Asks
<1>5. RotorTyped' /\ pc' = "root"
  BY TypeParts DEF SigningInv, Asks, RotorTyped, Positions
<1> QED
  BY <1>3, <1>4, <1>5

\* The counter has moved: the label is set and a key asked for under it.
LEMMA StepObserveAdvance ==
  ASSUME SigningInv, ObserveAdvance
  PROVE  SigningInv'
<1> USE DEF SigningInv
<1>1. /\ UNCHANGED Surroundings /\ UNCHANGED <<active, snapshot, last_label, halted>>
      /\ Watch /\ counter \in Epoch /\ counter >= high_water /\ high_water' = counter
      /\ cfg_epoch' = counter /\ hold' = 0
  BY TypeParts DEF ObserveAdvance, LabelRead, Readable, Surroundings
<1>2. /\ RotorTyped' /\ pc' = "root" /\ root_call' \in Call
      /\ root_call'.kind = "advance" /\ root_call'.label = counter
      /\ (root_call'.was => active.left > 0)
  BY <1>1, AsksTyped DEF ObserveAdvance
<1>3. SigningTypeOK' /\ WindowInv'
  <2>1. hold' \in 0..retry_interval
    BY <1>1, SigningConstants
  <2> QED
    BY <1>1, <1>2, <2>1, SurroundingsKept, TypeParts
<1>4. EpochInv'
  <2>1. active.epoch <= counter /\ last_label <= counter
    BY <1>1, Numbers DEF EpochInv
  <2> QED
    BY <1>1, <1>2, <2>1, Numbers DEF EpochInv
<1> QED
  BY <1>1, <1>3, <1>4 DEF DroppedInv

\* A rotation asks under the label announced.
LEMMA StepStartRotation ==
  ASSUME SigningInv, StartRotation
  PROVE  SigningInv'
<1> USE DEF SigningInv
<1>1. /\ UNCHANGED Surroundings /\ UNCHANGED <<custody, snapshot, high_water, last_label, halted>>
      /\ last_label \in Epoch /\ pc = "due"
  BY TypeParts DEF StartRotation, Surroundings
<1>2. /\ RotorTyped' /\ pc' = "root" /\ root_call' \in Call
      /\ root_call'.kind = "rotate" /\ (root_call'.was => active.left > 0)
  BY <1>1, AsksTyped DEF StartRotation
<1>3. SigningTypeOK' /\ WindowInv'
  BY <1>1, <1>2, SurroundingsKept, TypeParts DEF custody
<1>4. EpochInv'
  <2>1. cfg_epoch = last_label
    BY <1>1, Numbers DEF EpochInv
  <2> QED
    BY <1>1, <1>2, <2>1, Numbers DEF EpochInv, custody
<1> QED
  BY <1>1, <1>3, <1>4 DEF DroppedInv

(* Where a rotation leaves the worker. *)
LEMMA RotatedTyped ==
  ASSUME NEW b, snapshot' \in Snapshots, failures \in 0..FailureCap, Rotated(b) \/ Top \/ BackOff
  PROVE  RotorTyped' /\ pc' \in {"wait", "sleep"}
BY TopTyped, BackOffTyped DEF Rotated

\* Without an issuance the key held is published or retired.
LEMMA StepKeepKey ==
  ASSUME SigningInv, KeepKey
  PROVE  SigningInv'
<1> USE DEF SigningInv
<1>1. /\ UNCHANGED Surroundings /\ UNCHANGED <<custody, root_call, high_water, last_label, halted>>
      /\ active \in Key /\ snapshot \in Snapshots
      /\ snapshot' = IF active.left > 0 THEN Publish(active) ELSE Retire
  BY TypeParts DEF KeepKey, Surroundings
<1>2. /\ snapshot' \in Snapshots
      /\ snapshot'.state = "Active" => active.left > 0 /\ snapshot'.key = active
      /\ snapshot.state = "Terminal" => snapshot' = snapshot
  BY <1>1, SnapshotFacts
<1>3. RotorTyped' /\ pc' \in {"wait", "sleep"}
  <2>1. failures \in 0..FailureCap
    BY TypeParts DEF RotorTyped
  <2> QED
    BY <1>2, <2>1, RotatedTyped DEF KeepKey
<1>4. SigningTypeOK' /\ WindowInv'
  BY <1>1, <1>2, <1>3, SurroundingsKept, TypeParts DEF custody
<1>5. EpochInv'
  BY <1>1, <1>2, <1>3 DEF EpochInv, custody
<1> QED
  BY <1>1, <1>2, <1>4, <1>5 DEF DroppedInv

\* What the root signs is under the custody's epoch.
LEMMA MintedFacts ==
  ASSUME SigningInv
  PROVE  Minted \in Key /\ Minted.epoch = cfg_epoch
<1>1. root_call \in Call /\ active \in Key /\ cfg_epoch \in Epoch
  BY TypeParts DEF SigningInv
<1>2. root_call.left \in 0..ttl /\ active.kid \in 0..1
  BY <1>1, KeyFacts DEF Call
<1>3. 1 - active.kid \in 0..1
  BY <1>2
<1> QED
  BY <1>1, <1>2, <1>3 DEF Minted, Key

\* The root signs: the key and its label take effect together.
LEMMA StepRootIssues ==
  ASSUME SigningInv, RootIssues
  PROVE  SigningInv'
<1> USE DEF SigningInv
<1>1. /\ UNCHANGED Surroundings /\ UNCHANGED <<cfg_epoch, high_water, halted>> /\ pc = "root"
      /\ active' = Minted /\ hold' = 0 /\ snapshot' = Publish(Minted) /\ root_call' = NoCall
      /\ Minted \in Key /\ Minted.epoch = cfg_epoch /\ snapshot \in Snapshots
  BY TypeParts, MintedFacts DEF RootIssues, Surroundings
<1>2. /\ snapshot' \in Snapshots
      /\ snapshot'.state = "Active" => snapshot'.key = Minted
      /\ snapshot.state = "Terminal" => snapshot' = snapshot
  BY <1>1, SnapshotFacts
<1>3. RotorTyped' /\ pc' \in {"wait", "sleep"}
  <2>1. failures \in 0..FailureCap
    BY TypeParts DEF RotorTyped
  <2> QED
    BY <1>2, <2>1, RotatedTyped DEF RootIssues
<1>4. last_label' = cfg_epoch
  BY <1>1 DEF RootIssues, EpochInv
<1>5. SigningTypeOK' /\ WindowInv'
  <2>1. hold' \in 0..retry_interval
    BY <1>1, SigningConstants
  <2> QED
    BY <1>1, <1>2, <1>3, <1>4, <2>1, CallFacts, SurroundingsKept, TypeParts
<1>6. EpochInv'
  <2>1. ~ Watch => high_water = cfg_epoch
    BY Numbers DEF EpochInv
  <2> QED
    BY <1>1, <1>2, <1>3, <1>4, <2>1, Numbers DEF EpochInv
<1> QED
  BY <1>1, <1>2, <1>5, <1>6 DEF DroppedInv

\* The root declines: the label stays with the key it announced.
LEMMA StepRootDeclines ==
  ASSUME SigningInv, RootDeclines
  PROVE  SigningInv'
<1> USE DEF SigningInv
<1>1. /\ UNCHANGED Surroundings /\ UNCHANGED <<cfg_epoch, high_water, halted>> /\ pc = "root"
      /\ active' = (IF root_call.was THEN active ELSE NoKey) /\ hold' = root_call.hold
      /\ root_call' = NoCall /\ last_label' = last_label
      /\ active \in Key /\ snapshot \in Snapshots /\ root_call \in Call
  BY TypeParts DEF RootDeclines, Surroundings, Declined, IssuanceFails
<1>2. /\ snapshot' \in Snapshots
      /\ snapshot'.state = "Active" => snapshot' = snapshot \/ (root_call.was /\ snapshot'.key = active)
      /\ snapshot.state = "Terminal" => snapshot' = snapshot
  <2>1. snapshot' = snapshot \/ snapshot' = Retire \/ (root_call.was /\ snapshot' = Publish(active))
    BY DEF RootDeclines, Declined, IssuanceFails
  <2> QED
    BY <1>1, <2>1, SnapshotFacts
<1>3. RotorTyped' /\ pc' \in {"wait", "sleep"}
  <2>1. failures \in 0..FailureCap
    BY TypeParts DEF RotorTyped
  <2>2. Rotated(root_call.before) \/ BackOff
    BY DEF RootDeclines, Declined, IssuanceFails
  <2> QED
    BY <1>2, <2>1, <2>2, RotatedTyped
<1>4. active' \in Key /\ hold' \in 0..retry_interval
  BY <1>1, KeyFacts DEF Call
<1>5. SigningTypeOK' /\ WindowInv'
  BY <1>1, <1>2, <1>3, <1>4, CallFacts, SurroundingsKept, TypeParts
<1>6. active'.epoch <= cfg_epoch /\ (active'.left > 0 => active'.epoch = last_label)
  BY <1>1, KeyFacts, Numbers DEF EpochInv
<1>7. EpochInv'
  BY <1>1, <1>2, <1>3, <1>6 DEF EpochInv
<1> QED
  BY <1>1, <1>2, <1>5, <1>7 DEF DroppedInv

(* The owner's steps. *)
LEMMA StepOwner ==
  ASSUME SigningInv, DropPlane \/ Panic
  PROVE  SigningInv'
<1> USE DEF SigningInv
<1>1. /\ UNCHANGED Surroundings /\ UNCHANGED <<custody, root_call, high_water, last_label>>
      /\ snapshot' = RetirePermanently /\ snapshot \in Snapshots
  BY TypeParts DEF DropPlane, Panic, Surroundings, rotor
<1>2. snapshot' \in Snapshots /\ snapshot'.state = "Terminal"
  BY <1>1, SnapshotFacts
<1>3. RotorTyped' /\ halted' \in BOOLEAN /\ (pc' = pc \/ pc' = "stopped")
  <2>1. failures \in 0..FailureCap /\ RotorTyped /\ halted \in BOOLEAN
    BY TypeParts DEF RotorTyped
  <2>2. CASE DropPlane
    BY <2>1, <2>2 DEF DropPlane, rotor, RotorTyped
  <2>3. CASE Panic
    <3>1. PICK more \in Int : more = failures + 1 /\ more >= 1
      BY <2>1, SigningConstants
    <3>2. failures' = Min({more, FailureCap}) /\ FailureCap \in Int
      BY <2>3, <3>1, SigningConstants DEF Panic
    <3>3. failures' \in {more, FailureCap} /\ failures' <= FailureCap
      BY <3>2, MinOfTwo
    <3>4. failures' \in 0..FailureCap
      BY <3>1, <3>3, SigningConstants
    <3> QED
      BY <2>1, <2>3, <3>4, StopTyped DEF Panic
  <2> QED
    BY <2>2, <2>3
<1>4. SigningTypeOK' /\ WindowInv'
  BY <1>1, <1>2, <1>3, SurroundingsKept, TypeParts DEF custody
<1>5. EpochInv'
  BY <1>1, <1>2, <1>3 DEF EpochInv, custody
<1> QED
  BY <1>2, <1>4, <1>5 DEF DroppedInv

-----------------------------------------------------------------------------
(* The exchanges. *)
Window == [phase : {"idle", "open", "dispatched", "replied"},
           len : 0..sig_ttl_secs, since : Nat, pre : 0..MaxPre, key : Key]

AWindow(p, l, s, r, k) == [phase |-> p, len |-> l, since |-> s, pre |-> r, key |-> k]

\* The fields of a window.
LEMMA WindowFields ==
  ASSUME NEW e \in Window
  PROVE  /\ e.phase \in {"idle", "open", "dispatched", "replied"} /\ e.len \in 0..sig_ttl_secs
         /\ e.since \in Nat /\ e.pre \in 0..MaxPre /\ e.key \in Key
         /\ e.len \in Nat /\ e.pre \in Nat /\ e.key.left \in Nat
         /\ e = AWindow(e.phase, e.len, e.since, e.pre, e.key)
<1>1. /\ e.phase \in {"idle", "open", "dispatched", "replied"} /\ e.len \in 0..sig_ttl_secs
      /\ e.since \in Nat /\ e.pre \in 0..MaxPre /\ e.key \in Key
      /\ e = AWindow(e.phase, e.len, e.since, e.pre, e.key)
  BY DEF Window, AWindow
<1> QED
  BY <1>1, KeyFacts, SigningConstants

(* A step of one exchange: the others keep their windows. *)
LEMMA OneWindow ==
  ASSUME SigningInv, NEW x \in Exchange, NEW w \in Window, WindowOf(w), ex' = [ex EXCEPT ![x] = w],
         UNCHANGED <<epochVars, rootVars, custody, snapshot, rotor, halted>>
  PROVE  SigningInv'
<1> USE DEF SigningInv
<1>1. ex \in Exchanges
  BY TypeParts
<1>2. ex' \in Exchanges /\ \A y \in Exchange : ex'[y] = IF y = x THEN w ELSE ex[y]
  BY <1>1 DEF Exchanges, Window
<1>3. SigningTypeOK'
  BY <1>2 DEF SigningTypeOK, Exchanges, epochVars, rootVars, custody, rotor
<1>4. EpochInv' /\ DroppedInv'
  BY DEF EpochInv, DroppedInv, custody, rotor
<1>5. WindowInv'
  BY <1>2 DEF WindowInv
<1> QED
  BY <1>3, <1>4, <1>5

\* The window of one exchange.
LEMMA WindowAt ==
  ASSUME SigningInv, NEW x \in Exchange
  PROVE  ex[x] \in Window /\ WindowOf(ex[x])
BY TypeParts DEF SigningInv, WindowInv, Exchanges, Window

\* A window opens, never after the drop.
LEMMA StepOpen ==
  ASSUME SigningInv, NEW x \in Exchange, Open(x)
  PROVE  SigningInv' /\ ~ halted
<1>1. Valid /\ snapshot.key \in Key /\ snapshot.key.left \in Nat /\ snapshot.state = "Active"
  BY Numbers DEF Open, Valid
<1>2. PICK n \in Int : n = WindowLength(snapshot.key)
  <2>1. sig_ttl_secs \in Int /\ snapshot.key.left \in Int
    BY <1>1, SigningConstants
  <2> QED
    BY <2>1, MinOfTwo DEF WindowLength
<1>3. n \in 0..sig_ttl_secs /\ n <= snapshot.key.left
  <2>1. sig_ttl_secs \in Int /\ snapshot.key.left \in Int
    BY <1>1, SigningConstants
  <2>2. n <= sig_ttl_secs /\ n <= snapshot.key.left
    BY <1>2, <2>1, MinOfTwo DEF WindowLength
  <2>3. n > 0
    BY <1>2 DEF Open
  <2> QED
    BY <2>2, <2>3, SigningConstants
<1> DEFINE w == AWindow("open", n, 0, 0, snapshot.key)
<1>4. w \in Window
  BY <1>1, <1>3, SigningConstants DEF Window, AWindow
<1>5. WindowOf(w)
  BY <1>1, <1>3, SigningConstants DEF WindowOf, AWindow
<1>6. ex' = [ex EXCEPT ![x] = w]
  BY <1>2 DEF Open, AWindow
<1>7. UNCHANGED <<epochVars, rootVars, custody, snapshot, rotor, halted>>
  BY DEF Open
<1> HIDE DEF w
<1>8. SigningInv'
  BY <1>4, <1>5, <1>6, <1>7, OneWindow
<1> QED
  BY <1>1, <1>8 DEF SigningInv, DroppedInv

\* The rest of an exchange.
LEMMA StepExchange ==
  ASSUME SigningInv, NEW x \in Exchange, RefuseUncovered(x) \/ Dispatch(x) \/ Reply(x) \/ Deliver(x)
  PROVE  SigningInv'
<1>1. UNCHANGED <<epochVars, rootVars, custody, snapshot, rotor, halted>>
  BY DEF RefuseUncovered, Dispatch, Reply, Deliver
<1>2. PICK e \in Window : e = ex[x] /\ WindowOf(e)
  BY WindowAt
<1>3. ex \in [Exchange -> Window]
  BY TypeParts DEF SigningInv, Exchanges, Window
<1>4. CASE RefuseUncovered(x) \/ Deliver(x)
  <2>1. ex' = [ex EXCEPT ![x] = NoWindow]
    BY <1>4 DEF RefuseUncovered, Deliver
  <2>2. NoWindow \in Window /\ WindowOf(NoWindow)
    BY NoWindowFacts DEF Window
  <2> QED
    BY <1>1, <2>1, <2>2, OneWindow
<1>5. CASE Dispatch(x)
  <2> DEFINE w == AWindow("dispatched", e.len, e.since, e.since, e.key)
  <2>1. e.phase = "open" /\ completion_bound < e.len
    BY <1>2, <1>5 DEF Dispatch, covers
  <2>2. w \in Window
    BY <1>2, <2>1, WindowFields, SigningConstants DEF Window, AWindow, WindowOf
  <2>3. WindowOf(w)
    BY <1>2, <2>1, WindowFields, SigningConstants DEF WindowOf, AWindow
  <2>4. e = AWindow(e.phase, e.len, e.since, e.pre, e.key)
    BY WindowFields
  <2>5. ex'[x] = w
    BY <1>2, <1>3, <1>5, <2>4 DEF Dispatch, AWindow
  <2>6. ex' = [ex EXCEPT ![x] = w]
    BY <1>3, <1>5, <2>5 DEF Dispatch
  <2> HIDE DEF w
  <2> QED
    BY <1>1, <2>2, <2>3, <2>6, OneWindow
<1>6. CASE Reply(x)
  <2> DEFINE w == AWindow("replied", e.len, e.since, e.pre, e.key)
  <2>1. e.phase = "dispatched"
    BY <1>2, <1>6 DEF Reply
  <2>2. w \in Window
    BY <1>2, WindowFields DEF Window, AWindow
  <2>3. WindowOf(w)
    BY <1>2, <2>1, WindowFields DEF WindowOf, AWindow
  <2>4. [e EXCEPT !.phase = "replied"] = w
    BY DEF Window, AWindow
  <2>5. ex' = [ex EXCEPT ![x] = w]
    BY <1>2, <1>3, <1>6, <2>4 DEF Reply
  <2> HIDE DEF w
  <2> QED
    BY <1>1, <2>2, <2>3, <2>5, OneWindow
<1> QED
  BY <1>4, <1>5, <1>6

-----------------------------------------------------------------------------
(* The counter and the root. *)
LEMMA StepSurroundings ==
  ASSUME SigningInv, IncrEpoch \/ ShiftEpoch \/ RootChanges
  PROVE  SigningInv'
<1> USE DEF SigningInv
<1>1. UNCHANGED <<custody, snapshot, rotor, halted, ex>>
  BY DEF IncrEpoch, ShiftEpoch, RootChanges
<1>2. counter' \in Epoch /\ seen_max' \in Epoch
  <2>1. counter \in 0..MaxEpoch /\ seen_max \in 0..MaxEpoch /\ MaxEpoch \in Nat
    BY SigningConstants DEF SigningTypeOK, Epoch
  <2>2. CASE IncrEpoch
    <3>1. PICK n \in Int : n = counter + 1 /\ n \in 0..MaxEpoch
      BY <2>1, <2>2 DEF IncrEpoch
    <3>2. counter' = n /\ seen_max' = Max({seen_max, n}) /\ seen_max \in Int
      BY <2>1, <2>2, <3>1 DEF IncrEpoch
    <3>3. seen_max' \in {seen_max, n}
      BY <3>2, MaxOfTwo
    <3> QED
      BY <2>1, <3>1, <3>2, <3>3 DEF Epoch
  <2>3. CASE ShiftEpoch
    <3>1. PICK n \in Int : n = seen_max - 1 /\ n <= MaxEpoch
      BY <2>1
    <3>2. Max({0, n}) \in {0, n} /\ Max({0, n}) >= 0
      BY MaxOfTwo
    <3>3. seen_max' = seen_max /\ (counter' = seen_max \/ counter' = Max({0, n}))
      BY <2>3, <3>1 DEF ShiftEpoch
    <3> QED
      BY <2>1, <3>1, <3>2, <3>3 DEF Epoch
  <2>4. CASE RootChanges
    BY <2>1, <2>4 DEF RootChanges, epochVars, Epoch
  <2> QED
    BY <2>2, <2>3, <2>4
<1>3. rootUp' \in BOOLEAN /\ outages' \in 0..MaxOutages /\ upFor' \in Ages /\ downFor' \in Ages
  <2>1. /\ rootUp \in BOOLEAN /\ outages \in 0..MaxOutages /\ upFor \in Ages /\ downFor \in Ages
        /\ 0 \in Ages
    BY SigningConstants DEF SigningTypeOK, Ages
  <2>2. CASE IncrEpoch \/ ShiftEpoch
    BY <2>1, <2>2 DEF IncrEpoch, ShiftEpoch, rootVars
  <2>3. CASE RootChanges
    <3>1. rootUp' \in BOOLEAN /\ upFor' = 0 /\ downFor' \in {0, downFor}
      BY <2>3 DEF RootChanges
    <3>2. outages' \in 0..MaxOutages
      BY <2>1, <2>3, SigningConstants DEF RootChanges
    <3> QED
      BY <2>1, <3>1, <3>2
  <2> QED
    BY <2>2, <2>3
<1>4. SigningTypeOK'
  BY <1>1, <1>2, <1>3 DEF SigningTypeOK, custody, rotor
<1>5. EpochInv' /\ DroppedInv' /\ WindowInv'
  BY <1>1 DEF EpochInv, DroppedInv, WindowInv, custody, rotor
<1> QED
  BY <1>4, <1>5

(* Time passes. *)
LEMMA LessFacts == \A n \in Nat : Less(n) \in Nat /\ Less(n) <= n /\ Less(n) >= n - 1
BY DEF Less

\* A tick takes from the credential what it adds to the window's age.
LEMMA WindowTicks ==
  ASSUME NEW e \in Window, WindowOf(e), e.phase \notin {"idle", "replied"},
         e.phase = "open" => e.since < MaxPre,
         e.phase = "dispatched" => e.since - e.pre < completion_bound
  PROVE  LET w == [e EXCEPT !.since = @ + 1, !.key = Aged(@)] IN w \in Window /\ WindowOf(w)
<1> DEFINE w == AWindow(e.phase, e.len, e.since + 1, e.pre, Aged(e.key))
<1>1. e = AWindow(e.phase, e.len, e.since, e.pre, e.key)
  BY WindowFields
<1>2. [e EXCEPT !.since = e.since + 1, !.key = Aged(e.key)] = w
  <2> HIDE DEF w
  <2>1. PICK v : v = [e EXCEPT !.since = e.since + 1, !.key = Aged(e.key)]
    OBVIOUS
  <2>2. v = [e EXCEPT !.since = e.since + 1, !.key = Aged(e.key)]
        /\ DOMAIN e = {"phase", "len", "since", "pre", "key"}
    BY <1>1, <2>1 DEF AWindow
  <2>3. v.phase = e.phase /\ v.len = e.len /\ v.since = e.since + 1 /\ v.pre = e.pre /\ v.key = Aged(e.key)
    BY <2>2
  <2> QED
    BY <2>1, <2>2, <2>3 DEF w, AWindow
<1>3. w \in Window
  BY WindowFields, KeyFacts DEF Window, AWindow
<1>4. WindowOf(w)
  <2>1. Aged(e.key).left >= e.key.left - 1 /\ Aged(e.key).left \in Nat
    BY WindowFields, KeyFacts
  <2>2. PICK l \in Nat : l = Aged(e.key).left
    BY <2>1
  <2>3. w.phase = e.phase /\ w.len = e.len /\ w.since = e.since + 1 /\ w.pre = e.pre /\ w.key.left = l
    BY <2>2 DEF AWindow
  <2> HIDE DEF w
  <2> QED
    BY <2>1, <2>2, <2>3, WindowFields, SigningConstants DEF WindowOf
<1> QED
  BY <1>2, <1>3, <1>4

LEMMA StepSigningTick ==
  ASSUME SigningInv, SigningTick
  PROVE  SigningInv'
<1> USE DEF SigningInv
<1>1. UNCHANGED <<epochVars, rootUp, outages, cfg_epoch, pc, high_water, last_label, failures, halted>>
  BY DEF SigningTick
<1>2. active' = Aged(active) /\ active \in Key
  BY TypeParts DEF SigningTick
<1>3. hold' \in 0..retry_interval
  <2>1. hold' = Less(hold)
    BY DEF SigningTick
  <2>2. hold \in Nat /\ hold <= retry_interval
    BY SigningConstants, TypeParts
  <2> QED
    BY <2>1, <2>2, LessFacts, SigningConstants
<1>4. /\ snapshot' \in Snapshots /\ snapshot'.state = snapshot.state
      /\ snapshot'.key = Aged(snapshot.key)
  <2>1. snapshot' = [snapshot EXCEPT !.key = Aged(snapshot.key)]
    BY DEF SigningTick
  <2>2. Aged(snapshot.key) \in Key /\ snapshot \in Snapshots
    BY KeyFacts, Numbers, TypeParts
  <2> QED
    BY <2>1, <2>2 DEF Snapshots
<1>5. RotorTyped'
  <2>1. timer' = Less(timer)
    BY DEF SigningTick
  <2>2. timer \in Nat /\ timer <= Max({ttl, ROTATION_BACKOFF_MAX_MS})
    BY TypeParts, SigningConstants DEF RotorTyped
  <2> QED
    <3>1. timer' \in 0..Max({ttl, ROTATION_BACKOFF_MAX_MS})
      BY <2>1, <2>2, LessFacts, SigningConstants
    <3>2. pc \in Positions /\ failures \in 0..FailureCap
      BY TypeParts DEF RotorTyped
    <3> QED
      BY <1>1, <3>1, <3>2 DEF RotorTyped
<1>6. /\ root_call' \in Call /\ root_call'.kind = root_call.kind /\ root_call'.was = root_call.was
      /\ root_call'.label = root_call.label
  <2>1. root_call \in Call
    BY TypeParts
  <2>2. CASE pc # "root"
    BY <2>1, <2>2 DEF SigningTick
  <2>3. CASE pc = "root"
    <3>1. root_call.age < MaxCall
      BY <2>3 DEF SigningTick
    <3>2. /\ root_call.kind \in {"rotate", "advance"} /\ root_call.left \in 0..ttl
          /\ root_call.hold \in 0..retry_interval /\ root_call.was \in BOOLEAN
          /\ root_call.before \in 0..2 /\ root_call.label \in Epoch /\ root_call.age \in 0..MaxCall
      BY <2>1 DEF Call
    <3>3. Less(root_call.left) \in 0..ttl /\ Less(root_call.hold) \in 0..retry_interval
          /\ root_call.age + 1 \in 0..MaxCall
      BY <3>1, <3>2, LessFacts, SigningConstants
    <3>4. root_call' = [kind |-> root_call.kind, left |-> Less(root_call.left),
                        hold |-> Less(root_call.hold), was |-> root_call.was,
                        before |-> root_call.before, label |-> root_call.label,
                        age |-> root_call.age + 1]
      BY <2>1, <2>3 DEF SigningTick, Call
    <3> QED
      BY <3>2, <3>3, <3>4 DEF Call
  <2> QED
    BY <2>2, <2>3
<1>7. upFor' \in Ages /\ downFor' \in Ages
  <2>1. upFor \in Ages /\ downFor \in Ages /\ 0 \in Ages
    BY SigningConstants DEF SigningTypeOK, Ages
  <2>2. \A n \in Ages : More(n) \in Ages
    BY DEF More
  <2> QED
    BY <2>1, <2>2 DEF SigningTick
<1>8. \A x \in Exchange : ex'[x] \in Window /\ WindowOf(ex'[x])
  <2> SUFFICES ASSUME NEW x \in Exchange PROVE ex'[x] \in Window /\ WindowOf(ex'[x])
    OBVIOUS
  <2>1. PICK e \in Window : e = ex[x] /\ WindowOf(e)
    BY WindowAt
  <2>2. CASE e.phase = "idle"
    BY <2>1, <2>2 DEF SigningTick
  <2>3. CASE e.phase # "idle"
    <3>1. ex'[x] = [e EXCEPT !.since = @ + 1, !.key = Aged(@)]
      BY <2>1, <2>3 DEF SigningTick
    <3>2. /\ e.phase \notin {"idle", "replied"} /\ (e.phase = "open" => e.since < MaxPre)
          /\ e.phase = "dispatched" => e.since - e.pre < completion_bound
      BY <2>1, <2>3 DEF SigningTick
    <3> QED
      BY <2>1, <3>1, <3>2, WindowTicks
  <2> QED
    BY <2>2, <2>3
<1>9. ex' \in Exchanges
  BY <1>8 DEF SigningTick, Exchanges, Window
<1>10. SigningTypeOK'
  <2>1. active' \in Key
    BY <1>2, KeyFacts
  <2> QED
    BY <1>1, <1>3, <1>4, <1>5, <1>6, <1>7, <1>9, <2>1
       DEF SigningTypeOK, Snapshots, RotorTyped, Positions, Exchanges, epochVars
<1>11. EpochInv'
  <2>1. active'.epoch = active.epoch /\ (active'.left > 0 => active.left > 0)
    BY <1>2, KeyFacts
  <2>2. snapshot'.key.epoch = snapshot.key.epoch
    BY <1>4, KeyFacts, Numbers
  <2> QED
    BY <1>1, <1>4, <1>6, <2>1, <2>2 DEF EpochInv
<1>12. DroppedInv' /\ WindowInv'
  BY <1>1, <1>4, <1>8 DEF DroppedInv, WindowInv
<1> QED
  BY <1>10, <1>11, <1>12

\* Every step keeps the invariant.
LEMMA StepSigningInv == SigningInv /\ [SigningNext]_signingVars => SigningInv'
<1> SUFFICES ASSUME SigningInv, [SigningNext]_signingVars PROVE SigningInv'
  OBVIOUS
<1>1. CASE Rotor
  BY <1>1, StepWorker, StepObserveAdvance, StepStartRotation, StepKeepKey, StepRootIssues,
     StepRootDeclines DEF Rotor
<1>2. CASE DropPlane \/ Panic
  BY <1>2, StepOwner
<1>3. CASE \E x \in Exchange : Open(x) \/ RefuseUncovered(x) \/ Dispatch(x) \/ Reply(x) \/ Deliver(x)
  BY <1>3, StepOpen, StepExchange
<1>4. CASE IncrEpoch \/ ShiftEpoch \/ RootChanges
  BY <1>4, StepSurroundings
<1>5. CASE SigningTick
  BY <1>5, StepSigningTick
<1>6. CASE UNCHANGED signingVars
  BY <1>6 DEF signingVars, epochVars, rootVars, custody, rotor, SigningInv, SigningTypeOK, EpochInv,
     DroppedInv, WindowInv
<1> QED
  BY <1>1, <1>2, <1>3, <1>4, <1>5, <1>6 DEF SigningNext

LEMMA SigningInvAlways == SigningSpec => []SigningInv
BY InitSigningInv, StepSigningInv, PTL DEF SigningSpec

(* Only an issuance lengthens the key held, and it is under the epoch in   *)
(* the custody's configuration. *)
LEMMA OnlyIssuedForward ==
  ASSUME SigningInv, [SigningNext]_signingVars
  PROVE  active'.left > active.left => active'.epoch >= active.epoch
<1> SUFFICES ASSUME active'.left > active.left PROVE active'.epoch >= active.epoch
  OBVIOUS
<1>1. active.left \in Nat /\ active \in Key
  BY Numbers, TypeParts DEF SigningInv
<1>2. active' # active /\ active' # Aged(active) /\ active' # NoKey
  BY <1>1, KeyFacts
<1>3. RootIssues
  <2>1. SigningNext
    BY <1>2 DEF signingVars, custody
  <2>2. ~ (HaltSeen \/ WaitEnds \/ WaitPolls \/ Wakes \/ ObserveSame \/ ObserveNothing \/ ObserveAdvance
           \/ StartRotation \/ KeepKey)
    BY <1>2 DEF HaltSeen, WaitEnds, WaitPolls, Wakes, ObserveSame, ObserveNothing, ObserveAdvance,
       StartRotation, KeepKey, custody
  <2>3. ~ RootDeclines
    BY <1>2 DEF RootDeclines
  <2>4. ~ (DropPlane \/ Panic \/ IncrEpoch \/ ShiftEpoch \/ RootChanges \/ SigningTick)
    BY <1>2 DEF DropPlane, Panic, IncrEpoch, ShiftEpoch, RootChanges, SigningTick, custody
  <2>5. \A x \in Exchange : ~ (Open(x) \/ RefuseUncovered(x) \/ Dispatch(x) \/ Reply(x) \/ Deliver(x))
    BY <1>2 DEF Open, RefuseUncovered, Dispatch, Reply, Deliver, custody
  <2> QED
    BY <2>1, <2>2, <2>3, <2>4, <2>5 DEF SigningNext, Rotor
<1>4. active'.epoch = cfg_epoch
  BY <1>3, MintedFacts DEF RootIssues
<1> QED
  BY <1>4, Numbers DEF SigningInv, EpochInv

(* Only a step that opens a window takes an exchange from its idle place,  *)
(* and none does after the drop.                                           *)
LEMMA NoneOpensDropped ==
  ASSUME SigningInv, [SigningNext]_signingVars
  PROVE  \A x \in Exchange : halted /\ ex[x].phase = "idle" => ex'[x].phase = "idle"
<1> SUFFICES ASSUME NEW x \in Exchange, halted, ex[x].phase = "idle", ex' # ex
             PROVE  ex'[x].phase = "idle"
  OBVIOUS
<1>0. ex \in [Exchange -> Window]
  BY TypeParts DEF SigningInv, Exchanges, Window
<1>1. SigningTick \/ \E y \in Exchange :
        Open(y) \/ RefuseUncovered(y) \/ Dispatch(y) \/ Reply(y) \/ Deliver(y)
  <2>1. SigningNext
    BY DEF signingVars
  <2>2. ~ Rotor
    BY DEF Rotor, HaltSeen, WaitEnds, WaitPolls, Wakes, ObserveSame, ObserveNothing, ObserveAdvance,
       StartRotation, KeepKey, RootIssues, RootDeclines
  <2>3. ~ (DropPlane \/ Panic \/ IncrEpoch \/ ShiftEpoch \/ RootChanges)
    BY DEF DropPlane, Panic, IncrEpoch, ShiftEpoch, RootChanges
  <2> QED
    BY <2>1, <2>2, <2>3 DEF SigningNext
<1>2. CASE SigningTick
  BY <1>2 DEF SigningTick
<1>3. ASSUME NEW y \in Exchange, Open(y) \/ RefuseUncovered(y) \/ Dispatch(y) \/ Reply(y) \/ Deliver(y)
      PROVE  ex'[x].phase = "idle"
  <2>1. ~ Open(y)
    BY StepOpen
  <2>2. CASE RefuseUncovered(y) \/ Deliver(y)
    BY <1>0, <2>2, NoWindowFacts DEF RefuseUncovered, Deliver
  <2>3. CASE Dispatch(y) \/ Reply(y)
    <3>1. x # y
      BY <2>3 DEF Dispatch, Reply
    <3> QED
      BY <1>0, <2>3, <3>1 DEF Dispatch, Reply
  <2> QED
    BY <1>3, <2>1, <2>2, <2>3
<1> QED
  BY <1>1, <1>2, <1>3

-----------------------------------------------------------------------------
(* The epoch is the operator's, for every number of epochs, exchanges and  *)
(* outages, whatever the windows and delays, and although the counter may  *)
(* regress, be unreadable, the plane be dropped and the worker panic: the  *)
(* key in service carries the label the worker announced, and the label    *)
(* minted under never goes back.  (apply_epoch_advance,                    *)
(* DelegatedEpochWatch::current_label)                                     *)
THEOREM EpochHonouredHolds == SigningSpec => EpochHonoured
<1>1. SigningInv => EpochInForce
  BY DEF SigningInv, EpochInv, EpochInForce
<1>2. SigningInv /\ [SigningNext]_signingVars
        => [active'.left > active.left => active'.epoch >= active.epoch]_signingVars
  BY OnlyIssuedForward
<1> QED
  BY <1>1, <1>2, SigningInvAlways, PTL DEF SigningSpec, EpochHonoured, MintsForward

(* A reply whose dispatch kept the bound it stated is signed inside its    *)
(* window by a credential that has not expired, and none opens a window    *)
(* once the plane is dropped.  (SigningWindow::covers,                     *)
(* DelegatedServerSigner::publish against SigningPlane::drop)              *)
THEOREM RepliesVerifyHolds == SigningSpec => RepliesVerify
<1>1. SigningInv => SigningTypeOK /\ ReplyVerifiable
  <2> SUFFICES ASSUME SigningInv, NEW x \in Exchange, ex[x].phase = "replied"
               PROVE  ex[x].since - ex[x].pre < ex[x].len /\ ex[x].key.left + ex[x].pre > 0
    BY DEF SigningInv, ReplyVerifiable
  <2>1. PICK e \in Window : e = ex[x] /\ WindowOf(e)
    BY WindowAt
  <2>2. /\ e.len <= e.key.left + e.since /\ e.pre <= e.since
        /\ e.since - e.pre <= completion_bound /\ completion_bound < e.len
    BY <2>1 DEF WindowOf
  <2>3. e.len \in Nat /\ e.since \in Nat /\ e.pre \in Nat /\ e.key.left \in Nat
    BY WindowFields
  <2> QED
    BY <2>1, <2>2, <2>3, SigningConstants
<1>2. SigningInv /\ [SigningNext]_signingVars
        => [\A x \in Exchange : halted /\ ex[x].phase = "idle" => ex'[x].phase = "idle"]_signingVars
  BY NoneOpensDropped
<1> QED
  BY <1>1, <1>2, SigningInvAlways, PTL DEF SigningSpec, RepliesVerify, NoWindowAfterRetirement

-----------------------------------------------------------------------------
(* The outage of the root.  The snapshot holds the key the custody holds.  *)
KeyInv ==
  /\ ~ halted /\ pc # "stopped" /\ snapshot.state # "Terminal"
  /\ active.left > 0 => snapshot.state = "Active"
  /\ snapshot.state = "Active" => snapshot.key = active

(* The call in flight, as it was asked. *)
AskedInv ==
  pc = "root" =>
    /\ root_call.kind = "rotate" /\ active.left <= overlap
    /\ root_call.before \in {active.kid, 2}
    /\ root_call.was => root_call.before = active.kid
    /\ active.left > 0 => root_call.was
    /\ root_call.left + root_call.age >= ttl

SleepInv == pc = "sleep" => timer <= ROTATION_BACKOFF_MAX_MS
DownInv == ~ rootUp => outages >= 1

(* The worker is on time: it has the whole overlap before it.              *)
OnTime ==
  /\ hold = 0 /\ pc \in {"wait", "observe", "due", "root"}
  /\ pc = "wait" => active.left = overlap + timer
  /\ pc \in {"observe", "due"} => active.left >= overlap
  /\ pc = "root" => active.left + root_call.age >= overlap

(* The ticks until the next call is answered, if the root answers.         *)
Asleep == IF pc = "sleep" THEN timer ELSE 0
Delay ==
  IF pc = "root" THEN MaxCall - root_call.age
  ELSE IF hold <= Asleep THEN Asleep + MaxCall
  ELSE hold + ROTATION_BACKOFF_MAX_MS + MaxCall

(* The root has declined a call, and the worker tries again.               *)
Trying ==
  /\ outages >= 1 /\ pc \in {"sleep", "observe", "due", "root"} /\ active.left <= overlap
  /\ rootUp => /\ Delay + upFor <= retry_interval + ROTATION_BACKOFF_MAX_MS + MaxCall
               /\ downFor < Tolerated => active.left > Delay
  /\ ~ rootUp => (downFor < Tolerated => active.left + downFor >= overlap - MaxCall)

OutageInv == KeyInv /\ AskedInv /\ SleepInv /\ DownInv /\ (OnTime \/ Trying)

\* What the invariant says of the numbers an outage moves.
LEMMA OutageNumbers ==
  ASSUME SigningInv
  PROVE  /\ active \in Key /\ active.left \in Nat /\ active.kid \in 0..1
         /\ hold \in Nat /\ hold <= retry_interval /\ timer \in Nat
         /\ upFor \in Nat /\ downFor \in Nat /\ outages \in Nat
         /\ root_call \in Call /\ root_call.age \in Nat /\ root_call.age <= MaxCall
         /\ root_call.left \in Nat /\ root_call.hold \in Nat /\ Tolerated \in Int
<1>1. active \in Key /\ active.left \in Nat /\ active.kid \in 0..1
  BY TypeParts, KeyFacts, SigningConstants DEF SigningInv
<1>2. hold \in Nat /\ hold <= retry_interval /\ timer \in Nat
  BY TypeParts, SigningConstants DEF SigningInv, RotorTyped
<1>3. upFor \in Nat /\ downFor \in Nat /\ outages \in Nat
  BY TypeParts, SigningConstants DEF SigningInv, Ages
<1>4. root_call \in Call /\ root_call.age \in Nat /\ root_call.age <= MaxCall
      /\ root_call.left \in Nat /\ root_call.hold \in Nat
  BY TypeParts, SigningConstants DEF SigningInv, Call
<1>5. Tolerated \in Int
  BY SigningConstants DEF Tolerated
<1> QED
  BY <1>1, <1>2, <1>3, <1>4, <1>5

\* The next call is answered within a hold-off, a back-off and a call.
LEMMA DelayBounded ==
  ASSUME SigningInv, SleepInv
  PROVE  Delay \in Nat /\ Delay <= retry_interval + ROTATION_BACKOFF_MAX_MS + MaxCall
BY OutageNumbers, SigningConstants DEF SleepInv, Delay, Asleep

\* At start the worker is on time.
LEMMA InitOutageInv == ASSUME OneOutage PROVE SigningInit => OutageInv
<1> SUFFICES ASSUME SigningInit PROVE OutageInv
  OBVIOUS
<1>1. active = [kid |-> 0, left |-> ttl, epoch |-> 0]
      /\ snapshot.state = "Active" /\ snapshot.key = active
  BY DEF SigningInit
<1>2. ttl = overlap + timer /\ hold = 0 /\ pc = "wait"
  BY SigningConstants DEF SigningInit
<1>3. OnTime
  BY <1>1, <1>2 DEF OnTime
<1>4. KeyInv /\ AskedInv /\ SleepInv /\ DownInv
  BY <1>1, <1>2 DEF SigningInit, KeyInv, AskedInv, SleepInv, DownInv
<1> QED
  BY <1>3, <1>4 DEF OutageInv

(* What none of it reads. *)
LEMMA OutageKept ==
  ASSUME OutageInv, UNCHANGED <<rootVars, active, hold, snapshot, pc, timer, root_call, halted>>
  PROVE  OutageInv'
BY DEF OutageInv, KeyInv, AskedInv, SleepInv, DownInv, OnTime, Trying, Delay, Asleep, rootVars

\* The worker wakes and observes: no time passes.
LEMMA OutageWorker ==
  ASSUME OneOutage, SigningInv, OutageInv, WaitEnds \/ Wakes \/ ObserveSame
  PROVE  OutageInv'
<1> USE DEF OutageInv
<1>1. /\ UNCHANGED <<rootVars, custody, snapshot, timer, root_call, halted>>
      /\ pc' \in {"observe", "due"}
  BY DEF WaitEnds, Wakes, ObserveSame
<1>2. KeyInv' /\ AskedInv' /\ SleepInv' /\ DownInv'
  BY <1>1 DEF KeyInv, AskedInv, SleepInv, DownInv, rootVars, custody
<1>3. CASE OnTime
  <2>1. active.left >= overlap
    <3>1. CASE WaitEnds
      BY <1>3, <3>1, OutageNumbers, SigningConstants DEF WaitEnds, OnTime
    <3>2. CASE ~ WaitEnds
      BY <1>3, <3>2 DEF Wakes, ObserveSame, OnTime
    <3> QED
      BY <3>1, <3>2
  <2>2. OnTime'
    BY <1>1, <1>3, <2>1 DEF OnTime, custody
  <2> QED
    BY <1>2, <2>2
<1>4. CASE Trying
  <2>1. Delay' = Delay
    <3>1. Asleep = 0 /\ Asleep' = 0 /\ pc # "root"
      BY <1>1, <1>4 DEF Trying, Asleep, WaitEnds, Wakes, ObserveSame
    <3> QED
      BY <1>1, <3>1 DEF Delay, custody
  <2>2. Trying'
    BY <1>1, <1>4, <2>1 DEF Trying, rootVars, custody
  <2> QED
    BY <1>2, <2>2
<1> QED
  BY <1>3, <1>4

\* A call starts: the delay is what it may take.
LEMMA OutageStartRotation ==
  ASSUME OneOutage, SigningInv, OutageInv, StartRotation
  PROVE  OutageInv'
<1> USE DEF OutageInv
<1>1. /\ UNCHANGED <<rootVars, custody, snapshot, timer, halted>> /\ pc = "due" /\ pc' = "root"
      /\ active.left <= overlap /\ hold = 0
      /\ root_call' = [kind |-> "rotate", left |-> ttl, hold |-> retry_interval,
                       was |-> active.left > 0, before |-> IF Valid THEN snapshot.key.kid ELSE 2,
                       label |-> last_label, age |-> 0]
  BY DEF StartRotation, Asks, rotation_due, attempt_allowed
<1>2. Valid <=> active.left > 0
  BY OutageNumbers DEF Valid, KeyInv
<1>3. AskedInv'
  <2>1. root_call'.before \in {active.kid, 2} /\ (active.left > 0 => root_call'.before = active.kid)
    BY <1>1, <1>2 DEF KeyInv, Valid
  <2>2. root_call'.kind = "rotate" /\ root_call'.left = ttl /\ root_call'.age = 0
        /\ (active.left > 0 => root_call'.was) /\ (root_call'.was => active.left > 0)
    BY <1>1
  <2> QED
    BY <1>1, <2>1, <2>2, SigningConstants DEF AskedInv, custody
<1>4. KeyInv' /\ SleepInv' /\ DownInv'
  BY <1>1 DEF KeyInv, SleepInv, DownInv, rootVars, custody
<1>5. root_call'.age = 0
  BY <1>1
<1>6. CASE OnTime
  <2>1. OnTime'
    BY <1>1, <1>5, <1>6, OutageNumbers, SigningConstants DEF OnTime, custody
  <2> QED
    BY <1>3, <1>4, <2>1
<1>7. CASE Trying
  <2>1. Delay = MaxCall /\ Delay' = MaxCall
    BY <1>1, <1>5, SigningConstants DEF Delay, Asleep, custody
  <2>2. Trying'
    BY <1>1, <1>7, <2>1 DEF Trying, rootVars, custody
  <2> QED
    BY <1>3, <1>4, <2>2
<1> QED
  BY <1>6, <1>7

(* Asleep, with no call out: where a declined call leaves the worker.      *)
LEMMA SleepDelays ==
  ASSUME NEW h \in Nat, NEW t \in Nat, t <= ROTATION_BACKOFF_MAX_MS,
         pc' = "sleep", timer' = t, hold' = h
  PROVE  Delay' \in Nat /\ Delay' <= h + ROTATION_BACKOFF_MAX_MS + MaxCall
BY SigningConstants DEF Delay, Asleep

\* Held off, the worker sleeps once more, within the bound.
LEMMA OutageKeepKey ==
  ASSUME OneOutage, SigningInv, OutageInv, KeepKey
  PROVE  OutageInv'
<1> USE DEF OutageInv
<1>1. /\ UNCHANGED <<rootVars, custody, root_call, halted>> /\ pc = "due"
      /\ snapshot' = IF active.left > 0 THEN Publish(active) ELSE Retire
      /\ ~ (active.left <= overlap /\ hold = 0)
  BY DEF KeepKey, rotation_due, attempt_allowed
<1>2. snapshot' \in Snapshots
  <2>1. snapshot \in Snapshots /\ active \in Key
    BY TypeParts DEF SigningInv
  <2> QED
    BY <1>1, <2>1, SnapshotFacts
<1>3. /\ active.left > 0 => snapshot' = [state |-> "Active", key |-> active]
      /\ ~ (active.left > 0) => snapshot' = [state |-> "Empty", key |-> NoKey]
  BY <1>1 DEF KeyInv, Publish, Retire
<1>4. failures \in 0..FailureCap
  BY TypeParts DEF SigningInv, RotorTyped
<1>5. CASE OnTime
  <2>1. active.left > overlap
    BY <1>1, <1>5, OutageNumbers, SigningConstants DEF OnTime
  <2>2. active.left > 0 /\ active.left \in Nat
    BY <2>1, OutageNumbers, SigningConstants
  <2>3. snapshot'.state = "Active" /\ snapshot'.key = active
    BY <1>3, <2>2
  <2>4. Top
    BY <2>1, <2>2, <2>3 DEF KeepKey, Rotated, rotation_made_progress
  <2>5. pc' = "wait" /\ timer' = active.left - overlap
    BY <2>1, <2>3, <2>4 DEF Top, wait_for_window
  <2>6. OnTime'
    BY <1>1, <1>5, <2>2, <2>5, SigningConstants DEF OnTime, custody
  <2>7. KeyInv' /\ AskedInv' /\ SleepInv' /\ DownInv'
    BY <1>1, <2>3, <2>5 DEF KeyInv, AskedInv, SleepInv, DownInv, rootVars, custody
  <2> QED
    BY <2>6, <2>7
<1>6. CASE Trying
  <2>1. active.left <= overlap /\ hold # 0
    BY <1>1, <1>6 DEF Trying
  <2>2. BackOff
    <3>1. CASE active.left > 0
      <4>1. snapshot'.state = "Active" /\ snapshot'.key = active
        BY <1>3, <3>1
      <4>2. Valid /\ snapshot.key.kid = active.kid
        BY <3>1 DEF KeyInv, Valid
      <4>3. ~ (active.left > overlap)
        BY <2>1, OutageNumbers, SigningConstants
      <4> QED
        BY <3>1, <4>1, <4>2, <4>3 DEF KeepKey, Rotated, rotation_made_progress
    <3>2. CASE ~ (active.left > 0)
      BY <3>2 DEF KeepKey
    <3> QED
      BY <3>1, <3>2
  <2>3. pc' = "sleep" /\ timer' \in Nat /\ timer' <= ROTATION_BACKOFF_MAX_MS
    BY <1>2, <1>4, <2>2, BackOffSleeps, SigningConstants
  <2>4. Delay = hold + ROTATION_BACKOFF_MAX_MS + MaxCall
    BY <1>1, <2>1, OutageNumbers DEF Delay, Asleep
  <2>5. Delay' <= Delay /\ Delay' \in Nat
    BY <1>1, <2>3, <2>4, SleepDelays, OutageNumbers DEF custody
  <2>6. Trying'
    <3>1. Delay' + upFor <= Delay + upFor /\ (active.left > Delay => active.left > Delay')
      BY <2>4, <2>5, OutageNumbers, SigningConstants
    <3>2. Delay \in Nat
      BY <2>4, OutageNumbers, SigningConstants
    <3>3. rootUp => /\ Delay' + upFor <= retry_interval + ROTATION_BACKOFF_MAX_MS + MaxCall
                    /\ downFor < Tolerated => active.left > Delay'
      BY <1>6, <2>5, <3>1, <3>2, OutageNumbers, SigningConstants DEF Trying
    <3> QED
      BY <1>1, <1>6, <2>3, <3>3 DEF Trying, rootVars, custody
  <2>7. KeyInv' /\ AskedInv' /\ SleepInv' /\ DownInv'
    BY <1>1, <1>3, <2>3 DEF KeyInv, AskedInv, SleepInv, DownInv, rootVars, custody
  <2> QED
    BY <2>6, <2>7
<1> QED
  BY <1>5, <1>6

\* A key in time puts the worker on time again.
LEMMA OutageRootIssues ==
  ASSUME OneOutage, SigningInv, OutageInv, RootIssues
  PROVE  OutageInv'
<1> USE DEF OutageInv
<1>1. /\ UNCHANGED <<rootVars, halted>> /\ pc = "root" /\ hold' = 0
      /\ active' = Minted /\ snapshot' = [state |-> "Active", key |-> Minted]
  BY DEF RootIssues, KeyInv, Publish
<1>2. Minted.left = root_call.left /\ Minted.kid = 1 - active.kid
  BY DEF Minted
<1>3. root_call.left >= overlap /\ root_call.left > 0
  BY <1>1, OutageNumbers, SigningConstants DEF OneOutage, AskedInv
<1>4. 1 - active.kid # root_call.before
  BY <1>1, OutageNumbers DEF AskedInv
<1>5. Top
  BY <1>1, <1>2, <1>3, <1>4 DEF RootIssues, AskedInv, Rotated, rotation_made_progress
<1>6. pc' = "wait" /\ active'.left = overlap + timer'
  BY <1>1, <1>2, <1>3, <1>5, OutageNumbers, SigningConstants DEF Top, wait_for_window
<1>7. OnTime'
  BY <1>1, <1>6 DEF OnTime
<1>8. KeyInv' /\ AskedInv' /\ SleepInv' /\ DownInv'
  BY <1>1, <1>6 DEF KeyInv, AskedInv, SleepInv, DownInv, rootVars
<1> QED
  BY <1>7, <1>8

\* The call that failed has cost at most one call of the overlap.
LEMMA OutageRootDeclines ==
  ASSUME OneOutage, SigningInv, OutageInv, RootDeclines
  PROVE  OutageInv'
<1> USE DEF OutageInv
<1>1. /\ UNCHANGED <<rootVars, halted>> /\ pc = "root" /\ ~ rootUp
      /\ active' = (IF root_call.was THEN active ELSE NoKey)
      /\ root_call.kind = "rotate"
  BY DEF RootDeclines, AskedInv
<1>2. /\ root_call.was => snapshot' = [state |-> "Active", key |-> active] /\ Rotated(root_call.before)
      /\ ~ root_call.was => snapshot' = [state |-> "Empty", key |-> NoKey] /\ BackOff
  BY <1>1 DEF RootDeclines, Declined, IssuanceFails, KeyInv, Publish, Retire
<1>3. BackOff
  <2>1. CASE root_call.was
    <3>1. snapshot'.state = "Active" /\ snapshot'.key = active
      BY <1>2, <2>1
    <3>2. root_call.before = active.kid /\ ~ (active.left > overlap)
      BY <1>1, <2>1, OutageNumbers, SigningConstants DEF AskedInv
    <3> QED
      BY <1>2, <2>1, <3>1, <3>2 DEF Rotated, rotation_made_progress
  <2> QED
    BY <1>2, <2>1
<1>4. snapshot' \in Snapshots /\ failures \in 0..FailureCap
  BY <1>2, KeyFacts, OutageNumbers, TypeParts DEF SigningInv, RotorTyped, Snapshots
<1>5. pc' = "sleep" /\ timer' \in Nat /\ timer' <= ROTATION_BACKOFF_MAX_MS
  BY <1>3, <1>4, BackOffSleeps, SigningConstants
<1>6. active'.left = active.left
  <2>1. CASE root_call.was
    BY <1>1, <2>1
  <2>2. CASE ~ root_call.was
    <3>1. active.left = 0
      BY <1>1, <2>2, OutageNumbers DEF AskedInv
    <3> QED
      BY <1>1, <2>2, <3>1, KeyFacts
  <2> QED
    BY <2>1, <2>2
<1>7. KeyInv' /\ AskedInv' /\ SleepInv' /\ DownInv'
  <2>1. CASE root_call.was
    BY <1>1, <1>2, <1>5, <2>1 DEF KeyInv, AskedInv, SleepInv, DownInv, rootVars
  <2>2. CASE ~ root_call.was
    BY <1>1, <1>2, <1>5, <2>2, KeyFacts DEF KeyInv, AskedInv, SleepInv, DownInv, rootVars
  <2> QED
    BY <2>1, <2>2
<1>8. Trying'
  <2>1. active.left <= overlap /\ outages >= 1
    BY <1>1 DEF AskedInv, DownInv
  <2>2. downFor < Tolerated => active.left + downFor >= overlap - MaxCall
    <3>1. CASE OnTime
      BY <1>1, <3>1, OutageNumbers, SigningConstants DEF OnTime
    <3>2. CASE Trying
      BY <1>1, <3>2 DEF Trying
    <3> QED
      BY <3>1, <3>2
  <2> QED
    BY <1>1, <1>5, <1>6, <2>1, <2>2 DEF Trying, rootVars
<1> QED
  BY <1>7, <1>8

\* The outage begins on time; when it ends, the key outlasts the delay.
LEMMA OutageRootChanges ==
  ASSUME OneOutage, SigningInv, OutageInv, RootChanges
  PROVE  OutageInv'
<1> USE DEF OutageInv
<1>1. UNCHANGED <<active, hold, snapshot, pc, timer, root_call, halted>>
  BY DEF RootChanges, custody, rotor
<1>2. KeyInv' /\ AskedInv' /\ SleepInv'
  BY <1>1 DEF KeyInv, AskedInv, SleepInv
<1>3. CASE rootUp
  <2>1. outages = 0 /\ outages' = 1
    BY <1>3, OutageNumbers, SigningConstants DEF RootChanges, OneOutage
  <2>2. OnTime
    BY <2>1 DEF Trying
  <2>3. OnTime' /\ DownInv'
    BY <1>1, <2>1, <2>2 DEF OnTime, DownInv
  <2> QED
    BY <1>2, <2>3
<1>4. CASE ~ rootUp
  <2>1. rootUp' /\ upFor' = 0 /\ downFor' = downFor /\ outages' = outages
    BY <1>4, TypeParts DEF RootChanges, SigningInv
  <2>2. CASE OnTime
    BY <1>1, <1>2, <2>1, <2>2 DEF OnTime, DownInv
  <2>3. CASE Trying
    <3>1. Delay' = Delay /\ Delay \in Nat
          /\ Delay <= retry_interval + ROTATION_BACKOFF_MAX_MS + MaxCall
      BY <1>1, DelayBounded DEF Delay, Asleep
    <3>2. downFor < Tolerated => active.left > Delay
      BY <1>4, <2>3, <3>1, OutageNumbers, SigningConstants DEF Trying, Tolerated
    <3>3. Trying'
      BY <1>1, <2>1, <2>3, <3>1, <3>2, OutageNumbers, SigningConstants DEF Trying
    <3> QED
      BY <1>2, <2>1, <3>3 DEF DownInv
  <2> QED
    BY <2>2, <2>3
<1> QED
  BY <1>3, <1>4

(* A tick off the delay and one more since the root is back.               *)
LEMMA TickKept ==
  \A a, b, m, n, k \in Int : a = m - 1 /\ b <= n + 1 /\ m + n <= k => a + b <= k
OBVIOUS

\* A tick takes as much from the key as from the delay.
LEMMA OutageTick ==
  ASSUME OneOutage, SigningInv, OutageInv, SigningTick
  PROVE  OutageInv'
<1> USE DEF OutageInv
<1>1. /\ UNCHANGED <<rootUp, outages, pc, halted>>
      /\ active' = Aged(active) /\ hold' = Less(hold) /\ timer' = Less(timer)
      /\ snapshot' = [snapshot EXCEPT !.key = Aged(snapshot.key)]
      /\ upFor' = (IF rootUp THEN More(upFor) ELSE 0)
      /\ downFor' = (IF rootUp THEN downFor ELSE More(downFor))
  BY DEF SigningTick
<1>2. (pc \in {"wait", "sleep"} /\ timer > 0) \/ (pc = "root" /\ root_call.age < MaxCall)
  <2>1. \/ pc = "stopped"
        \/ pc \in {"wait", "sleep"} /\ timer > 0 /\ ~ halted
        \/ pc = "root" /\ root_call.age < MaxCall
    BY DEF SigningTick
  <2> QED
    BY <2>1 DEF KeyInv
<1>3. /\ active'.left = Less(active.left) /\ active'.kid = active.kid
      /\ active'.left \in Nat /\ active'.left <= active.left /\ active'.left >= active.left - 1
  BY <1>1, OutageNumbers, KeyFacts
<1>4. pc = "root" =>
        /\ root_call'.kind = root_call.kind /\ root_call'.before = root_call.before
        /\ root_call'.was = root_call.was /\ root_call'.age = root_call.age + 1
        /\ root_call'.left = Less(root_call.left)
  BY OutageNumbers DEF SigningTick, Call
<1>5. snapshot'.state = snapshot.state /\ snapshot'.key = Aged(snapshot.key)
  <2>1. snapshot \in Snapshots
    BY TypeParts DEF SigningInv
  <2> QED
    BY <1>1, <2>1 DEF Snapshots
<1>6. KeyInv' /\ DownInv'
  <2>1. active'.left > 0 => active.left > 0
    BY <1>3, OutageNumbers
  <2> QED
    BY <1>1, <1>5, <2>1 DEF KeyInv, DownInv
<1>7. AskedInv'
  <2> SUFFICES ASSUME pc = "root" PROVE AskedInv'
    BY <1>1 DEF AskedInv
  <2>1. root_call'.left + root_call'.age >= ttl
    BY <1>4, OutageNumbers, LessFacts, SigningConstants DEF AskedInv
  <2>2. active'.left <= overlap /\ (active'.left > 0 => active.left > 0)
    BY <1>3, OutageNumbers, SigningConstants DEF AskedInv
  <2> QED
    BY <1>1, <1>3, <1>4, <2>1, <2>2 DEF AskedInv
<1>8. SleepInv'
  BY <1>1, OutageNumbers, LessFacts, SigningConstants DEF SleepInv
<1>9. CASE OnTime
  <2>1. hold' = 0
    BY <1>1, <1>9 DEF OnTime, Less
  <2>2. CASE pc = "wait"
    <3>1. timer > 0 /\ active.left = overlap + timer
      BY <1>2, <1>9, <2>2 DEF OnTime
    <3>2. timer' = timer - 1 /\ active'.left = active.left - 1
      BY <1>1, <1>3, <3>1, OutageNumbers, SigningConstants DEF Less
    <3>3. active'.left = overlap + timer'
      BY <3>1, <3>2, OutageNumbers, SigningConstants
    <3> QED
      BY <1>1, <1>6, <1>7, <1>8, <2>1, <2>2, <3>3 DEF OnTime
  <2>3. CASE pc = "root"
    <3>1. active'.left + root_call'.age >= overlap
      BY <1>3, <1>4, <1>9, <2>3, OutageNumbers, SigningConstants DEF OnTime
    <3> QED
      BY <1>1, <1>6, <1>7, <1>8, <2>1, <2>3, <3>1 DEF OnTime
  <2> QED
    BY <1>2, <1>9, <2>2, <2>3 DEF OnTime
<1>10. CASE Trying
  <2>1. Delay' = Delay - 1 /\ Delay \in Nat
    <3>1. Delay \in Nat
      BY DelayBounded
    <3>2. CASE pc = "root"
      BY <1>1, <1>4, <3>1, <3>2, OutageNumbers, SigningConstants DEF Delay
    <3>3. CASE pc = "sleep"
      <4>1. timer > 0 /\ Asleep = timer /\ Asleep' = timer - 1
        BY <1>1, <1>2, <3>3, OutageNumbers DEF Asleep, Less
      <4>2. CASE hold <= timer
        <5>1. hold' <= timer - 1
          BY <1>1, <4>1, <4>2, OutageNumbers DEF Less
        <5> QED
          BY <1>1, <3>3, <4>1, <4>2, <5>1, OutageNumbers, SigningConstants DEF Delay
      <4>3. CASE ~ (hold <= timer)
        <5>1. hold' = hold - 1 /\ ~ (hold' <= timer - 1)
          BY <1>1, <4>1, <4>3, OutageNumbers DEF Less
        <5> QED
          BY <1>1, <3>3, <4>1, <4>3, <5>1, OutageNumbers, SigningConstants DEF Delay
      <4> QED
        BY <4>2, <4>3
    <3> QED
      BY <1>2, <1>10, <3>1, <3>2, <3>3 DEF Trying
  <2>2. active'.left <= overlap
    BY <1>3, <1>10, OutageNumbers, SigningConstants DEF Trying
  <2>3. CASE rootUp
    <3>1. upFor' \in Nat /\ upFor' <= upFor + 1 /\ downFor' = downFor
      BY <1>1, <2>3, OutageNumbers DEF More
    <3>2. Delay' + upFor' <= retry_interval + ROTATION_BACKOFF_MAX_MS + MaxCall
      <4>1. PICK most \in Int : most = retry_interval + ROTATION_BACKOFF_MAX_MS + MaxCall
        BY SigningConstants
      <4>2. Delay + upFor <= most
        BY <1>10, <2>3, <4>1 DEF Trying
      <4>3. Delay' + upFor' <= most
        <5>1. /\ Delay \in Int /\ Delay' \in Int /\ upFor \in Int /\ upFor' \in Int
              /\ Delay' = Delay - 1 /\ upFor' <= upFor + 1
          BY <2>1, <3>1, OutageNumbers
        <5> QED
          BY <4>2, <5>1, TickKept
      <4> QED
        BY <4>1, <4>3
    <3>3. downFor' < Tolerated => active'.left > Delay'
      BY <1>3, <1>10, <2>1, <2>3, <3>1, OutageNumbers DEF Trying
    <3>4. Trying'
      BY <1>1, <1>10, <2>2, <2>3, <3>2, <3>3 DEF Trying
    <3> QED
      BY <1>6, <1>7, <1>8, <3>4
  <2>4. CASE ~ rootUp
    <3>1. downFor' < Tolerated => downFor' = downFor + 1
      BY <1>1, <2>4, OutageNumbers, SigningConstants DEF More, Ages, OneOutage
    <3>2. downFor' < Tolerated => active'.left + downFor' >= overlap - MaxCall
      BY <1>3, <1>10, <2>4, <3>1, OutageNumbers, SigningConstants DEF Trying
    <3>3. Trying'
      BY <1>1, <1>10, <2>2, <2>4, <3>2 DEF Trying
    <3> QED
      BY <1>6, <1>7, <1>8, <3>3
  <2> QED
    BY <2>3, <2>4
<1> QED
  BY <1>9, <1>10

\* Every step keeps the outage invariant.
LEMMA StepOutageInv ==
  ASSUME OneOutage
  PROVE  SigningInv /\ OutageInv /\ [SigningNext]_signingVars => OutageInv'
<1> SUFFICES ASSUME SigningInv, OutageInv, [SigningNext]_signingVars PROVE OutageInv'
  OBVIOUS
<1>1. ~ (HaltSeen \/ WaitPolls \/ ObserveNothing \/ ObserveAdvance \/ DropPlane \/ Panic)
  BY DEF OneOutage, OutageInv, KeyInv, HaltSeen, WaitPolls, ObserveNothing, ObserveAdvance, DropPlane,
     Panic
<1>2. CASE Rotor
  BY <1>1, <1>2, OutageWorker, OutageStartRotation, OutageKeepKey, OutageRootIssues,
     OutageRootDeclines DEF Rotor
<1>3. CASE \E x \in Exchange : Open(x) \/ RefuseUncovered(x) \/ Dispatch(x) \/ Reply(x) \/ Deliver(x)
  <2>1. UNCHANGED <<rootVars, custody, snapshot, rotor, halted>>
    BY <1>3 DEF Open, RefuseUncovered, Dispatch, Reply, Deliver
  <2> QED
    BY <2>1, OutageKept DEF custody, rotor
<1>4. CASE IncrEpoch \/ ShiftEpoch
  BY <1>4, OutageKept DEF IncrEpoch, ShiftEpoch, custody, rotor
<1>5. CASE UNCHANGED signingVars
  BY <1>5, OutageKept DEF signingVars, custody, rotor
<1> QED
  BY <1>1, <1>2, <1>3, <1>4, <1>5, OutageRootChanges, OutageTick DEF SigningNext

(* One outage of the root issuer, of any length and at any moment, a call  *)
(* in flight included, and for every ttl, overlap, hold-off and back-off:  *)
(* if it is shorter than the overlap less a hold-off, a back-off and two   *)
(* calls, the replica never stops signing; if not, signing is back no      *)
(* later than a hold-off, a back-off and two calls after the root answers. *)
(* (rotation_backoff, attempt_allowed, ensure_active)                      *)
THEOREM RootOutageRiddenHolds ==
  ASSUME OneOutage
  PROVE  SigningSpec => []RootOutageRidden
<1>1. SigningInv /\ OutageInv => RootOutageRidden
  <2> SUFFICES ASSUME SigningInv, OutageInv PROVE RootOutageRidden
    OBVIOUS
  <2>1. active.left > 0 => Valid
    BY DEF OutageInv, KeyInv, Valid
  <2>2. CASE OnTime
    <3>1. active.left > 0
      BY <2>2, OutageNumbers, SigningConstants DEF OnTime, OneOutage
    <3> QED
      BY <2>1, <3>1 DEF RootOutageRidden, OutageRidden, ResumesWithinHoldOff, Recovered
  <2>3. CASE Trying
    <3>1. Delay \in Nat
      BY DelayBounded DEF OutageInv
    <3>2. downFor < Tolerated => active.left > 0
      BY <2>3, <3>1, OutageNumbers, SigningConstants DEF Trying, Tolerated
    <3>3. rootUp => ~ (upFor > retry_interval + ROTATION_BACKOFF_MAX_MS + 2 * MaxCall)
      BY <2>3, <3>1, OutageNumbers, SigningConstants DEF Trying
    <3> QED
      BY <2>1, <3>2, <3>3 DEF RootOutageRidden, OutageRidden, ResumesWithinHoldOff, Recovered
  <2> QED
    BY <2>2, <2>3 DEF OutageInv
<1> QED
  BY <1>1, InitOutageInv, StepOutageInv, SigningInvAlways, PTL DEF SigningSpec
=============================================================================
