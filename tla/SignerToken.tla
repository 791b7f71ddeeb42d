----------------------------- MODULE SignerToken -----------------------------
(***************************************************************************)
(* The credential behind a remote signer.  Threads that must sign share    *)
(* one cached token, one flight to fetch a new one and the record of the   *)
(* last failed flight.  A token the key service refuses is evicted and the *)
(* call repeated once; a refusal a fresh token did not cure suspends that  *)
(* repeat.  The AWS source has the cache and the flight, the GCP client    *)
(* the eviction and the repeat as well.                                    *)
(***************************************************************************)
EXTENDS Integers, FiniteSets

CONSTANTS
    Users,
    Evicts,         \* TRUE for the GCP client
    Margin,         \* TOKEN_REFRESH_MARGIN, CREDENTIAL_REFRESH_MARGIN
    Floor,          \* UNKNOWN_EXPIRY_REUSE
    Longest,        \* MAX_TOKEN_LIFETIME_SECS, MAX_SESSION_LIFETIME
    Cooldown,       \* the three cooldowns, all of one network timeout
    Timeout,        \* NETWORK_TIMEOUT
    Lifetimes,      \* what a response may state; 0 when it states nothing
    Absent,
    MaxMono, MaxFetches, MaxBack    \* bounds

\* What the constants of the code satisfy.
ASSUME TokenAssumption ==
    /\ {Margin, Floor, Longest, Cooldown, Timeout, MaxMono, MaxFetches, MaxBack} \subseteq Nat
    /\ Floor > Margin + Timeout /\ Timeout > 0 /\ Cooldown >= Timeout /\ Lifetimes \subseteq Nat
    /\ MaxBack <= MaxMono /\ Evicts \in BOOLEAN
    /\ Absent \notin Users /\ Absent \notin Int /\ Absent \notin [id : Int, expires : Int]

VARIABLES
    mono,           \* Instant
    back,           \* how far the wall clock was set back
    token,          \* the cached [id, expires], or Absent
    failure,        \* the wall instant of the last failed fetch, or Absent
    flight,         \* who holds the flight lock, or Absent
    suspended,      \* token_retry_suspended_until, or Absent
    fetches,
    bound,          \* the key service knows this identity
    revoked,        \* tokens it no longer honours
    thread,         \* thread -> its operation
    failedAt,       \* the instant of the failure recorded, or Absent
    cast            \* tokens evicted that nobody was refused with

tokenVars == <<mono, back, token, failure, flight, suspended, fetches, bound, revoked, thread,
          failedAt, cast>>

wall == mono - back

\* entry: with_token_retry's instant; now: the clock read inside the flight; since:
\* when the current wait or round trip began.
AtRest == [at |-> "idle", round |-> 0, entry |-> 0, now |-> 0, since |-> 0, tok |-> Absent]

TokenInit ==
    /\ mono = MaxBack /\ back = 0
    /\ token = Absent /\ failure = Absent /\ flight = Absent /\ suspended = Absent
    /\ fetches = 0 /\ bound = TRUE /\ revoked = {}
    /\ thread = [t \in Users |-> AtRest]
    /\ failedAt = Absent /\ cast = {}

service == <<bound, revoked>>
clocks == <<mono, back>>
ghosts == <<failedAt, cast>>

----------------------------------------------------------------------------
(* The cache *)

fresh(now) == token # Absent /\ now + Margin < token.expires

\* A record younger than the cooldown; one the clock has not reached yet is none.
recent_failure(now) ==
    failure # Absent /\ (now >= failure /\ now - failure < Cooldown)

stated_expiry(now, life) == now + (IF life < Longest THEN life ELSE Longest)

Goes(t, r) == thread' = [thread EXCEPT ![t] = r]

\* The operation ends in an error; a second round leaves its suspension behind.
suspend_token_retry_last(t) ==
    suspended' = IF thread[t].round = 2 THEN thread[t].entry + Cooldown ELSE suspended

suspend_token_retry(t) ==
    suspended' = IF thread[t].round # 2 THEN suspended
                 ELSE IF suspended = Absent \/ suspended < thread[t].entry + Cooldown
                 THEN thread[t].entry + Cooldown ELSE suspended

\* with_token_retry begins.
Begin(t) ==
    /\ thread[t].at = "idle"
    /\ Goes(t, [AtRest EXCEPT !.at = "look", !.round = 1, !.entry = mono])
    /\ UNCHANGED <<clocks, token, failure, flight, suspended, fetches, service, ghosts>>

Look(t) ==
    /\ thread[t].at = "look"
    /\ IF fresh(wall)
       THEN /\ Goes(t, [thread[t] EXCEPT !.at = "call", !.tok = token.id, !.since = mono])
            /\ UNCHANGED suspended
       ELSE IF recent_failure(wall)
       THEN /\ Goes(t, [thread[t] EXCEPT !.at = "error"])
            /\ suspend_token_retry(t)
       ELSE /\ Goes(t, [thread[t] EXCEPT !.at = "queue", !.since = mono])
            /\ UNCHANGED suspended
    /\ UNCHANGED <<clocks, token, failure, flight, fetches, service, ghosts>>

TakeFlight_unlocked(t) ==
    /\ thread[t].at = "queue"
    /\ flight' = t /\ Goes(t, [thread[t] EXCEPT !.at = "again"])
    /\ UNCHANGED <<clocks, token, failure, suspended, fetches, service, ghosts>>

TakeFlight(t) ==
    /\ thread[t].at = "queue" /\ flight = Absent
    /\ flight' = t /\ Goes(t, [thread[t] EXCEPT !.at = "again"])
    /\ UNCHANGED <<clocks, token, failure, suspended, fetches, service, ghosts>>

\* The flight's holder looks again: the one before it may have filled the cache.
LookAgain(t) ==
    /\ thread[t].at = "again"
    /\ IF fresh(wall)
       THEN /\ Goes(t, [thread[t] EXCEPT !.at = "call", !.tok = token.id, !.since = mono])
            /\ flight' = Absent /\ UNCHANGED <<suspended, fetches>>
       ELSE IF recent_failure(wall)
       THEN /\ Goes(t, [thread[t] EXCEPT !.at = "error"])
            /\ flight' = Absent /\ suspend_token_retry(t) /\ UNCHANGED fetches
       ELSE /\ fetches < MaxFetches /\ fetches' = fetches + 1
            /\ Goes(t, [thread[t] EXCEPT !.at = "fetch", !.now = wall, !.since = mono])
            /\ UNCHANGED <<flight, suspended>>
    /\ UNCHANGED <<clocks, token, failure, service, ghosts>>

Fetched_expired(t, life) ==
    /\ thread[t].at = "fetch"
    /\ token' = [id |-> fetches,
                 expires |-> IF life = 0 THEN thread[t].now
                             ELSE stated_expiry(IF Evicts THEN thread[t].now ELSE wall, life)]
    /\ failure' = Absent /\ failedAt' = Absent /\ flight' = Absent
    /\ Goes(t, [thread[t] EXCEPT !.at = "call", !.tok = fetches, !.since = mono])
    /\ UNCHANGED <<clocks, suspended, fetches, service, cast>>

\* A response: its expiry as stated, counted from the request by GCP and from the
\* answer by AWS, or the floor when it stated none.
Fetched(t, life) ==
    /\ thread[t].at = "fetch"
    /\ token' = [id |-> fetches,
                 expires |-> IF life = 0 THEN thread[t].now + Floor
                             ELSE stated_expiry(IF Evicts THEN thread[t].now ELSE wall, life)]
    /\ failure' = Absent /\ failedAt' = Absent /\ flight' = Absent
    /\ Goes(t, [thread[t] EXCEPT !.at = "call", !.tok = fetches, !.since = mono])
    /\ UNCHANGED <<clocks, suspended, fetches, service, cast>>

FetchFails_entry(t) ==
    /\ thread[t].at = "fetch"
    /\ failure' = thread[t].now /\ failedAt' = mono /\ flight' = Absent
    /\ Goes(t, [thread[t] EXCEPT !.at = "error"])
    /\ suspend_token_retry(t)
    /\ UNCHANGED <<clocks, token, fetches, service, cast>>

\* The failure is stamped with the instant it was proved.
FetchFails(t) ==
    /\ thread[t].at = "fetch"
    /\ failure' = wall /\ failedAt' = mono /\ flight' = Absent
    /\ Goes(t, [thread[t] EXCEPT !.at = "error"])
    /\ suspend_token_retry(t)
    /\ UNCHANGED <<clocks, token, fetches, service, cast>>

----------------------------------------------------------------------------
(* The call, its refusal, and the repeat *)

Honoured(t) == bound /\ thread[t].tok \notin revoked

\* A signature; a second round's also lifts the suspension.
CallSigned(t) ==
    /\ thread[t].at = "call" /\ Honoured(t)
    /\ Goes(t, AtRest)
    /\ IF thread[t].round = 2 THEN suspended' = Absent
       ELSE UNCHANGED suspended
    /\ UNCHANGED <<clocks, token, failure, flight, fetches, service, failedAt, cast>>

\* Any failure but a refused token ends the operation.
CallFails(t) ==
    /\ thread[t].at = "call"
    /\ Goes(t, [thread[t] EXCEPT !.at = "error"])
    /\ UNCHANGED <<clocks, token, failure, flight, suspended, fetches, service, ghosts>>

\* 401: the first asks whether the repeat is suspended, the second suspends it.
Refused(t) ==
    /\ thread[t].at = "call" /\ ~ Honoured(t)
    /\ IF ~ Evicts THEN
         /\ Goes(t, [thread[t] EXCEPT !.at = "error"]) /\ UNCHANGED suspended
       ELSE IF thread[t].round = 2 THEN
         /\ Goes(t, [thread[t] EXCEPT !.at = "error"]) /\ suspend_token_retry(t)
       ELSE IF suspended # Absent /\ thread[t].entry < suspended THEN
         /\ Goes(t, [thread[t] EXCEPT !.at = "error"]) /\ UNCHANGED suspended
       ELSE
         /\ Goes(t, [thread[t] EXCEPT !.at = "evict"]) /\ suspended' = Absent
    /\ UNCHANGED <<clocks, token, failure, flight, fetches, service, failedAt, cast>>

Cast == IF token.id \in {thread[t].tok : t \in {u \in Users : thread[u].at = "evict"}}
        THEN {} ELSE {token.id}

invalidate_any(t) ==
    /\ thread[t].at = "evict"
    /\ IF token # Absent
       THEN /\ token' = Absent /\ cast' = cast \cup Cast
            /\ Goes(t, [thread[t] EXCEPT !.at = "look", !.round = 2])
       ELSE Goes(t, [thread[t] EXCEPT !.at = "error"]) /\ UNCHANGED <<token, cast>>
    /\ UNCHANGED <<clocks, failure, flight, suspended, fetches, service, failedAt>>

\* Only the token that was refused is evicted, and only its evictor tries again.
invalidate(t) ==
    /\ thread[t].at = "evict"
    /\ IF token # Absent /\ token.id = thread[t].tok
       THEN /\ token' = Absent /\ cast' = cast \cup Cast
            /\ Goes(t, [thread[t] EXCEPT !.at = "look", !.round = 2])
       ELSE Goes(t, [thread[t] EXCEPT !.at = "error"]) /\ UNCHANGED <<token, cast>>
    /\ UNCHANGED <<clocks, failure, flight, suspended, fetches, service, failedAt>>

Returns(t) ==
    /\ thread[t].at = "error"
    /\ Goes(t, AtRest)
    /\ UNCHANGED <<clocks, token, failure, flight, suspended, fetches, service, ghosts>>

----------------------------------------------------------------------------
(* The environment *)

\* Time passes while threads wait or a round trip lasts, a timeout at the most;
\* everything else is done at once.
TokenTick ==
    /\ mono < MaxMono /\ mono' = mono + 1
    /\ \A t \in Users :
         /\ thread[t].at \in {"idle", "queue", "fetch", "call"}
         /\ thread[t].at = "queue" => flight # Absent
         /\ thread[t].at \in {"fetch", "call"} => mono - thread[t].since < Timeout
    /\ UNCHANGED <<back, token, failure, flight, suspended, fetches, service, thread, ghosts>>

StepBack ==
    /\ back < MaxBack /\ back' = back + 1
    /\ UNCHANGED <<mono, token, failure, flight, suspended, fetches, service, thread, ghosts>>

\* A token is revoked, or the identity loses or regains its binding.
Revoke ==
    /\ Evicts /\ token # Absent /\ revoked' = revoked \cup {token.id}
    /\ UNCHANGED <<clocks, token, failure, flight, suspended, fetches, bound, thread, ghosts>>

Rebind ==
    /\ bound' = ~ bound
    /\ UNCHANGED <<clocks, token, failure, flight, suspended, fetches, revoked, thread, ghosts>>

TokenNext ==
    \/ TokenTick \/ StepBack \/ Revoke \/ Rebind
    \/ \E t \in Users :
         \/ Begin(t) \/ Look(t) \/ TakeFlight(t) \/ LookAgain(t)
         \/ \E life \in Lifetimes : Fetched(t, life)
         \/ FetchFails(t) \/ CallSigned(t) \/ CallFails(t) \/ Refused(t) \/ invalidate(t)
         \/ Returns(t)

TokenSpec == TokenInit /\ [][TokenNext]_tokenVars

----------------------------------------------------------------------------
(* What the credential's owner promises *)

TokenTypeOK ==
    /\ mono \in 0..MaxMono /\ back \in 0..MaxBack /\ fetches \in 0..MaxFetches
    /\ token # Absent => token.id \in 1..MaxFetches
    /\ flight \in Users \cup {Absent}
    /\ \A t \in DOMAIN thread : thread[t].at \in
         {"idle", "look", "queue", "again", "fetch", "call", "evict", "error"}

\* One round trip at a time, whoever was refused, suspended or let back in meanwhile:
\* who looks again or fetches is the one the flight lock names.
OneFlight == \A t \in DOMAIN thread : thread[t].at \in {"again", "fetch"} => flight = t

\* A failed round trip is not repeated by those who waited for it: none starts
\* within a cooldown of the instant the last one was proved to fail.
FailureShared ==
    \A t \in DOMAIN thread :
      thread[t].at = "fetch" /\ failedAt # Absent /\ back = 0 =>
        thread[t].since - failedAt >= Cooldown

\* A caller waits for one round trip of somebody else, never for a queue of them,
\* unless the wall clock is set back, which drops the record it would have been told.
WaitsOneTimeout ==
    \A t \in DOMAIN thread :
      thread[t].at = "queue" /\ back = 0 => mono - thread[t].since <= Timeout

\* What is fetched outlasts the margin, so that who waited for it can use it.
TokensLast == ~ Evicts /\ Margin < Longest /\ \A life \in Lifetimes : life # 0 => life > Margin

\* However many threads miss the cache, one round trip at a time is made for them all
\* (the flight lock), and one that failed is not repeated by those who waited for it
\* (fresh_or_recent_failure).
FetchShared == TokenTypeOK /\ OneFlight /\ FailureShared

\* Threads refused with the old token never throw away its successor.
SuccessorKept == cast = {}

\* A straggler with an older instant does not cut short a suspension another opened.
SuspensionKept ==
    [][suspended # Absent /\ suspended' # Absent => suspended' >= suspended]_suspended

\* Threads that share the token cache spare each other: one fetch serves them all, and
\* stragglers undo nothing.  (invalidate, suspend_token_retry)
TokenShared == [](FetchShared /\ SuccessorKept) /\ SuspensionKept

=============================================================================
