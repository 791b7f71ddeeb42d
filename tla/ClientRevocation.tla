-------------------------- MODULE ClientRevocation --------------------------
(***************************************************************************)
(* Client certificates and their revocation.  An operator rewrites the CRL *)
(* files; a worker re-reads them, gates them, and installs them in three   *)
(* places one after another: the index every request is judged by, the TLS *)
(* configuration the next handshake uses, and the posture an operator is   *)
(* told.  A handshake judges a certificate once, a resumed one not at all, *)
(* and a request is judged by the index of its own moment.                 *)
(***************************************************************************)
EXTENDS Integers, Sequences, FiniteSetsExt

CONSTANTS
    Paths,          \* the configured CRL files
    IssuerAt,       \* path -> the issuer whose CRL it holds
    Leaves,         \* client certificates
    Chain,          \* leaf -> the presented chain, leaf first
    IssuerOf,       \* certificate -> its issuer
    NotBefore, NotAfter,  \* certificate -> its validity window
    SelfIssued,     \* the certificates that issued themselves
    Ceiling,        \* max_client_cert_lifetime, or Unset
    Unset,
    Validity,       \* nextUpdate - thisUpdate of every CRL
    Conns,          \* connections
    MaxTime, MaxWrites    \* bounds

ASSUME RevocationAssumption ==
    /\ IssuerAt \in [Paths -> STRING]
    /\ \A l \in Leaves :
         Chain[l] \in Seq(DOMAIN IssuerOf) /\ Chain[l] # <<>> /\ Chain[l][1] = l
    /\ Validity \in Nat \ {0} /\ MaxTime \in Nat /\ MaxWrites \in Nat

VARIABLES
    now,
    listed,         \* path -> the certificates its publisher has revoked
    file,           \* path -> what the file holds, or Bad
    writes,
    revokedAt,      \* certificate -> when a CRL first listed it, or Unset
    worker,         \* the reload worker's place
    gate,           \* the instant this attempt judges every CRL against
    toRead,         \* paths this attempt has still to read
    got,            \* the CRLs it has read
    index,          \* SharedClientRevocation
    snapshot,       \* the CRLs of the serving configuration's verifier
    evidence,       \* ClientRevocationCurrency: the CRLs reported
    degraded, stopped,
    owner,          \* the plane's halt
    retired,        \* the plane was dropped, or its worker's panic was reported
    sessions,       \* leaves with a stored session
    conn,           \* connection -> its state
    enforced        \* certificates some installed index has revoked

vars == <<now, listed, file, writes, revokedAt, worker, gate, toRead, got, index, snapshot,
          evidence, degraded, stopped, owner, retired, sessions, conn, enforced>>

Certs == UNION {{Chain[l][i] : i \in 1..Len(Chain[l])} : l \in Leaves}

\* A file that cannot be read, is empty or malformed, or states no nextUpdate.
Bad == [issuer |-> "", revoked |-> {}, next |-> -1]

Idle == [at |-> "closed", leaf |-> Unset, config |-> {}, t |-> 0, known |-> {}]

----------------------------------------------------------------------------
(* ClientCrlEvidence, ClientRevocationIndex *)

\* require_in_force, for every CRL of the set, at one instant.
from_checked(crls, t) == \A c \in crls : c # Bad /\ t < c.next

per_issuer_latest(crls) ==
    [i \in {c.issuer : c \in crls} |->
        [revoked |-> UNION {c.revoked : c \in {d \in crls : d.issuer = i}},
         next    |-> Max({c.next : c \in {d \in crls : d.issuer = i}})]]

\* from_crl_ders: CRLs of one issuer unite, and the earliest nextUpdate holds.
per_issuer(crls) ==
    [i \in {c.issuer : c \in crls} |->
        [revoked |-> UNION {c.revoked : c \in {d \in crls : d.issuer = i}},
         next    |-> Min({c.next : c \in {d \in crls : d.issuer = i}})]]

verdict_expiry_first(ix, c, t) ==
    IF IssuerOf[c] \notin DOMAIN ix THEN "Unknown"
    ELSE IF t >= ix[IssuerOf[c]].next THEN "Unknown"
    ELSE IF c \in ix[IssuerOf[c]].revoked THEN "Revoked" ELSE "Good"

\* verdict: an explicit revocation outlives its CRL.
verdict(ix, c, t) ==
    IF IssuerOf[c] \notin DOMAIN ix THEN "Unknown"
    ELSE IF c \in ix[IssuerOf[c]].revoked THEN "Revoked"
    ELSE IF t >= ix[IssuerOf[c]].next THEN "Unknown" ELSE "Good"

contains(c, t) == NotBefore[c] <= t /\ t < NotAfter[c]

Issuers(l) == {Chain[l][i] : i \in 2..Len(Chain[l])}

\* evaluate_chain_currency: the leaf's window, ceiling and status, then the
\* issuers' windows, then the issuers' explicit revocations.
Current(ix, l, t) ==
    \/ Ceiling = Unset /\ Paths = {}
    \/ /\ NotAfter[l] > NotBefore[l] /\ contains(l, t)
       /\ Ceiling # Unset => NotAfter[l] - NotBefore[l] <= Ceiling
       /\ Paths # {} => verdict(ix, l, t) = "Good"
       /\ \A c \in Issuers(l) : c \in SelfIssued \/ contains(c, t)
       /\ Paths # {} => \A c \in Issuers(l) :
            NotAfter[c] > NotBefore[c] /\ verdict(ix, c, t) # "Revoked"

\* The TLS library's verifier: every certificate below the anchor has a status,
\* from a CRL in force.
Verifies(crls, l, t) ==
    \A i \in 1..Len(Chain[l]) :
      LET c == Chain[l][i] IN
      /\ contains(c, t)
      /\ crls # {} /\ c \notin SelfIssued => verdict(per_issuer(crls), c, t) = "Good"

----------------------------------------------------------------------------

Fresh(p) == [issuer |-> IssuerAt[p], revoked |-> {}, next |-> Validity]

\* Startup loaded the files, checked them, and started the worker.
Init ==
    /\ now = 0 /\ writes = 0
    /\ listed = [p \in Paths |-> {}] /\ file = [p \in Paths |-> Fresh(p)]
    /\ revokedAt = [c \in Certs |-> Unset]
    /\ worker = "sleep" /\ gate = 0 /\ toRead = {} /\ got = {}
    /\ snapshot = {Fresh(p) : p \in Paths}
    /\ index = per_issuer(snapshot) /\ evidence = snapshot
    /\ degraded = FALSE /\ stopped = FALSE /\ owner = FALSE /\ retired = FALSE
    /\ sessions = {} /\ conn = [k \in Conns |-> Idle]
    /\ enforced = {}

files == <<listed, file, writes, revokedAt>>
reload == <<worker, gate, toRead, got, index, snapshot, evidence, degraded, stopped, owner,
            retired, enforced>>
serving == <<sessions, conn>>

Tick ==
    /\ now < MaxTime /\ now' = now + 1
    /\ UNCHANGED <<files, reload, serving>>

----------------------------------------------------------------------------
(* The operator, and whatever can happen to a file *)

\* The CA lists the certificates cs, none or some more, and its CRL is installed.
Publish(p, cs) ==
    /\ writes < MaxWrites /\ writes' = writes + 1
    /\ \A c \in cs : IssuerOf[c] = IssuerAt[p]
    /\ listed' = [listed EXCEPT ![p] = @ \cup cs]
    /\ file' = [file EXCEPT ![p] = [issuer |-> IssuerAt[p], revoked |-> listed'[p],
                                    next |-> now + Validity]]
    /\ revokedAt' = [c \in Certs |->
         IF c \in cs /\ revokedAt[c] = Unset THEN now ELSE revokedAt[c]]
    /\ UNCHANGED <<now, reload, serving>>

Spoil(p) ==
    /\ writes < MaxWrites /\ writes' = writes + 1
    /\ file' = [file EXCEPT ![p] = Bad]
    /\ UNCHANGED <<now, listed, revokedAt, reload, serving>>

----------------------------------------------------------------------------
(* The reload worker *)

\* The attempt's own values go with it.
Forgets == gate' = 0 /\ toRead' = {} /\ got' = {}

Sleeps ==
    /\ worker = "sleep" /\ ~ owner /\ Paths # {}
    /\ worker' = "read" /\ gate' = now /\ toRead' = Paths /\ got' = {}
    /\ UNCHANGED <<now, files, index, snapshot, evidence, degraded, stopped, owner, retired,
                   enforced, serving>>

\* The nap ends with a halt.
StandsDown ==
    /\ worker = "sleep" /\ owner
    /\ worker' = "gone" /\ stopped' = TRUE
    /\ UNCHANGED <<now, files, gate, toRead, got, index, snapshot, evidence, degraded, owner,
                   retired, enforced, serving>>

Read_skips(p) ==
    /\ worker = "read" /\ p \in toRead
    /\ got' = (got \cup {file[p]}) \ {Bad} /\ toRead' = toRead \ {p}
    /\ worker' = IF toRead' = {} THEN "gate" ELSE "read"
    /\ UNCHANGED <<now, files, gate, index, snapshot, evidence, degraded, stopped, owner,
                   retired, enforced, serving>>

\* load_client_crls: one file after another.
Read(p) ==
    /\ worker = "read" /\ p \in toRead
    /\ got' = got \cup {file[p]} /\ toRead' = toRead \ {p}
    /\ worker' = IF file[p] = Bad THEN "failed" ELSE IF toRead' = {} THEN "gate" ELSE "read"
    /\ UNCHANGED <<now, files, gate, index, snapshot, evidence, degraded, stopped, owner,
                   retired, enforced, serving>>

Rebuild_indexed ==
    /\ worker = "gate"
    /\ worker' \in IF from_checked(got, gate) THEN {"built", "failed"} ELSE {"failed"}
    /\ index' = IF from_checked(got, gate) THEN per_issuer(got) ELSE index
    /\ UNCHANGED <<now, files, gate, toRead, got, snapshot, evidence, degraded,
                   stopped, owner, retired, enforced, serving>>

\* from_checked, revocation_index, then the configuration is rebuilt, which can
\* fail on its own.
Rebuild ==
    /\ worker = "gate"
    /\ worker' \in IF from_checked(got, gate) THEN {"built", "failed"} ELSE {"failed"}
    /\ UNCHANGED <<now, files, gate, toRead, got, index, snapshot, evidence, degraded,
                   stopped, owner, retired, enforced, serving>>

StoreIndex ==
    /\ worker = "built" /\ worker' = "indexed"
    /\ index' = per_issuer(got)
    /\ enforced' = enforced \cup UNION {c.revoked : c \in got}
    /\ UNCHANGED <<now, files, gate, toRead, got, snapshot, evidence, degraded, stopped,
                   owner, retired, serving>>

\* reload_once stores the rebuilt configuration.
Swap ==
    /\ worker = "indexed" /\ worker' = "swapped"
    /\ snapshot' = got
    /\ UNCHANGED <<now, files, gate, toRead, got, index, evidence, degraded, stopped, owner,
                   retired, enforced, serving>>

Republish_revives ==
    /\ worker = "swapped" /\ worker' = "sleep"
    /\ evidence' = got /\ degraded' = FALSE /\ stopped' = FALSE
    /\ Forgets
    /\ UNCHANGED <<now, files, index, snapshot, owner, retired, enforced, serving>>

Republish ==
    /\ worker = "swapped" /\ worker' = "sleep"
    /\ evidence' = got /\ degraded' = FALSE
    /\ Forgets
    /\ UNCHANGED <<now, files, index, snapshot, stopped, owner, retired, enforced, serving>>

KeptLastGood_silent ==
    /\ worker = "failed" /\ worker' = "sleep"
    /\ Forgets
    /\ UNCHANGED <<now, files, index, snapshot, evidence, degraded, stopped, owner, retired,
                   enforced, serving>>

KeptLastGood ==
    /\ worker = "failed" /\ worker' = "sleep"
    /\ degraded' = TRUE
    /\ Forgets
    /\ UNCHANGED <<now, files, index, snapshot, evidence, stopped, owner, retired, enforced,
                   serving>>

\* A panic anywhere in the loop reaches the supervisor, which retracts the claim.
Panic ==
    /\ worker \in {"read", "gate", "built", "indexed", "swapped"}
    /\ worker' = "panicked"
    /\ Forgets
    /\ UNCHANGED <<now, files, index, snapshot, evidence, degraded, stopped, owner, retired,
                   enforced, serving>>

stop_and_retract ==
    /\ worker = "panicked" /\ worker' = "gone"
    /\ stopped' = TRUE /\ retired' = TRUE
    /\ UNCHANGED <<now, files, gate, toRead, got, index, snapshot, evidence, degraded, owner,
                   enforced, serving>>

\* Drop for TlsPlane: the claim is retracted, then the worker is told to halt.
Retire ==
    /\ ~ retired /\ retired' = TRUE /\ stopped' = TRUE
    /\ UNCHANGED <<now, files, worker, gate, toRead, got, index, snapshot, evidence, degraded,
                   owner, enforced, serving>>

HaltWorker ==
    /\ retired /\ ~ owner /\ owner' = TRUE
    /\ UNCHANGED <<now, files, worker, gate, toRead, got, index, snapshot, evidence, degraded,
                   stopped, retired, enforced, serving>>

maintenance == IF stopped THEN "Stopped" ELSE IF degraded THEN "Degraded" ELSE "Maintained"

----------------------------------------------------------------------------
(* Connections and requests *)

\* The accept loop takes the configuration of the moment.
AcceptConn(k, l) ==
    /\ conn[k].at = "closed"
    /\ conn' = [conn EXCEPT ![k] = [at |-> "hello", leaf |-> l, config |-> snapshot, t |-> 0,
                                  known |-> {}]]
    /\ UNCHANGED <<now, files, reload, sessions>>

\* A full handshake runs the captured verifier and stores a session.
FullHandshake(k) ==
    /\ conn[k].at = "hello" /\ Verifies(conn[k].config, conn[k].leaf, now)
    /\ conn' = [conn EXCEPT ![k].at = "open", ![k].config = {}]
    /\ sessions' = sessions \cup {conn[k].leaf}
    /\ UNCHANGED <<now, files, reload>>

\* A resumed one restores the chain and verifies nothing; a session is taken once
\* and a new one is stored.
ResumedHandshake(k) ==
    /\ conn[k].at = "hello" /\ conn[k].leaf \in sessions
    /\ conn' = [conn EXCEPT ![k].at = "open", ![k].config = {}]
    /\ UNCHANGED <<now, files, reload, sessions>>

Close(k) ==
    /\ conn[k].at \in {"hello", "open"}
    /\ conn' = [conn EXCEPT ![k] = Idle]
    /\ UNCHANGED <<now, files, reload, sessions>>

\* The request's clock reading.
Request(k) ==
    /\ conn[k].at = "open"
    /\ conn' = [conn EXCEPT ![k].at = "judge", ![k].t = now]
    /\ UNCHANGED <<now, files, reload, sessions>>

\* resolve_channel_peer, on one load of the index: the request goes on, or the
\* connection answers a refusal.
Judge(k) ==
    /\ conn[k].at = "judge"
    /\ LET l == conn[k].leaf IN
       conn' = [conn EXCEPT ![k] =
         IF Current(index, l, conn[k].t)
         THEN [@ EXCEPT !.at = "admitted", !.known = enforced \cap ({l} \cup Issuers(l))]
         ELSE [@ EXCEPT !.at = "open", !.t = 0]]
    /\ UNCHANGED <<now, files, reload, sessions>>

Answered(k) ==
    /\ conn[k].at = "admitted"
    /\ conn' = [conn EXCEPT ![k] = [@ EXCEPT !.at = "open", !.t = 0, !.known = {}]]
    /\ UNCHANGED <<now, files, reload, sessions>>

Work ==
    \/ Sleeps \/ StandsDown \/ \E p \in Paths : Read(p)
    \/ Rebuild \/ StoreIndex \/ Swap \/ Republish \/ KeptLastGood \/ stop_and_retract

Next ==
    \/ Tick \/ Work \/ Panic \/ Retire \/ HaltWorker
    \/ \E p \in Paths : Spoil(p) \/ \E cs \in SUBSET Certs : Publish(p, cs)
    \/ \E k \in Conns :
         \/ \E l \in Leaves : AcceptConn(k, l)
         \/ FullHandshake(k) \/ ResumedHandshake(k) \/ Close(k) \/ Request(k) \/ Judge(k)
         \/ Answered(k)

Spec == Init /\ [][Next]_vars

----------------------------------------------------------------------------
(* What revocation promises *)

TypeOK ==
    /\ now \in Nat /\ writes \in Nat
    /\ worker \in {"sleep", "read", "gate", "built", "indexed", "swapped", "failed",
                   "panicked", "gone"}
    /\ Bad \notin snapshot /\ Bad \notin evidence
    /\ DOMAIN index \subseteq {IssuerAt[p] : p \in Paths}
    /\ maintenance \in {"Maintained", "Degraded", "Stopped"}
    /\ \A k \in DOMAIN conn : conn[k].at \in {"closed", "hello", "open", "judge", "admitted"}

\* Revocation is bounded by the lists themselves: whatever happens to the files, the
\* worker or the plane, and on a warm or a resumed connection, no certificate is
\* admitted a validity period after a list first named it.
ExposureBound ==
    \A k \in DOMAIN conn :
      conn[k].at = "admitted" /\ Paths # {} /\ revokedAt[conn[k].leaf] # Unset =>
        conn[k].t < revokedAt[conn[k].leaf] + Validity

\* Once an installed index named a certificate, no request with it in its chain is
\* admitted again, neither after the list has expired nor after a failed reload.
NoneKnownRevoked == \A k \in DOMAIN conn : conn[k].known = {}

\* Revocation is bounded by the lists themselves (ClientRevocationIndex::from_crl_ders,
\* resolve_channel_peer), and what an installed index named is never admitted again
\* (verdict).
RevokedIsRefused == ExposureBound /\ NoneKnownRevoked

\* What an operator is told is what is enforced: between reloads the posture, the
\* request index and the handshake verifier are one set of lists.
PostureMatches ==
    worker = "sleep" /\ maintenance # "Stopped" =>
        evidence = snapshot /\ index = per_issuer(snapshot)

\* A retracted claim stays retracted, also past a reload that was under way.
RetractionSticks == retired => maintenance = "Stopped"

\* No issuer drops out of what is enforced: of every list that can be read, the index
\* knows the issuer, also when the reload met a file it could not read.
IssuersKept == \A p \in DOMAIN file : file[p] # Bad => file[p].issuer \in DOMAIN index

\* The operator is told what is enforced, no issuer drops out of it, and a retracted
\* claim stays retracted (crl_reload_worker, ClientRevocationCurrency).
PostureHonest == TypeOK /\ PostureMatches /\ IssuersKept /\ RetractionSticks

\* A listed certificate stops being admitted, or the operator is told that the
\* lists are not being kept up.
ListedIsRefused ==
    \A l \in Leaves :
      (revokedAt[l] # Unset) ~> (~ Current(index, l, now) \/ maintenance # "Maintained")
=============================================================================
