------------------------------ MODULE MCSigner ------------------------------
(***************************************************************************)
(* The signer for TLC.  `quota`, `aws`, `gcp`: the remote key service, its *)
(* quota window, the AWS session and the GCP token.  `epoch`, `outage`:    *)
(* DelegatedSigning under a short key life, every fault and an epoch that  *)
(* moves; and under a long key life, so that an outage can be ridden out.  *)
(* The parts share no state: each scene runs one of them and leaves the    *)
(* others where they start.                                                *)
(***************************************************************************)
EXTENDS HandshakeQuota, SignerToken, DelegatedSigning

CONSTANTS t1, t2, t3

VARIABLE scene

Gcp == INSTANCE SignerToken WITH
         Users <- {t1, t2}, Evicts <- TRUE, Floor <- 3, Longest <- 3, Timeout <- 1,
         Lifetimes <- {0, 1}, MaxMono <- 3, MaxBack <- 0

Epochs == INSTANCE DelegatedSigning WITH
  ttl <- 4, overlap <- 2, ISSUANCE_ATTEMPTS_PER_OVERLAP <- 2, ROTATION_BACKOFF_MAX_MS <- 2,
  Watch <- TRUE, MaxAge <- 0, Faults <- {"regress", "unreadable", "drop", "panic"},
  sig_ttl_secs <- 2, completion_bound <- 1

ASSUME Gcp!TokenAssumption /\ Epochs!SigningAssumption /\ TokensLast /\ OneOutage

SceneInit ==
    /\ Init
    /\ scene \in {"quota", "aws", "gcp", "epoch", "outage"}
    /\ IF scene = "gcp" THEN Gcp!TokenInit ELSE TokenInit
    /\ IF scene = "epoch" THEN Epochs!SigningInit ELSE SigningInit

SceneNext ==
    /\ UNCHANGED scene
    /\ \/ scene = "quota" /\ Next /\ UNCHANGED <<tokenVars, signingVars>>
       \/ scene = "aws" /\ TokenNext /\ UNCHANGED <<vars, signingVars>>
       \/ scene = "gcp" /\ Gcp!TokenNext /\ UNCHANGED <<vars, signingVars>>
       \/ scene = "epoch" /\ Epochs!SigningNext /\ UNCHANGED <<vars, tokenVars>>
       \/ scene = "outage" /\ SigningNext /\ UNCHANGED <<vars, tokenVars>>

SceneSpec == SceneInit /\ [][SceneNext]_<<scene, vars, tokenVars, signingVars>>

\* An outage behind the signer is ridden out.  Of the token service: nobody waits for a
\* queue of round trips.  Of the root issuer: a passing one is recovered from before the
\* key expires, as the overlap leaves room for the call that failed, the hold-off and one
\* back-off; after a longer one signing is back at the latest one hold-off, one back-off
\* and two calls after the root answers again.
\* (cached_or_exchange, rotation_backoff, attempt_allowed)
OutagesRidden ==
    /\ TypeOK
    /\ scene = "aws" => WaitsOneTimeout
    /\ scene = "outage" => RootOutageRidden
=============================================================================
